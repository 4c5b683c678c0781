--------------------------- MODULE BillingProofs ----------------------------
(***************************************************************************)
(* Proofs about billing orders for any number of orders, threads, attempts *)
(* and transfers, and any amounts.                                         *)
(***************************************************************************)
EXTENDS Billing, TLAPS

-----------------------------------------------------------------------------
(***************************************************************************)
(* What the activation service makes of one order.                         *)
(***************************************************************************)

\* The activation row exists, and the order is shown as applied, only with the
\* payment fact and a grant.
PaidFor(ord) ==
  ord.activation = "applied" \/ ord.row = "applied" =>
    ord.payment = "verified_paid" /\ ord.granted > 0

\* An order set aside for review is not shown as applied.
LEMMA ReviewIsSound ==
  ASSUME NEW ord \in OrderRow
  PROVE  MarkReview(ord) \in OrderRow /\ PaidFor(MarkReview(ord))
BY DEF MarkReview, OrderRow, PaidFor, ActivationStates

\* Activation keeps the columns in their domains and grants only what is paid.
LEMMA ActivationIsSound ==
  ASSUME NEW ord \in OrderRow, ord.payment = "verified_paid", PaidFor(ord)
  PROVE  Activate(ord) \in OrderRow /\ PaidFor(Activate(ord))
<1> DEFINE more == [ord EXCEPT !.granted = @ + 1]
<1>1. more \in OrderRow /\ more.payment = "verified_paid" /\ more.granted > 0
  BY DEF OrderRow
<1>2. MarkApplied(more) \in OrderRow /\ PaidFor(MarkApplied(more))
  <2> HIDE DEF more
  <2>1. QED  BY <1>1 DEF MarkApplied, OrderRow, PaidFor, ActivationStates
<1>3. ApplyCreditPack(ord) \in OrderRow /\ PaidFor(ApplyCreditPack(ord))
  BY <1>2, ReviewIsSound DEF ApplyCreditPack
<1>4. QED  BY <1>3 DEF Activate

\* Recording the payment fact keeps an applied order applied.
LEMMA PaymentIsRecorded ==
  ASSUME NEW ord \in OrderRow, PaidFor(ord)
  PROVE  /\ RecordPaid(ord) \in OrderRow /\ PaidFor(RecordPaid(ord))
         /\ RecordPaid(ord).payment = "verified_paid"
BY DEF RecordPaid, OrderRow, PaidFor, ActivationStates

\* Whatever the provider answered, signed or not, the order stays sound.
LEMMA ResultIsSound ==
  ASSUME NEW ord \in OrderRow, PaidFor(ord), NEW answer, NEW signed
  PROVE  /\ ApplyOrderResult(ord, answer) \in OrderRow
         /\ PaidFor(ApplyOrderResult(ord, answer))
         /\ ApplyVerified(ord, answer, signed) \in OrderRow
         /\ PaidFor(ApplyVerified(ord, answer, signed))
<1>1. /\ ApplyOrderResult(ord, answer) \in OrderRow
      /\ PaidFor(ApplyOrderResult(ord, answer))
  BY ActivationIsSound, PaymentIsRecorded, ReviewIsSound DEF ApplyOrderResult
<1>2. QED  BY <1>1, ReviewIsSound DEF ApplyVerified

\* The activation retry of the worker changes only orders that are paid.
LEMMA RetryIsSound ==
  ASSUME NEW ord \in OrderRow, PaidFor(ord)
  PROVE  RetryActivationOf(ord) \in OrderRow /\ PaidFor(RetryActivationOf(ord))
BY ActivationIsSound DEF RetryActivationOf, OrderRow

\* The activation service never touches the checkout state of an order.
LEMMA CheckoutIsKept ==
  ASSUME NEW ord \in OrderRow, NEW answer, NEW signed
  PROVE  /\ ApplyOrderResult(ord, answer).checkout = ord.checkout
         /\ ApplyVerified(ord, answer, signed).checkout = ord.checkout
         /\ RetryActivationOf(ord).checkout = ord.checkout
BY DEF ApplyOrderResult, ApplyVerified, RetryActivationOf, Activate, ApplyCreditPack,
       MarkApplied, MarkReview, RecordPaid, OrderRow

-----------------------------------------------------------------------------
(***************************************************************************)
(* Type correctness.                                                       *)
(***************************************************************************)

\* Attempts are counted up to AttemptCap, never below one.
LEMMA AttemptsAreCounted ==
  /\ AttemptCap \in Nat /\ AttemptCap >= 2
  /\ \A n \in 0..AttemptCap : NextAttempt(n) \in 1..AttemptCap
BY BillingAssumption DEF AttemptCap, NextAttempt, BillingAssumption

\* A column of a thread's work, once it is not idle.
LEMMA WorkIsTyped ==
  ASSUME BillingTypeOK, NEW t \in Threads, threads[t] # Idle
  PROVE  threads[t] \in Work
BY DEF BillingTypeOK

\* A job names a thread that is at work.
LEMMA BusyIsNotIdle ==
  ASSUME NEW work, work.job # "idle"
  PROVE  work # Idle
BY DEF Idle

\* What get_payment reports of a link is an answer.
LEMMA ReadIsAnswer ==
  ASSUME NEW link \in Link
  PROVE  ReadLink(link) \in Heard
<1>1. link.received \in Nat /\ link.count \in 0..MaxTransfers
  BY DEF Link
<1>2. (link.count = 1 /\ link.transfers[1].late) \in BOOLEAN /\ (link.count = 1) \in BOOLEAN
  OBVIOUS
<1>3. ReadLink(link).status \in Statuses
  BY DEF ReadLink, Statuses
<1>4. ReadLink(link) \in Answer
  BY <1>1, <1>2, <1>3 DEF ReadLink, Answer
<1>5. QED  BY <1>4 DEF Heard

\* The link after a call.
LEMMA LinkIsTyped ==
  ASSUME BillingTypeOK, NEW t \in Threads, threads[t] \in Work
  PROVE  LinkAfter(threads[t]) \in Link
<1> DEFINE link == links[threads[t].order]
<1>1. link \in Link
  BY DEF BillingTypeOK, Work
<1>2. [link EXCEPT !.state = "active"] \in Link /\ [link EXCEPT !.state = "CANCELLED"] \in Link
  <2> HIDE DEF link
  <2>1. QED  BY <1>1 DEF Link
<1>3. QED  BY <1>1, <1>2 DEF LinkAfter

\* A command that is put into its queue.
LEMMA QueuedIsTyped ==
  Queued \in Command /\ \A cmd \in Command : Requeue(cmd) \in Command
<1>1. 0 \in 0..AttemptCap /\ "pending" \in {"absent", "completed", "dead"} \cup ActiveStates
      /\ NoThread \in Threads \cup {NoThread}
  BY AttemptsAreCounted DEF ActiveStates
<1>2. Queued \in Command
  BY <1>1 DEF Queued, Command
<1>3. ASSUME NEW cmd \in Command  PROVE Requeue(cmd) \in Command
  BY <1>1 DEF Requeue, Command
<1>4. QED  BY <1>2, <1>3

\* An order that is rewritten by a transaction.
LEMMA OrderIsWritten ==
  ASSUME BillingTypeOK, NEW o \in Orders, NEW ord \in OrderRow,
         orders' = [orders EXCEPT ![o] = ord]
  PROVE  orders' \in [Orders -> OrderRow]
BY DEF BillingTypeOK

\* The columns that are set in place.
LEMMA ColumnsAreTyped ==
  ASSUME NEW ord \in OrderRow
  PROVE  /\ \A c \in CheckoutStates : [ord EXCEPT !.checkout = c] \in OrderRow
         /\ \A a \in ActivationStates : [ord EXCEPT !.activation = a] \in OrderRow
         /\ [ord EXCEPT !.refund = TRUE] \in OrderRow
         /\ [ord EXCEPT !.overdue = TRUE] \in OrderRow
         /\ [ord EXCEPT !.eligible = ~@] \in OrderRow
BY DEF OrderRow

\* Requests, the clock and the provider's own steps keep the types.
LEMMA RequestsAreTyped ==
  ASSUME BillingTypeOK, NEW o \in Orders, Requests(o)
  PROVE  BillingTypeOK'
<1>1. Queued \in Command /\ \A cmd \in Command : Requeue(cmd) \in Command
  BY QueuedIsTyped
<1>2. /\ orders \in [Orders -> OrderRow] /\ events \in [EventKeys -> Event]
      /\ links \in [Orders -> Link] /\ threads \in [Threads -> {Idle} \cup Work]
      /\ commands \in [Orders -> [CommandTypes -> Command]]
  BY DEF BillingTypeOK
<1>3. CASE CreateCheckout(o)
  <2>1. orders' \in [Orders -> OrderRow]
    <3>1. [orders[o] EXCEPT !.checkout = "creating"] \in OrderRow
      BY <1>2, ColumnsAreTyped DEF CheckoutStates
    <3>2. orders' = [orders EXCEPT ![o] = [orders[o] EXCEPT !.checkout = "creating"]]
      BY <1>3 DEF CreateCheckout
    <3>3. QED  BY <3>1, <3>2, OrderIsWritten
  <2>2. commands' \in [Orders -> [CommandTypes -> Command]]
    BY <1>1, <1>2, <1>3 DEF CreateCheckout
  <2>3. QED  BY <1>2, <1>3, <2>1, <2>2 DEF CreateCheckout, BillingTypeOK
<1>4. CASE RequestCancel(o)
  <2>1. commands' \in [Orders -> [CommandTypes -> Command]]
    BY <1>1, <1>2, <1>4 DEF RequestCancel, CommandTypes
  <2>2. QED  BY <1>2, <1>4, <2>1 DEF RequestCancel, BillingTypeOK
<1>5. CASE AdminQuery(o)
  <2>1. commands' \in [Orders -> [CommandTypes -> Command]]
    BY <1>1, <1>2, <1>5 DEF AdminQuery, CommandTypes
  <2>2. QED  BY <1>2, <1>5, <2>1 DEF AdminQuery, BillingTypeOK
<1>6. CASE RequestRefund(o) \/ AdminReview(o) \/ ChangeEligibility(o)
  <2>1. orders' \in [Orders -> OrderRow]
    <3>1. PICK ord \in OrderRow : orders' = [orders EXCEPT ![o] = ord]
      BY <1>2, <1>6, ColumnsAreTyped
         DEF RequestRefund, AdminReview, ChangeEligibility, ActivationStates
    <3>2. QED  BY <3>1, OrderIsWritten
  <2>2. QED
    BY <1>2, <1>6, <2>1 DEF RequestRefund, AdminReview, ChangeEligibility, BillingTypeOK
<1>7. QED  BY <1>3, <1>4, <1>5, <1>6 DEF Requests

\* A link that receives a transfer.
LEMMA ReceiptIsTyped ==
  ASSUME NEW link \in Link, link.count < MaxTransfers,
         NEW paid \in [amount: {0} \cup Amounts, late: BOOLEAN], paid.amount \in Nat
  PROVE  Receive(link, paid) \in Link
<1>1. link.count \in Nat /\ link.received \in Nat /\ MaxTransfers \in Nat
  BY BillingAssumption DEF Link, BillingAssumption
<1>2. [link.transfers EXCEPT ![link.count + 1] = paid]
        \in [1..MaxTransfers -> [amount: {0} \cup Amounts, late: BOOLEAN]]
  BY <1>1 DEF Link
<1>3. link.count + 1 \in 0..MaxTransfers /\ link.received + paid.amount \in Nat
  BY <1>1
<1>4. QED  BY <1>2, <1>3 DEF Receive, Link

\* Transfers, the clock and the provider keep the types.
LEMMA EnvironmentIsTyped ==
  ASSUME BillingTypeOK, NEW o \in Orders, Environment(o)
  PROVE  BillingTypeOK'
<1>1. /\ orders \in [Orders -> OrderRow] /\ events \in [EventKeys -> Event]
      /\ links \in [Orders -> Link] /\ threads \in [Threads -> {Idle} \cup Work]
      /\ commands \in [Orders -> [CommandTypes -> Command]]
  BY DEF BillingTypeOK
<1>2. ASSUME NEW amount \in Amounts, Transfer(o, amount)
      PROVE  BillingTypeOK'
  <2> DEFINE paid == [amount |-> amount, late |-> orders[o].overdue]
  <2>1. paid \in [amount: {0} \cup Amounts, late: BOOLEAN] /\ paid.amount \in Nat
    BY <1>1, BillingAssumption DEF OrderRow, BillingAssumption
  <2>2. Receive(links[o], paid) \in Link
    BY <1>1, <1>2, <2>1, ReceiptIsTyped DEF Transfer
  <2>3. links' = [links EXCEPT ![o] = Receive(links[o], paid)]
    BY <1>2 DEF Transfer
  <2>4. links' \in [Orders -> Link]
    BY <1>1, <2>2, <2>3
  <2>5. QED  BY <1>1, <1>2, <2>4 DEF Transfer, BillingTypeOK
<1>3. CASE LinkExpires(o)
  <2>1. [links[o] EXCEPT !.state = "EXPIRED"] \in Link
    BY <1>1 DEF Link
  <2>3. links' = [links EXCEPT ![o] = [links[o] EXCEPT !.state = "EXPIRED"]]
    BY <1>3 DEF LinkExpires
  <2>4. links' \in [Orders -> Link]
    BY <1>1, <2>1, <2>3
  <2>2. QED  BY <1>1, <1>3, <2>4 DEF LinkExpires, BillingTypeOK
<1>4. CASE PassDeadline(o)
  <2>1. orders' = [orders EXCEPT ![o] = [orders[o] EXCEPT !.overdue = TRUE]]
    BY <1>4 DEF PassDeadline
  <2>3. orders' \in [Orders -> OrderRow]
    BY <1>1, <2>1, ColumnsAreTyped, OrderIsWritten
  <2>2. QED  BY <1>1, <1>4, <2>3 DEF PassDeadline, BillingTypeOK
<1>5. QED  BY <1>2, <1>3, <1>4 DEF Environment

\* A webhook that arrives keeps the types.
LEMMA DeliveryIsTyped ==
  ASSUME BillingTypeOK, NEW e \in EventKeys, DeliverWebhook(e)
  PROVE  BillingTypeOK'
<1>1. [status |-> "pending", attempts |-> 0] \in Event
  BY AttemptsAreCounted DEF Event, ActiveStates
<1>2. QED  BY <1>1 DEF DeliverWebhook, BillingTypeOK

\* Claims keep the types.
LEMMA ClaimsAreTyped ==
  ASSUME BillingTypeOK, Claims
  PROVE  BillingTypeOK'
<1>1. /\ orders \in [Orders -> OrderRow] /\ events \in [EventKeys -> Event]
      /\ links \in [Orders -> Link] /\ threads \in [Threads -> {Idle} \cup Work]
      /\ commands \in [Orders -> [CommandTypes -> Command]]
  BY DEF BillingTypeOK
<1>2. Said("nothing") \in Heard
  BY DEF Heard
<1>3. ASSUME NEW t \in Threads, NEW o \in Orders, NEW type \in CommandTypes,
             ClaimCommand(t, o, type)
      PROVE  BillingTypeOK'
  <2> DEFINE attempt == NextAttempt(commands[o][type].attempts)
             claim == [status |-> "processing", attempts |-> attempt, lockedBy |-> t]
             work == [job |-> "claimed", type |-> type, order |-> o, transfer |-> 0,
                      attempt |-> attempt, answer |-> Said("nothing")]
  <2>1. attempt \in 1..AttemptCap /\ attempt \in 0..AttemptCap
    BY <1>1, AttemptsAreCounted DEF Command
  <2>2. claim \in Command
    BY <2>1 DEF Command, ActiveStates
  <2>3. 0 \in 0..MaxTransfers
    BY BillingAssumption DEF BillingAssumption
  <2>4. work \in Work
    BY <1>2, <2>1, <2>3 DEF Work
  <2>5. /\ commands' = [commands EXCEPT ![o][type] = claim]
        /\ threads' = [threads EXCEPT ![t] = work]
    BY <1>3 DEF ClaimCommand
  <2>6. commands' \in [Orders -> [CommandTypes -> Command]] /\ threads' \in [Threads -> {Idle} \cup Work]
    <3> HIDE DEF claim, work
    <3>1. QED  BY <1>1, <2>2, <2>4, <2>5
  <2>7. QED  BY <1>1, <1>3, <2>6 DEF ClaimCommand, BillingTypeOK
<1>4. ASSUME NEW t \in Threads, NEW e \in EventKeys, ClaimWebhook(t, e)
      PROVE  BillingTypeOK'
  <2> DEFINE attempt == NextAttempt(events[e].attempts)
             claim == [status |-> "processing", attempts |-> attempt]
             work == [job |-> "claimed", type |-> "webhook", order |-> e[1], transfer |-> e[2],
                      attempt |-> attempt, answer |-> Said("nothing")]
  <2>1. attempt \in 1..AttemptCap /\ attempt \in 0..AttemptCap
    BY <1>1, AttemptsAreCounted DEF Event
  <2>2. claim \in Event
    BY <2>1 DEF Event, ActiveStates
  <2>3. e[1] \in Orders /\ e[2] \in 0..MaxTransfers
    BY BillingAssumption DEF EventKeys, BillingAssumption
  <2>4. work \in Work
    BY <1>2, <2>1, <2>3 DEF Work
  <2>5. events' = [events EXCEPT ![e] = claim] /\ threads' = [threads EXCEPT ![t] = work]
    BY <1>4 DEF ClaimWebhook
  <2>6. events' \in [EventKeys -> Event] /\ threads' \in [Threads -> {Idle} \cup Work]
    <3> HIDE DEF claim, work
    <3>1. QED  BY <1>1, <2>2, <2>4, <2>5
  <2>7. QED  BY <1>1, <1>4, <2>6 DEF ClaimWebhook, BillingTypeOK
<1>5. QED  BY <1>3, <1>4 DEF Claims

\* A thread that has an answer, or that is done.
LEMMA AnswerIsTyped ==
  ASSUME BillingTypeOK, NEW t \in Threads, threads[t] \in Work, NEW answer \in Heard
  PROVE  [threads EXCEPT ![t].job = "answered", ![t].answer = answer]
           \in [Threads -> {Idle} \cup Work]
<1>1. [threads[t] EXCEPT !.job = "answered", !.answer = answer] \in Work
  BY DEF Work
<1>2. QED  BY <1>1 DEF BillingTypeOK

\* A thread that is done.
LEMMA IdlingIsTyped ==
  ASSUME BillingTypeOK, NEW t \in Threads
  PROVE  [threads EXCEPT ![t] = Idle] \in [Threads -> {Idle} \cup Work]
BY DEF BillingTypeOK

\* Calls keep the types.
LEMMA CallsAreTyped ==
  ASSUME BillingTypeOK, NEW t \in Threads,
         CallProvider(t) \/ (\E failure \in Failures : CallFails(t, failure))
           \/ CommitFails(t) \/ ThreadDies(t)
  PROVE  BillingTypeOK'
<1>1. \A status \in Failures \cup {"nothing"} : Said(status) \in Heard
  BY DEF Heard
<1>2. Said("fatal") \in Heard /\ Said("retryable") \in Heard
  BY <1>1 DEF Failures
<1>3. CASE CallProvider(t)
  <2>1. threads[t] \in Work
    BY <1>3, WorkIsTyped, BusyIsNotIdle DEF CallProvider
  <2>2. LinkAfter(threads[t]) \in Link /\ ReadLink(LinkAfter(threads[t])) \in Heard
    BY <2>1, LinkIsTyped, ReadIsAnswer
  <2>3. PICK answer \in Heard :
          threads' = [threads EXCEPT ![t].job = "answered", ![t].answer = answer]
    BY <1>2, <1>3, <2>2 DEF CallProvider
  <2>4. threads' \in [Threads -> {Idle} \cup Work]
    BY <2>1, <2>3, AnswerIsTyped
  <2>5. links' = [links EXCEPT ![threads[t].order] = LinkAfter(threads[t])]
    BY <1>3 DEF CallProvider
  <2>6. links' \in [Orders -> Link]
    BY <2>2, <2>5 DEF BillingTypeOK
  <2>7. QED  BY <1>3, <2>4, <2>6 DEF CallProvider, BillingTypeOK
<1>4. ASSUME NEW failure \in Failures, CallFails(t, failure)
      PROVE  BillingTypeOK'
  <2>1. threads[t] \in Work
    BY <1>4, WorkIsTyped, BusyIsNotIdle DEF CallFails
  <2>2. threads' \in [Threads -> {Idle} \cup Work]
    BY <1>1, <1>4, <2>1, AnswerIsTyped DEF CallFails
  <2>3. QED  BY <1>4, <2>2 DEF CallFails, BillingTypeOK
<1>5. CASE CommitFails(t)
  <2>1. threads[t] \in Work /\ threads[t].job = "answered"
    BY <1>5, WorkIsTyped, BusyIsNotIdle DEF CommitFails
  <2>2. [threads[t] EXCEPT !.answer = Said("retryable")] \in Work
    BY <1>2, <2>1 DEF Work
  <2>3. threads' \in [Threads -> {Idle} \cup Work]
    BY <1>5, <2>2 DEF CommitFails, BillingTypeOK
  <2>4. QED  BY <1>5, <2>3 DEF CommitFails, BillingTypeOK
<1>6. CASE ThreadDies(t)
  BY <1>6, IdlingIsTyped DEF ThreadDies, BillingTypeOK
<1>7. QED  BY <1>3, <1>4, <1>5, <1>6

\* The checkout state after a provider status is one of the table's.
LEMMA CheckoutIsTyped ==
  ASSUME NEW checkout \in CheckoutStates, NEW type, NEW status
  PROVE  CheckoutAfter(checkout, type, status) \in CheckoutStates
BY DEF CheckoutAfter, CheckoutStates

\* What Complete and Fail leave of a command.
LEMMA SettledCommandIsTyped ==
  ASSUME NEW work \in Work
  PROVE  /\ [NoCommand EXCEPT !.status = "pending"] \in Command
         /\ [NoCommand EXCEPT !.status = "completed", !.attempts = work.attempt] \in Command
         /\ CommandAfterFailure(work) \in Command
<1>1. work.attempt \in 0..AttemptCap /\ 0 \in 0..AttemptCap
  BY AttemptsAreCounted DEF Work
<1>2. {"pending", "completed", "retry", "dead"}
        \subseteq {"absent", "completed", "dead"} \cup ActiveStates
  BY DEF ActiveStates
<1>3. \A status \in {"pending", "completed", "retry", "dead"} :
        /\ [NoCommand EXCEPT !.status = status] \in Command
        /\ [NoCommand EXCEPT !.status = status, !.attempts = work.attempt] \in Command
  BY <1>1, <1>2 DEF NoCommand, Command
<1>4. QED  BY <1>3 DEF CommandAfterFailure

\* The order that a completed command leaves.
OrderAfterAnswer(ord, work) ==
  ApplyOrderResult(
    [ord EXCEPT !.checkout = CheckoutAfter(@, work.type, work.answer.status)], work.answer)

\* A completed command leaves a sound order, with the checkout state the status asks for.
LEMMA AnswerIsSound ==
  ASSUME NEW ord \in OrderRow, NEW work
  PROVE  /\ PaidFor(ord) => PaidFor(OrderAfterAnswer(ord, work))
                            /\ OrderAfterAnswer(ord, work) \in OrderRow
         /\ OrderAfterAnswer(ord, work).checkout
              = CheckoutAfter(ord.checkout, work.type, work.answer.status)
<1> DEFINE seen == [ord EXCEPT !.checkout = CheckoutAfter(@, work.type, work.answer.status)]
<1>1. seen \in OrderRow
  BY CheckoutIsTyped, ColumnsAreTyped DEF OrderRow
<1>2. seen.checkout = CheckoutAfter(ord.checkout, work.type, work.answer.status)
  BY DEF OrderRow
<1>3. PaidFor(ord) => PaidFor(seen)
  BY DEF PaidFor, OrderRow
<1> HIDE DEF seen
<1>4. OrderAfterAnswer(ord, work) = ApplyOrderResult(seen, work.answer)
  BY DEF OrderAfterAnswer, seen
<1>5. QED  BY <1>1, <1>2, <1>3, <1>4, ResultIsSound, CheckoutIsKept

\* The inductive invariant: typed tables, and no activation without payment.
Sound == BillingTypeOK /\ \A o \in Orders : PaidFor(orders[o])

\* A step that writes one sound order, or none, and keeps the other tables'
\* types keeps the invariant.
LEMMA SoundIsKept ==
  ASSUME Sound, NEW o \in Orders, NEW ord \in OrderRow, PaidFor(ord),
         orders' = [orders EXCEPT ![o] = ord]
  PROVE  orders' \in [Orders -> OrderRow] /\ \A p \in Orders : PaidFor(orders'[p])
<1>1. orders \in [Orders -> OrderRow] /\ \A p \in Orders : PaidFor(orders[p])
  BY DEF Sound, BillingTypeOK
<1>2. orders' \in [Orders -> OrderRow]
  BY <1>1
<1>3. ASSUME NEW p \in Orders  PROVE PaidFor(orders'[p])
  <2>1. CASE p = o
    <3>1. orders'[p] = ord
      BY <1>1, <2>1
    <3>2. QED  BY <3>1
  <2>2. CASE p # o
    <3>1. orders'[p] = orders[p]
      BY <1>1, <2>2
    <3>2. QED  BY <1>1, <3>1
  <2>3. QED  BY <2>1, <2>2
<1>4. QED  BY <1>2, <1>3

\* Applying an answer, a failure or a webhook keeps the invariant.
LEMMA ApplyingIsSound ==
  ASSUME Sound, NEW t \in Threads, Complete(t) \/ Fail(t) \/ ApplyEvent(t) \/ FailEvent(t)
  PROVE  Sound'
<1> DEFINE work == threads[t]
           o == work.order
<1>1. /\ orders \in [Orders -> OrderRow] /\ events \in [EventKeys -> Event]
      /\ links \in [Orders -> Link] /\ threads \in [Threads -> {Idle} \cup Work]
      /\ commands \in [Orders -> [CommandTypes -> Command]]
      /\ \A p \in Orders : PaidFor(orders[p])
  BY DEF Sound, BillingTypeOK
<1>2. work \in Work
  BY WorkIsTyped, BusyIsNotIdle DEF Sound, Complete, Fail, ApplyEvent, FailEvent
<1>3. o \in Orders
  BY <1>2 DEF Work
<1>4. orders[o] \in OrderRow /\ PaidFor(orders[o])
  BY <1>1, <1>3
<1>5. threads' = [threads EXCEPT ![t] = Idle] /\ UNCHANGED links
  BY DEF Complete, Fail, ApplyEvent, FailEvent
<1>6. threads' \in [Threads -> {Idle} \cup Work]
  BY <1>5, IdlingIsTyped DEF Sound
<1>7. CASE Complete(t)
  <2>1. CASE OwnsClaim(t)
    <3>1. orders' = [orders EXCEPT ![o] = OrderAfterAnswer(orders[o], work)]
      BY <1>7, <2>1 DEF Complete, OrderAfterAnswer
    <3>2. orders' \in [Orders -> OrderRow] /\ \A p \in Orders : PaidFor(orders'[p])
      BY <1>3, <1>4, <3>1, AnswerIsSound, SoundIsKept
    <3>3. PICK cmd \in Command : commands' = [commands EXCEPT ![o][work.type] = cmd]
      BY <1>2, <1>7, <2>1, SettledCommandIsTyped DEF Complete
    <3>4. commands' \in [Orders -> [CommandTypes -> Command]]
      BY <1>1, <3>3
    <3>5. QED  BY <1>1, <1>5, <1>6, <1>7, <3>2, <3>4 DEF Complete, Sound, BillingTypeOK
  <2>2. CASE ~OwnsClaim(t)
    BY <1>1, <1>5, <1>6, <1>7, <2>2 DEF Complete, Sound, BillingTypeOK
  <2>3. QED  BY <2>1, <2>2
<1>8. CASE Fail(t)
  <2>1. CASE OwnsClaim(t)
    <3>1. PICK c \in CheckoutStates :
            orders' = [orders EXCEPT ![o] = [orders[o] EXCEPT !.checkout = c]]
      <4> DEFINE c == IF work.type = "create_checkout" /\ ~MayRetry(work)
                         /\ orders[o].checkout = "creating"
                      THEN "create_failed" ELSE orders[o].checkout
      <4>1. c \in CheckoutStates
        BY <1>4 DEF OrderRow, CheckoutStates
      <4>2. orders' = [orders EXCEPT ![o] = [orders[o] EXCEPT !.checkout = c]]
        BY <1>8, <2>1 DEF Fail
      <4>3. QED  BY <4>1, <4>2
    <3>2. [orders[o] EXCEPT !.checkout = c] \in OrderRow
          /\ PaidFor([orders[o] EXCEPT !.checkout = c])
      BY <1>4, ColumnsAreTyped DEF PaidFor, OrderRow
    <3>3. orders' \in [Orders -> OrderRow] /\ \A p \in Orders : PaidFor(orders'[p])
      BY <1>3, <3>1, <3>2, SoundIsKept
    <3>4. commands' = [commands EXCEPT ![o][work.type] = CommandAfterFailure(work)]
      BY <1>8, <2>1 DEF Fail
    <3>5. commands' \in [Orders -> [CommandTypes -> Command]]
      BY <1>1, <1>2, <3>4, SettledCommandIsTyped
    <3>6. QED  BY <1>1, <1>5, <1>6, <1>8, <3>3, <3>5 DEF Fail, Sound, BillingTypeOK
  <2>2. CASE ~OwnsClaim(t)
    BY <1>1, <1>5, <1>6, <1>8, <2>2 DEF Fail, Sound, BillingTypeOK
  <2>3. QED  BY <2>1, <2>2
<1>9. CASE ApplyEvent(t)
  <2> DEFINE e == <<o, work.transfer>>
             signed == links[o].transfers[work.transfer].amount
  <2>1. CASE EventIsSettled(e)
    BY <1>1, <1>5, <1>6, <1>9, <2>1 DEF ApplyEvent, Sound, BillingTypeOK
  <2>2. CASE ~EventIsSettled(e)
    <3>1. /\ orders' = [orders EXCEPT ![o] = ApplyVerified(orders[o], work.answer, signed)]
          /\ events' = [events EXCEPT ![e].status =
                          EventOutcome(orders[o], work.answer, signed)]
      BY <1>9, <2>2 DEF ApplyEvent
    <3>2. orders' \in [Orders -> OrderRow] /\ \A p \in Orders : PaidFor(orders'[p])
      BY <1>3, <1>4, <3>1, ResultIsSound, SoundIsKept
    <3>3. EventOutcome(orders[o], work.answer, signed) \in {"processed", "review"}
      BY DEF EventOutcome
    <3>4. events' \in [EventKeys -> Event]
      BY <1>1, <3>1, <3>3 DEF Event
    <3>5. QED  BY <1>1, <1>5, <1>6, <1>9, <3>2, <3>4 DEF ApplyEvent, Sound, BillingTypeOK
  <2>3. QED  BY <2>1, <2>2
<1>10. CASE FailEvent(t)
  <2>1. EventAfterFailure(work) \in {"retry", "dead"}
    BY DEF EventAfterFailure
  <2>2. events' \in [EventKeys -> Event]
    <3> DEFINE e == <<o, work.transfer>>
               s == IF events[e].status = "processing" THEN EventAfterFailure(work)
                    ELSE events[e].status
    <3>1. events' = [events EXCEPT ![e].status = s]
      BY <1>10 DEF FailEvent
    <3>2. e \in EventKeys => events[e] \in Event
      BY <1>1
    <3>3. e \in EventKeys => [events[e] EXCEPT !.status = s] \in Event
      BY <2>1, <3>2 DEF Event, ActiveStates
    <3> HIDE DEF e, s
    <3>4. QED  BY <1>1, <3>1, <3>3
  <2>3. QED  BY <1>1, <1>5, <1>6, <1>10, <2>2 DEF FailEvent, Sound, BillingTypeOK
<1>11. QED  BY <1>7, <1>8, <1>9, <1>10

\* Columns other than payment, grants and the activation row may change freely;
\* an order set aside is no longer shown as applied.
LEMMA ColumnsAreSound ==
  ASSUME NEW ord \in OrderRow, PaidFor(ord)
  PROVE  /\ \A c \in CheckoutStates : PaidFor([ord EXCEPT !.checkout = c])
         /\ PaidFor([ord EXCEPT !.activation = "review_required"])
         /\ PaidFor([ord EXCEPT !.refund = TRUE])
         /\ PaidFor([ord EXCEPT !.overdue = TRUE])
         /\ PaidFor([ord EXCEPT !.eligible = ~@])
BY DEF PaidFor, OrderRow

\* Requests, the clock and the provider keep the invariant.
LEMMA OutsideIsSound ==
  ASSUME Sound, NEW o \in Orders, Requests(o) \/ Environment(o)
  PROVE  Sound'
<1>1. BillingTypeOK'
  BY RequestsAreTyped, EnvironmentIsTyped DEF Sound
<1>2. orders[o] \in OrderRow /\ PaidFor(orders[o])
  BY DEF Sound, BillingTypeOK
<1>3. UNCHANGED orders
      \/ \E ord \in OrderRow : PaidFor(ord) /\ orders' = [orders EXCEPT ![o] = ord]
  <2>1. CASE CreateCheckout(o)
    <3>1. orders' = [orders EXCEPT ![o] = [orders[o] EXCEPT !.checkout = "creating"]]
      BY <2>1 DEF CreateCheckout
    <3>2. QED  BY <1>2, <3>1, ColumnsAreTyped, ColumnsAreSound DEF CheckoutStates
  <2>2. CASE RequestRefund(o)
    <3>1. orders' = [orders EXCEPT ![o] = [orders[o] EXCEPT !.refund = TRUE]]
      BY <2>2 DEF RequestRefund
    <3>2. QED  BY <1>2, <3>1, ColumnsAreTyped, ColumnsAreSound
  <2>3. CASE AdminReview(o)
    <3>1. orders' = [orders EXCEPT ![o] = [orders[o] EXCEPT !.activation = "review_required"]]
      BY <2>3 DEF AdminReview
    <3>2. QED  BY <1>2, <3>1, ColumnsAreTyped, ColumnsAreSound DEF ActivationStates
  <2>4. CASE ChangeEligibility(o)
    <3>1. orders' = [orders EXCEPT ![o] = [orders[o] EXCEPT !.eligible = ~@]]
      BY <2>4 DEF ChangeEligibility
    <3>2. QED  BY <1>2, <3>1, ColumnsAreTyped, ColumnsAreSound
  <2>5. CASE PassDeadline(o)
    <3>1. orders' = [orders EXCEPT ![o] = [orders[o] EXCEPT !.overdue = TRUE]]
      BY <2>5 DEF PassDeadline
    <3>2. QED  BY <1>2, <3>1, ColumnsAreTyped, ColumnsAreSound
  <2>6. CASE RequestCancel(o) \/ AdminQuery(o) \/ LinkExpires(o)
             \/ \E amount \in Amounts : Transfer(o, amount)
    BY <2>6 DEF RequestCancel, AdminQuery, LinkExpires, Transfer
  <2>7. QED  BY <2>1, <2>2, <2>3, <2>4, <2>5, <2>6 DEF Requests, Environment
<1>4. \A p \in Orders : PaidFor(orders'[p])
  BY <1>3, SoundIsKept DEF Sound
<1>5. QED  BY <1>1, <1>4 DEF Sound

\* The transactions of the worker keep the invariant.
LEMMA WorkerIsSound ==
  ASSUME Sound, NEW o \in Orders, WorkerTransactions(o)
  PROVE  Sound'
<1>1. orders[o] \in OrderRow /\ PaidFor(orders[o])
  BY DEF Sound, BillingTypeOK
<1>2. CASE RetryActivation(o)
  <2>1. orders' = [orders EXCEPT ![o] = RetryActivationOf(orders[o])]
    BY <1>2 DEF RetryActivation
  <2>2. orders' \in [Orders -> OrderRow] /\ \A p \in Orders : PaidFor(orders'[p])
    BY <1>1, <2>1, RetryIsSound, SoundIsKept
  <2>3. QED  BY <1>2, <2>2 DEF RetryActivation, Sound, BillingTypeOK
<1>3. CASE ExpireLocalCheckout(o)
  <2>1. orders' = [orders EXCEPT ![o] = [orders[o] EXCEPT !.checkout = "expired"]]
    BY <1>3 DEF ExpireLocalCheckout
  <2>2. [orders[o] EXCEPT !.checkout = "expired"] \in OrderRow
        /\ PaidFor([orders[o] EXCEPT !.checkout = "expired"])
    BY <1>1, ColumnsAreTyped, ColumnsAreSound DEF CheckoutStates
  <2>3. orders' \in [Orders -> OrderRow] /\ \A p \in Orders : PaidFor(orders'[p])
    BY <2>1, <2>2, SoundIsKept
  <2>4. QED  BY <1>3, <2>3 DEF ExpireLocalCheckout, Sound, BillingTypeOK
<1>4. CASE ScheduleReconciliation(o)
  <2>1. commands' \in [Orders -> [CommandTypes -> Command]]
    BY <1>4, QueuedIsTyped DEF ScheduleReconciliation, Sound, BillingTypeOK
  <2>2. QED  BY <1>4, <2>1 DEF ScheduleReconciliation, Sound, BillingTypeOK
<1>5. QED  BY <1>2, <1>3, <1>4 DEF WorkerTransactions

\* The empty tables satisfy the invariant.
LEMMA InitIsSound == Init => Sound
<1> SUFFICES ASSUME Init PROVE Sound
  OBVIOUS
<1>1. NoOrder \in OrderRow /\ PaidFor(NoOrder)
  BY DEF NoOrder, OrderRow, PaidFor, CheckoutStates, ActivationStates
<1>2. NoCommand \in Command /\ NoEvent \in Event
  BY AttemptsAreCounted DEF NoCommand, NoEvent, Command, Event
<1>3. NoLink \in Link
  BY BillingAssumption DEF NoLink, Link, BillingAssumption
<1>4. QED  BY <1>1, <1>2, <1>3 DEF Init, Sound, BillingTypeOK

\* Every step keeps it.
LEMMA NextIsSound == Sound /\ [Next]_billingVars => Sound'
<1> SUFFICES ASSUME Sound, [Next]_billingVars PROVE Sound'
  OBVIOUS
<1>1. ASSUME NEW o \in Orders, Requests(o) \/ Environment(o) \/ WorkerTransactions(o)
      PROVE  Sound'
  BY <1>1, OutsideIsSound, WorkerIsSound
<1>2. ASSUME NEW e \in EventKeys, DeliverWebhook(e)
      PROVE  Sound'
  BY <1>2, DeliveryIsTyped DEF Sound, DeliverWebhook
<1>3. ASSUME NEW t \in Threads, ThreadStep(t) \/ ThreadDies(t)
      PROVE  Sound'
  <2>1. CASE Complete(t) \/ Fail(t) \/ ApplyEvent(t) \/ FailEvent(t)
    BY <2>1, ApplyingIsSound
  <2>2. CASE CallProvider(t) \/ (\E failure \in Failures : CallFails(t, failure))
             \/ CommitFails(t) \/ ThreadDies(t)
    <3>1. BillingTypeOK'
      BY <2>2, CallsAreTyped DEF Sound
    <3>2. UNCHANGED orders
      BY <2>2 DEF CallProvider, CallFails, CommitFails, ThreadDies
    <3>3. QED  BY <3>1, <3>2 DEF Sound
  <2>3. QED  BY <1>3, <2>1, <2>2 DEF ThreadStep
<1>4. CASE Claims
  <2>1. BillingTypeOK'
    BY <1>4, ClaimsAreTyped DEF Sound
  <2>2. UNCHANGED orders
    BY <1>4 DEF Claims, ClaimCommand, ClaimWebhook
  <2>3. QED  BY <2>1, <2>2 DEF Sound
<1>5. CASE UNCHANGED billingVars
  BY <1>5 DEF billingVars, Sound, BillingTypeOK
<1>6. QED  BY <1>1, <1>2, <1>3, <1>4, <1>5 DEF Next

\* Billing rows keep their types whatever threads, the provider and the
\* administrators do.
THEOREM BillingTypeCorrect == Spec => []BillingTypeOK
<1>1. Sound => BillingTypeOK
  BY DEF Sound
<1>2. QED  BY <1>1, InitIsSound, NextIsSound, PTL DEF Spec

\* An order shown as applied has its payment fact and its grant
\* (BillingActivationService commits the three together).
THEOREM ActivationIsPaid == Spec => []AppliedIsPaid
<1>1. Sound => AppliedIsPaid
  BY DEF Sound, AppliedIsPaid, PaidFor
<1>2. QED  BY <1>1, InitIsSound, NextIsSound, PTL DEF Spec

-----------------------------------------------------------------------------
(***************************************************************************)
(* Closed checkouts.                                                       *)
(***************************************************************************)

\* How the checkout state of an order changes in one step.
CheckoutStep(o) ==
  LET checkout == orders[o].checkout
      next == orders'[o].checkout
  IN \/ next = checkout
     \/ checkout = "absent" /\ next = "creating"
     \/ checkout \in {"creating", "open"} /\ next = "expired"
     \/ /\ checkout = "creating" /\ next = "create_failed"
        /\ commands'[o]["create_checkout"].status = "dead"
     \/ \E t \in Threads :
          /\ Complete(t) /\ OwnsClaim(t) /\ threads[t].order = o
          /\ next = CheckoutAfter(checkout, threads[t].type, threads[t].answer.status)

\* The other columns are set without it.
LEMMA CheckoutBeside ==
  ASSUME NEW ord \in OrderRow
  PROVE  /\ \A a : [ord EXCEPT !.activation = a].checkout = ord.checkout
         /\ [ord EXCEPT !.refund = TRUE].checkout = ord.checkout
         /\ [ord EXCEPT !.overdue = TRUE].checkout = ord.checkout
         /\ [ord EXCEPT !.eligible = ~@].checkout = ord.checkout
BY DEF OrderRow

\* The checkout state of other orders is left alone.
LEMMA CheckoutOfOthers ==
  ASSUME Sound, NEW o \in Orders, NEW p \in Orders, NEW ord \in OrderRow,
         orders' = [orders EXCEPT ![p] = ord], p # o \/ ord.checkout = orders[o].checkout
  PROVE  orders'[o].checkout = orders[o].checkout
BY DEF Sound, BillingTypeOK

\* Every step changes the checkout state of an order in one of these ways.
LEMMA CheckoutSteps ==
  ASSUME Sound, [Next]_billingVars, NEW o \in Orders
  PROVE  CheckoutStep(o)
<1>1. orders \in [Orders -> OrderRow] /\ commands \in [Orders -> [CommandTypes -> Command]]
  BY DEF Sound, BillingTypeOK
<1>2. ASSUME NEW p \in Orders, Requests(p) \/ Environment(p)
      PROVE  CheckoutStep(o)
  <2>1. CASE CreateCheckout(p)
    BY <1>1, <2>1 DEF CreateCheckout, CheckoutStep, OrderRow
  <2>2. CASE \/ RequestRefund(p) \/ AdminReview(p) \/ ChangeEligibility(p) \/ PassDeadline(p)
    <3>1. PICK ord \in OrderRow : /\ orders' = [orders EXCEPT ![p] = ord]
                                  /\ ord.checkout = orders[p].checkout
      <4>1. orders[p] \in OrderRow
        BY <1>1
      <4>2. CASE RequestRefund(p)
        BY <4>1, <4>2, ColumnsAreTyped, CheckoutBeside DEF RequestRefund
      <4>3. CASE AdminReview(p)
        BY <4>1, <4>3, ColumnsAreTyped, CheckoutBeside DEF AdminReview, ActivationStates
      <4>4. CASE ChangeEligibility(p)
        BY <4>1, <4>4, ColumnsAreTyped, CheckoutBeside DEF ChangeEligibility
      <4>5. CASE PassDeadline(p)
        BY <4>1, <4>5, ColumnsAreTyped, CheckoutBeside DEF PassDeadline
      <4>6. QED  BY <2>2, <4>2, <4>3, <4>4, <4>5
    <3>2. orders'[o].checkout = orders[o].checkout
      BY <3>1, CheckoutOfOthers
    <3>3. QED  BY <3>2 DEF CheckoutStep
  <2>3. CASE RequestCancel(p) \/ AdminQuery(p) \/ LinkExpires(p)
             \/ \E amount \in Amounts : Transfer(p, amount)
    BY <2>3 DEF RequestCancel, AdminQuery, LinkExpires, Transfer, CheckoutStep
  <2>4. QED  BY <1>2, <2>1, <2>2, <2>3 DEF Requests, Environment
<1>3. ASSUME NEW p \in Orders, WorkerTransactions(p)
      PROVE  CheckoutStep(o)
  <2>1. CASE RetryActivation(p)
    <3>1. RetryActivationOf(orders[p]) \in OrderRow
          /\ RetryActivationOf(orders[p]).checkout = orders[p].checkout
      BY <1>1, RetryIsSound, CheckoutIsKept DEF Sound
    <3>2. orders' = [orders EXCEPT ![p] = RetryActivationOf(orders[p])]
      BY <2>1 DEF RetryActivation
    <3>3. QED  BY <3>1, <3>2, CheckoutOfOthers DEF CheckoutStep
  <2>2. CASE ExpireLocalCheckout(p)
    BY <1>1, <2>2 DEF ExpireLocalCheckout, Expirable, CheckoutStep, OrderRow
  <2>3. CASE ScheduleReconciliation(p)
    BY <2>3 DEF ScheduleReconciliation, CheckoutStep
  <2>4. QED  BY <1>3, <2>1, <2>2, <2>3 DEF WorkerTransactions
<1>4. ASSUME NEW t \in Threads, Complete(t)
      PROVE  CheckoutStep(o)
  <2> DEFINE work == threads[t]
             p == work.order
  <2>1. work \in Work /\ p \in Orders
    BY <1>4, WorkIsTyped, BusyIsNotIdle DEF Complete, Sound, Work
  <2>2. CASE ~OwnsClaim(t)
    BY <1>4, <2>2 DEF Complete, CheckoutStep
  <2>3. CASE OwnsClaim(t)
    <3>1. orders' = [orders EXCEPT ![p] = OrderAfterAnswer(orders[p], work)]
      BY <1>4, <2>3 DEF Complete, OrderAfterAnswer
    <3>2. OrderAfterAnswer(orders[p], work) \in OrderRow
          /\ OrderAfterAnswer(orders[p], work).checkout
               = CheckoutAfter(orders[p].checkout, work.type, work.answer.status)
      BY <1>1, <2>1, AnswerIsSound DEF Sound
    <3>3. CASE p # o
      BY <2>1, <3>1, <3>2, <3>3, CheckoutOfOthers DEF CheckoutStep
    <3>4. CASE p = o
      <4>1. orders'[o].checkout
              = CheckoutAfter(orders[o].checkout, work.type, work.answer.status)
        BY <1>1, <3>1, <3>2, <3>4
      <4>2. QED  BY <1>4, <2>3, <3>4, <4>1 DEF CheckoutStep
    <3>5. QED  BY <3>3, <3>4
  <2>4. QED  BY <2>2, <2>3
<1>5. ASSUME NEW t \in Threads, Fail(t)
      PROVE  CheckoutStep(o)
  <2> DEFINE work == threads[t]
             p == work.order
  <2>1. work \in Work /\ p \in Orders
    BY <1>5, WorkIsTyped, BusyIsNotIdle DEF Fail, Sound, Work
  <2>2. CASE OwnsClaim(t) /\ work.type = "create_checkout" /\ ~MayRetry(work) /\ p = o
    <3>1. commands' = [commands EXCEPT ![o]["create_checkout"] = CommandAfterFailure(work)]
      BY <1>5, <2>2 DEF Fail
    <3>2. CommandAfterFailure(work).status = "dead"
      BY <2>2 DEF CommandAfterFailure, NoCommand
    <3>3. commands'[o]["create_checkout"].status = "dead"
      BY <1>1, <3>1, <3>2 DEF CommandTypes
    <3>4. orders' = [orders EXCEPT ![o].checkout = IF @ = "creating" THEN "create_failed" ELSE @]
      BY <1>5, <2>2 DEF Fail
    <3>5. QED  BY <1>1, <3>3, <3>4 DEF CheckoutStep, OrderRow
  <2>3. CASE ~OwnsClaim(t)
    BY <1>5, <2>3 DEF Fail, CheckoutStep
  <2>4. CASE OwnsClaim(t) /\ ~(work.type = "create_checkout" /\ ~MayRetry(work))
    <3>1. orders' = [orders EXCEPT ![p] = [orders[p] EXCEPT !.checkout = @]]
      BY <1>5, <2>4 DEF Fail
    <3>2. QED  BY <1>1, <2>1, <3>1 DEF CheckoutStep, OrderRow
  <2>5. CASE OwnsClaim(t) /\ p # o
    <3>1. PICK c : orders' = [orders EXCEPT ![p] = [orders[p] EXCEPT !.checkout = c]]
      BY <1>5, <2>5 DEF Fail
    <3>2. QED  BY <1>1, <2>1, <2>5, <3>1 DEF CheckoutStep
  <2>6. QED  BY <2>2, <2>3, <2>4, <2>5
<1>6. ASSUME NEW t \in Threads, ApplyEvent(t)
      PROVE  CheckoutStep(o)
  <2> DEFINE work == threads[t]
             p == work.order
             signed == links[p].transfers[work.transfer].amount
  <2>1. work \in Work /\ p \in Orders
    BY <1>6, WorkIsTyped, BusyIsNotIdle DEF ApplyEvent, Sound, Work
  <2>2. UNCHANGED orders
        \/ orders' = [orders EXCEPT ![p] = ApplyVerified(orders[p], work.answer, signed)]
    BY <1>6 DEF ApplyEvent
  <2>3. ApplyVerified(orders[p], work.answer, signed) \in OrderRow
        /\ ApplyVerified(orders[p], work.answer, signed).checkout = orders[p].checkout
    <3>1. orders[p] \in OrderRow /\ PaidFor(orders[p])
      BY <1>1, <2>1 DEF Sound
    <3> HIDE DEF work, p, signed
    <3>2. QED  BY <3>1, ResultIsSound, CheckoutIsKept
  <2>4. orders'[o].checkout = orders[o].checkout
    <3> HIDE DEF work, p, signed
    <3>1. CASE UNCHANGED orders
      BY <3>1
    <3>2. CASE orders' = [orders EXCEPT ![p] = ApplyVerified(orders[p], work.answer, signed)]
      BY <2>1, <2>3, <3>2, CheckoutOfOthers
    <3>3. QED  BY <2>2, <3>1, <3>2
  <2>5. QED  BY <2>4 DEF CheckoutStep
<1>7. CASE UNCHANGED orders
  BY <1>7 DEF CheckoutStep
<1>8. QED
  <2>1. ASSUME NEW t \in Threads, ThreadStep(t) \/ ThreadDies(t)
        PROVE  CheckoutStep(o)
    <3>1. UNCHANGED orders \/ Complete(t) \/ Fail(t) \/ ApplyEvent(t)
      BY <2>1 DEF ThreadStep, ThreadDies, CallProvider, CallFails, CommitFails, FailEvent
    <3>2. QED  BY <1>4, <1>5, <1>6, <1>7, <3>1
  <2>2. CASE Claims \/ (\E e \in EventKeys : DeliverWebhook(e)) \/ UNCHANGED billingVars
    <3>1. UNCHANGED orders
      BY <2>2 DEF Claims, ClaimCommand, ClaimWebhook, DeliverWebhook, billingVars
    <3>2. QED  BY <1>7, <3>1
  <2>3. QED  BY <1>2, <1>3, <2>1, <2>2 DEF Next

\* A checkout that could not be created has no creation left to complete.
CreationIsOver ==
  \A o \in Orders : orders[o].checkout = "create_failed" =>
    commands[o]["create_checkout"].status = "dead"

\* How the creation command of an order changes in one step.
CreationStep(o) ==
  \/ commands'[o]["create_checkout"] = commands[o]["create_checkout"]
  \/ CreateCheckout(o)
  \/ \E t \in Threads : ClaimCommand(t, o, "create_checkout")
  \/ \E t \in Threads :
       /\ Complete(t) \/ Fail(t)
       /\ OwnsClaim(t) /\ threads[t].order = o /\ threads[t].type = "create_checkout"
       /\ commands'[o]["create_checkout"].attempts = threads[t].attempt

\* Every step changes it in one of these ways.
LEMMA CreationSteps ==
  ASSUME Sound, [Next]_billingVars, NEW o \in Orders
  PROVE  CreationStep(o)
<1>1. commands \in [Orders -> [CommandTypes -> Command]]
      /\ "create_checkout" \in CommandTypes
  BY DEF Sound, BillingTypeOK, CommandTypes
<1>2. ASSUME NEW p \in Orders, Requests(p) \/ WorkerTransactions(p)
      PROVE  CreationStep(o)
  <2>1. \/ UNCHANGED commands
        \/ CreateCheckout(p)
        \/ \E type \in {"cancel_checkout", "query_order"} : \E cmd :
             commands' = [commands EXCEPT ![p][type] = cmd]
    BY <1>2 DEF Requests, WorkerTransactions, RequestCancel, RequestRefund, AdminReview,
         AdminQuery, ChangeEligibility, RetryActivation, ExpireLocalCheckout,
         ScheduleReconciliation
  <2>2. CASE CreateCheckout(p)
    <3>1. CASE p = o
      BY <2>2, <3>1 DEF CreationStep
    <3>2. CASE p # o
      BY <1>1, <2>2, <3>2 DEF CreateCheckout, CreationStep
    <3>3. QED  BY <3>1, <3>2
  <2>3. ASSUME NEW type \in {"cancel_checkout", "query_order"}, NEW cmd,
               commands' = [commands EXCEPT ![p][type] = cmd]
        PROVE  commands'[o]["create_checkout"] = commands[o]["create_checkout"]
    BY <1>1, <2>3 DEF CommandTypes
  <2>4. QED  BY <2>1, <2>2, <2>3 DEF CreationStep
<1>3. ASSUME NEW t \in Threads, Complete(t) \/ Fail(t)
      PROVE  CreationStep(o)
  <2> DEFINE work == threads[t]
  <2>1. work \in Work
    BY <1>3, WorkIsTyped, BusyIsNotIdle DEF Complete, Fail, Sound
  <2>2. CASE ~OwnsClaim(t)
    BY <1>3, <2>2 DEF Complete, Fail, CreationStep
  <2>3. CASE OwnsClaim(t) /\ ~(work.order = o /\ work.type = "create_checkout")
    <3>1. PICK cmd : commands' = [commands EXCEPT ![work.order][work.type] = cmd]
      BY <1>3, <2>3 DEF Complete, Fail
    <3>2. commands'[o]["create_checkout"] = commands[o]["create_checkout"]
      <4> HIDE DEF work
      <4>1. QED  BY <1>1, <2>3, <3>1
    <3>3. QED  BY <3>2 DEF CreationStep
  <2>4. CASE OwnsClaim(t) /\ work.order = o /\ work.type = "create_checkout"
    <3>1. PICK cmd : /\ commands' = [commands EXCEPT ![o]["create_checkout"] = cmd]
                     /\ cmd.attempts = work.attempt
      <4>1. /\ CommandAfterFailure(work).attempts = work.attempt
            /\ [NoCommand EXCEPT !.status = "completed", !.attempts = work.attempt].attempts
                 = work.attempt
        BY <2>4 DEF CommandAfterFailure, NoCommand
      <4>2. CASE Complete(t)
        BY <2>4, <4>1, <4>2 DEF Complete, KeepReconciling
      <4>3. CASE Fail(t)
        BY <2>4, <4>1, <4>3 DEF Fail
      <4>4. QED  BY <1>3, <4>2, <4>3
    <3>2. commands'[o]["create_checkout"].attempts = work.attempt
      BY <1>1, <3>1
    <3>3. QED  BY <1>3, <2>4, <3>2 DEF CreationStep
  <2>5. QED  BY <2>2, <2>3, <2>4
<1>4. ASSUME NEW t \in Threads, NEW p \in Orders, NEW type \in CommandTypes,
             ClaimCommand(t, p, type)
      PROVE  CreationStep(o)
  <2>1. CASE p = o /\ type = "create_checkout"
    BY <1>4, <2>1 DEF CreationStep
  <2>2. CASE p # o \/ type # "create_checkout"
    <3>1. PICK cmd : commands' = [commands EXCEPT ![p][type] = cmd]
      BY <1>4 DEF ClaimCommand
    <3>2. QED  BY <1>1, <2>2, <3>1 DEF CreationStep
  <2>3. QED  BY <2>1, <2>2
<1>5. CASE UNCHANGED commands
  BY <1>5 DEF CreationStep
<1>6. QED
  <2>1. ASSUME NEW t \in Threads, ThreadStep(t) \/ ThreadDies(t)
        PROVE  CreationStep(o)
    <3>1. UNCHANGED commands \/ Complete(t) \/ Fail(t)
      BY <2>1 DEF ThreadStep, ThreadDies, CallProvider, CallFails, CommitFails,
           ApplyEvent, FailEvent
    <3>2. QED  BY <1>3, <1>5, <3>1
  <2>2. CASE Claims
    BY <1>4, <1>5, <2>2 DEF Claims, ClaimWebhook
  <2>3. ASSUME NEW p \in Orders, Environment(p)
        PROVE  UNCHANGED commands
    BY <2>3 DEF Environment, Transfer, LinkExpires, PassDeadline
  <2>4. CASE (\E e \in EventKeys : DeliverWebhook(e)) \/ UNCHANGED billingVars
    BY <1>5, <2>4 DEF DeliverWebhook, billingVars
  <2>5. QED  BY <1>2, <1>5, <2>1, <2>2, <2>3, <2>4 DEF Next

\* A creation that was given up stays so, unless its order is created anew.
LEMMA DeadCreationStaysDead ==
  ASSUME Sound, [Next]_billingVars, NEW o \in Orders, orders[o].checkout # "absent",
         commands[o]["create_checkout"].status = "dead"
  PROVE  commands'[o]["create_checkout"].status = "dead"
<1>1. ~CreateCheckout(o)
  BY DEF CreateCheckout
<1>2. \A t \in Threads : ~ClaimCommand(t, o, "create_checkout")
  BY DEF ClaimCommand, Claimable, ActiveStates
<1>3. \A t \in Threads : ~(OwnsClaim(t) /\ threads[t].order = o
                           /\ threads[t].type = "create_checkout")
  BY DEF OwnsClaim
<1>4. QED  BY <1>1, <1>2, <1>3, CreationSteps DEF CreationStep

\* A completed command never takes a checkout to create_failed.
LEMMA CreationStaysOver ==
  ASSUME Sound, CreationIsOver, [Next]_billingVars
  PROVE  CreationIsOver'
<1> SUFFICES ASSUME NEW o \in Orders, orders'[o].checkout = "create_failed"
             PROVE  commands'[o]["create_checkout"].status = "dead"
  BY DEF CreationIsOver
<1>1. \/ orders[o].checkout = "create_failed"
      \/ commands'[o]["create_checkout"].status = "dead"
  BY CheckoutSteps DEF CheckoutStep, CheckoutAfter
<1>2. QED  BY <1>1, DeadCreationStaysDead DEF CreationIsOver

\* One step never offers a closed checkout again.
LEMMA ClosedStep ==
  ASSUME Sound, CreationIsOver, [Next]_billingVars, NEW o \in Orders,
         orders[o].checkout \in {"create_failed", "cancelled", "expired"}
  PROVE  orders'[o].checkout \notin {"creating", "open"}
<1>1. CASE orders[o].checkout \in {"cancelled", "expired"}
  BY <1>1, CheckoutSteps DEF CheckoutStep, CheckoutAfter
<1>2. CASE orders[o].checkout = "create_failed"
  <2>1. ASSUME NEW t \in Threads, OwnsClaim(t), threads[t].order = o
        PROVE  threads[t].type # "create_checkout"
    BY <1>2, <2>1 DEF CreationIsOver, OwnsClaim
  <2>2. QED  BY <1>2, <2>1, CheckoutSteps DEF CheckoutStep, CheckoutAfter
<1>3. QED  BY <1>1, <1>2

\* A checkout that was cancelled, has expired or could not be created is never
\* offered for payment again, for any number of threads and stale answers.
THEOREM CheckoutsStayClosed == Spec => ClosedStaysClosed
<1> DEFINE Inv == Sound /\ CreationIsOver
           Closed == \A o \in Orders :
             orders[o].checkout \in {"create_failed", "cancelled", "expired"} =>
               orders'[o].checkout \notin {"creating", "open"}
<1>1. Init => Inv
  BY InitIsSound DEF Init, NoOrder, CreationIsOver
<1>2. Inv /\ [Next]_billingVars => Inv' /\ Closed
  BY NextIsSound, CreationStaysOver, ClosedStep
<1>3. Spec => [][Closed]_billingVars
  <2> HIDE DEF Inv, Closed
  <2>1. QED  BY <1>1, <1>2, PTL DEF Spec
<1>4. QED  BY <1>3 DEF ClosedStaysClosed

\* What was decided about a webhook event is final, although the transaction
\* that decides is not fenced by the claim.
THEOREM EventsAreDecidedOnce == Spec => SettledEventIsFinal
<1> DEFINE Final == \A e \in EventKeys :
             events[e].status \in {"processed", "dead"} => events'[e] = events[e]
<1>1. Sound /\ [Next]_billingVars => Final
  <2> SUFFICES ASSUME Sound, [Next]_billingVars, NEW e \in EventKeys,
                      events[e].status \in {"processed", "dead"}
               PROVE  events'[e] = events[e]
    OBVIOUS
  <2>1. events \in [EventKeys -> Event]
    BY DEF Sound, BillingTypeOK
  <2>2. ASSUME NEW d \in EventKeys, DeliverWebhook(d)
        PROVE  events'[e] = events[e]
    BY <2>1, <2>2 DEF DeliverWebhook
  <2>3. ASSUME NEW t \in Threads, NEW d \in EventKeys, ClaimWebhook(t, d)
        PROVE  events'[e] = events[e]
    BY <2>1, <2>3 DEF ClaimWebhook, ActiveStates
  <2>4. ASSUME NEW t \in Threads, ApplyEvent(t)
        PROVE  events'[e] = events[e]
    <3> DEFINE d == <<threads[t].order, threads[t].transfer>>
    <3>1. CASE EventIsSettled(d)
      BY <2>4, <3>1 DEF ApplyEvent
    <3>2. CASE ~EventIsSettled(d)
      <4>1. d # e
        BY <3>2 DEF EventIsSettled
      <4>2. PICK status : events' = [events EXCEPT ![d].status = status]
        BY <2>4, <3>2 DEF ApplyEvent
      <4>3. QED  BY <2>1, <4>1, <4>2
    <3>3. QED  BY <3>1, <3>2
  <2>5. ASSUME NEW t \in Threads, FailEvent(t)
        PROVE  events'[e] = events[e]
    <3>1. PICK d, status : events' = [events EXCEPT ![d].status =
                                        IF @ = "processing" THEN status ELSE @]
      BY <2>5 DEF FailEvent
    <3>2. CASE d = e
      BY <2>1, <3>1, <3>2 DEF Event
    <3>3. CASE d # e
      BY <2>1, <3>1, <3>3
    <3>4. QED  BY <3>2, <3>3
  <2>6. CASE UNCHANGED events
    BY <2>6
  <2>7. QED
    <3>1. \/ UNCHANGED events
          \/ \E d \in EventKeys : DeliverWebhook(d)
          \/ \E t \in Threads : \/ ApplyEvent(t) \/ FailEvent(t)
                                \/ \E d \in EventKeys : ClaimWebhook(t, d)
      BY DEF Next, Requests, Environment, WorkerTransactions, ThreadStep, ThreadDies, Claims,
           CreateCheckout, RequestCancel, RequestRefund, AdminReview, AdminQuery,
           ChangeEligibility, Transfer, LinkExpires, PassDeadline, RetryActivation,
           ExpireLocalCheckout, ScheduleReconciliation, CallProvider, CallFails, Complete,
           Fail, CommitFails, ClaimCommand, billingVars
    <3>2. QED  BY <2>2, <2>3, <2>4, <2>5, <2>6, <3>1
<1>2. Spec => [][Final]_billingVars
  <2> HIDE DEF Final
  <2>1. QED  BY <1>1, InitIsSound, NextIsSound, PTL DEF Spec
<1>3. QED  BY <1>2 DEF SettledEventIsFinal

=============================================================================
