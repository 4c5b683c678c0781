------------------------ MODULE BillingPaymentProofs ------------------------
(***************************************************************************)
(* Proofs that an answer of the provider, however old, still tells the     *)
(* truth that matters when it is applied: cancelled checkouts are          *)
(* cancelled at the provider, grants rest on an exact on-time payment, one *)
(* transfer is granted once, and an order that may have money at the       *)
(* provider keeps somebody who asks for it.  The loop of the worker does   *)
(* nothing else to the rows, so all of this holds of it.                   *)
(***************************************************************************)
EXTENDS BillingProofs, BillingWorker

-----------------------------------------------------------------------------
(***************************************************************************)
(* The invariant.                                                          *)
(***************************************************************************)

\* A thread about to create the link of an order for the first time.
FirstCreation(t, o) ==
  /\ threads[t].job = "claimed" /\ threads[t].order = o
  /\ threads[t].type = "create_checkout" /\ threads[t].attempt = 1

\* Only the first attempt of a creation creates, so at most one thread ever
\* does, and none once the link is there.
CreatedOnce ==
  \A o \in Orders :
    LET creation == commands[o]["create_checkout"] IN
    /\ orders[o].checkout = "absent" => creation = NoCommand
    /\ links[o].state # "none" => creation.attempts >= 1
    /\ \A t \in Threads : FirstCreation(t, o) => links[o].state = "none" /\ creation.attempts >= 1
    /\ \A t, u \in Threads : FirstCreation(t, o) /\ FirstCreation(u, o) => t = u

\* What a link has received.
AddsUp(link) ==
  /\ link.count = 0 => link.received = 0
  /\ link.count = 1 => link.received = link.transfers[1].amount

\* The first transfer is the whole price and in time; an answer that says so.
PaidInTime(link) ==
  link.count >= 1 /\ link.transfers[1] = [amount |-> Price, late |-> FALSE]
SaysPaidInTime(answer) ==
  answer.status = "PAID" /\ answer.single /\ answer.amount = Price /\ ~answer.late

\* What a thread has heard is still so.
AnswersHold ==
  \A t \in Threads : threads[t].job = "answered" =>
    LET answer == threads[t].answer
        link == links[threads[t].order]
    IN /\ answer.status = "CANCELLED" => link.state = "CANCELLED"
       /\ SaysPaidInTime(answer) => PaidInTime(link)

\* An order that awaits its activation was paid in time.
PendingIsPaid ==
  \A o \in Orders : orders[o].activation = "pending" => PaidInTime(links[o])

Remembered ==
  /\ Sound /\ CreatedOnce /\ AnswersHold /\ PendingIsPaid /\ CancelledAtProvider
  /\ \A o \in Orders : AddsUp(links[o])

-----------------------------------------------------------------------------
(***************************************************************************)
(* Links.                                                                  *)
(***************************************************************************)

\* How the link of an order changes in one step.
LinkStep(o) ==
  \/ links'[o] = links[o]
  \/ \E amount \in Amounts : Transfer(o, amount)
  \/ LinkExpires(o)
  \/ \E t \in Threads : /\ CallProvider(t) /\ threads[t].order = o
                        /\ links'[o] = LinkAfter(threads[t])

\* Every step changes a link in one of these ways.
LEMMA LinkSteps ==
  ASSUME Sound, [Next]_billingVars, NEW o \in Orders
  PROVE  LinkStep(o)
<1>1. links \in [Orders -> Link]
  BY DEF Sound, BillingTypeOK
<1>2. ASSUME NEW p \in Orders, Environment(p)
      PROVE  LinkStep(o)
  <2>1. CASE p = o
    BY <1>2, <2>1 DEF Environment, PassDeadline, LinkStep
  <2>2. CASE p # o
    BY <1>1, <1>2, <2>2 DEF Environment, PassDeadline, LinkStep, Transfer, LinkExpires
  <2>3. QED  BY <2>1, <2>2
<1>3. ASSUME NEW t \in Threads, CallProvider(t)
      PROVE  LinkStep(o)
  <2>1. links' = [links EXCEPT ![threads[t].order] = LinkAfter(threads[t])]
    BY <1>3 DEF CallProvider
  <2>2. QED  BY <1>1, <1>3, <2>1 DEF LinkStep
<1>4. \/ UNCHANGED links
      \/ \E p \in Orders : Environment(p)
      \/ \E t \in Threads : CallProvider(t)
  BY DEF Next, Requests, WorkerTransactions, ThreadStep, ThreadDies, Claims,
     CreateCheckout, RequestCancel, RequestRefund, AdminReview, AdminQuery,
     ChangeEligibility, DeliverWebhook, RetryActivation, ExpireLocalCheckout,
     ScheduleReconciliation, CallFails, Complete, Fail, CommitFails, ApplyEvent, FailEvent,
     ClaimCommand, ClaimWebhook, billingVars
<1>5. QED  BY <1>2, <1>3, <1>4 DEF LinkStep

\* What a transfer makes of a link.
LEMMA ReceiptAddsUp ==
  ASSUME NEW link \in Link, link.count < MaxTransfers, AddsUp(link),
         NEW paid \in [amount: {0} \cup Amounts, late: BOOLEAN], paid.amount \in Nat \ {0}
  PROVE  /\ AddsUp(Receive(link, paid))
         /\ PaidInTime(link) => PaidInTime(Receive(link, paid))
         /\ Receive(link, paid).state = link.state
<1>1. /\ link.count \in Nat /\ link.received \in Nat /\ MaxTransfers \in Nat
      /\ link.count + 1 \in 1..MaxTransfers
      /\ link.transfers \in [1..MaxTransfers -> [amount: {0} \cup Amounts, late: BOOLEAN]]
  BY BillingAssumption DEF Link, BillingAssumption
<1>2. /\ Receive(link, paid).count = link.count + 1
      /\ Receive(link, paid).received = link.received + paid.amount
      /\ Receive(link, paid).transfers = [link.transfers EXCEPT ![link.count + 1] = paid]
      /\ Receive(link, paid).state = link.state
  BY DEF Receive, Link
<1>3. AddsUp(Receive(link, paid))
  BY <1>1, <1>2 DEF AddsUp
<1>4. ASSUME PaidInTime(link)  PROVE PaidInTime(Receive(link, paid))
  <2>1. link.count + 1 # 1 /\ 1 \in 1..MaxTransfers
    BY <1>1, <1>4 DEF PaidInTime
  <2>2. Receive(link, paid).transfers[1] = link.transfers[1]
    BY <1>1, <1>2, <2>1
  <2>3. QED  BY <1>1, <1>2, <1>4, <2>2 DEF PaidInTime
<1>5. QED  BY <1>2, <1>3, <1>4

\* A call changes only the state of a link; it reopens none that is cancelled.
LEMMA CallKeepsMoney ==
  ASSUME Sound, NEW t \in Threads, threads[t] \in Work, NEW o \in Orders, threads[t].order = o
  PROVE  /\ AddsUp(links[o]) => AddsUp(LinkAfter(threads[t]))
         /\ PaidInTime(links[o]) => PaidInTime(LinkAfter(threads[t]))
         /\ \/ LinkAfter(threads[t]) = links[o]
            \/ LinkAfter(threads[t]).state = "CANCELLED" /\ links[o].state = "active"
            \/ threads[t].type = "create_checkout" /\ threads[t].attempt = 1
BY DEF LinkAfter, AddsUp, PaidInTime, Sound, BillingTypeOK, Link

\* Money stays on record, cancelled links stay cancelled.
LEMMA LinksKeep ==
  ASSUME Remembered, [Next]_billingVars, NEW o \in Orders
  PROVE  /\ AddsUp(links'[o])
         /\ PaidInTime(links[o]) => PaidInTime(links'[o])
         /\ links[o].state = "CANCELLED" => links'[o].state = "CANCELLED"
<1>1. Sound /\ AddsUp(links[o]) /\ links \in [Orders -> Link]
  BY DEF Remembered, Sound, BillingTypeOK
<1>2. ASSUME NEW amount \in Amounts, Transfer(o, amount)
      PROVE  /\ AddsUp(links'[o])
             /\ PaidInTime(links[o]) => PaidInTime(links'[o])
             /\ links[o].state = "CANCELLED" => links'[o].state = "CANCELLED"
  <2> DEFINE paid == [amount |-> amount, late |-> orders[o].overdue]
  <2>1. paid \in [amount: {0} \cup Amounts, late: BOOLEAN] /\ paid.amount \in Nat \ {0}
    BY <1>1, BillingAssumption DEF Sound, BillingTypeOK, OrderRow, BillingAssumption
  <2>2. links'[o] = Receive(links[o], paid) /\ links[o].count < MaxTransfers
    BY <1>1, <1>2 DEF Transfer
  <2>3. QED  BY <1>1, <2>1, <2>2, ReceiptAddsUp
<1>3. CASE LinkExpires(o)
  <2>1. links'[o] = [links[o] EXCEPT !.state = "EXPIRED"] /\ links[o].state = "active"
    BY <1>1, <1>3 DEF LinkExpires
  <2>2. links[o] \in Link
    BY <1>1
  <2>3. QED  BY <1>1, <2>1, <2>2 DEF AddsUp, PaidInTime, Link
<1>4. ASSUME NEW t \in Threads, CallProvider(t), threads[t].order = o,
             links'[o] = LinkAfter(threads[t])
      PROVE  /\ AddsUp(links'[o])
             /\ PaidInTime(links[o]) => PaidInTime(links'[o])
             /\ links[o].state = "CANCELLED" => links'[o].state = "CANCELLED"
  <2>1. threads[t] \in Work
    BY <1>1, <1>4, WorkIsTyped, BusyIsNotIdle DEF CallProvider, Sound
  <2>2. threads[t].type = "create_checkout" /\ threads[t].attempt = 1 => links[o].state = "none"
    BY <1>4 DEF CallProvider, Remembered, CreatedOnce, FirstCreation
  <2>3. QED  BY <1>1, <1>4, <2>1, <2>2, CallKeepsMoney
<1>5. QED  BY <1>1, <1>2, <1>3, <1>4, LinkSteps DEF LinkStep

-----------------------------------------------------------------------------
(***************************************************************************)
(* Threads.                                                                *)
(***************************************************************************)

\* How a thread changes in one step.
ThreadMoves(t) ==
  \/ threads'[t] = threads[t]
  \/ threads'[t] = Idle
  \/ \E o \in Orders, type \in CommandTypes : ClaimCommand(t, o, type)
  \/ threads'[t].job = "claimed" /\ threads'[t].type = "webhook"
  \/ CallProvider(t)
  \/ /\ threads'[t].job = "answered" /\ threads'[t].order = threads[t].order
     /\ threads'[t].answer \in {Said(failure) : failure \in Failures}

\* Every step changes a thread in one of these ways.
LEMMA ThreadSteps ==
  ASSUME Sound, [Next]_billingVars, NEW t \in Threads
  PROVE  ThreadMoves(t)
<1>1. threads \in [Threads -> {Idle} \cup Work]
  BY DEF Sound, BillingTypeOK
<1>2. ASSUME NEW u \in Threads, ThreadStep(u) \/ ThreadDies(u)
      PROVE  ThreadMoves(t)
  <2>1. CASE u # t
    <3>1. PICK work : threads' = [threads EXCEPT ![u] = work]
      <4>1. CASE CallProvider(u)
        BY <4>1 DEF CallProvider
      <4>2. CASE ~CallProvider(u)
        BY <1>2, <4>2 DEF ThreadStep, ThreadDies, CallFails, Complete, Fail, CommitFails,
             ApplyEvent, FailEvent
      <4>3. QED  BY <4>1, <4>2
    <3>2. QED  BY <1>1, <2>1, <3>1 DEF ThreadMoves
  <2>2. CASE u = t
    <3>1. CASE \/ Complete(t) \/ Fail(t) \/ ApplyEvent(t) \/ FailEvent(t) \/ ThreadDies(t)
      <4>1. threads' = [threads EXCEPT ![t] = Idle]
        BY <3>1 DEF Complete, Fail, ApplyEvent, FailEvent, ThreadDies
      <4>2. QED  BY <1>1, <4>1 DEF ThreadMoves
    <3>2. ASSUME NEW failure \in Failures, CallFails(t, failure)
          PROVE  ThreadMoves(t)
      <4>1. threads[t] \in Work
        BY <1>1, <3>2, BusyIsNotIdle DEF CallFails
      <4>2. threads'[t] = [threads[t] EXCEPT !.job = "answered", !.answer = Said(failure)]
        BY <1>1, <3>2 DEF CallFails
      <4>3. QED  BY <4>1, <4>2 DEF ThreadMoves, Work
    <3>3. CASE CommitFails(t)
      <4>1. threads[t] \in Work /\ threads[t].job = "answered"
        BY <1>1, <3>3, BusyIsNotIdle DEF CommitFails
      <4>2. threads'[t] = [threads[t] EXCEPT !.answer = Said("retryable")]
        BY <1>1, <3>3 DEF CommitFails
      <4>3. QED  BY <4>1, <4>2 DEF ThreadMoves, Work, Failures
    <3>4. CASE CallProvider(t)
      BY <3>4 DEF ThreadMoves
    <3>5. QED  BY <1>2, <2>2, <3>1, <3>2, <3>3, <3>4 DEF ThreadStep
  <2>3. QED  BY <2>1, <2>2
<1>3. CASE Claims
  <2>1. ASSUME NEW u \in Threads, NEW o \in Orders, NEW type \in CommandTypes,
               ClaimCommand(u, o, type)
        PROVE  ThreadMoves(t)
    <3>1. CASE u = t
      BY <2>1, <3>1 DEF ThreadMoves
    <3>2. CASE u # t
      BY <1>1, <2>1, <3>2 DEF ClaimCommand, ThreadMoves
    <3>3. QED  BY <3>1, <3>2
  <2>2. ASSUME NEW u \in Threads, NEW e \in EventKeys, ClaimWebhook(u, e)
        PROVE  ThreadMoves(t)
    BY <1>1, <2>2 DEF ClaimWebhook, ThreadMoves
  <2>3. QED  BY <1>3, <2>1, <2>2 DEF Claims
<1>4. CASE UNCHANGED threads
  BY <1>4 DEF ThreadMoves
<1>5. QED
  <2>1. ASSUME NEW o \in Orders, Requests(o) \/ Environment(o) \/ WorkerTransactions(o)
        PROVE  UNCHANGED threads
    BY <2>1 DEF Requests, Environment, WorkerTransactions,
         CreateCheckout, RequestCancel, RequestRefund, AdminReview, AdminQuery,
         ChangeEligibility, Transfer, LinkExpires, PassDeadline, RetryActivation,
         ExpireLocalCheckout, ScheduleReconciliation
  <2>2. QED  BY <1>2, <1>3, <1>4, <2>1 DEF Next, DeliverWebhook, billingVars

\* A thread at its first creation has just claimed it or was there before.
LEMMA FirstCreations ==
  ASSUME Sound, [Next]_billingVars, NEW o \in Orders, NEW t \in Threads, FirstCreation(t, o)'
  PROVE  \/ FirstCreation(t, o) /\ ~CallProvider(t)
         \/ /\ ClaimCommand(t, o, "create_checkout")
            /\ commands[o]["create_checkout"].attempts = 0
<1>1. threads \in [Threads -> {Idle} \cup Work]
      /\ commands \in [Orders -> [CommandTypes -> Command]]
  BY DEF Sound, BillingTypeOK
<1>2. CASE CallProvider(t)
  <2>1. threads[t] \in Work
    BY <1>1, <1>2, BusyIsNotIdle DEF CallProvider
  <2>2. PICK answer : threads' = [threads EXCEPT ![t].job = "answered", ![t].answer = answer]
    BY <1>2 DEF CallProvider
  <2>3. threads'[t].job = "answered"
    BY <1>1, <2>1, <2>2 DEF Work
  <2>4. QED  BY <2>3 DEF FirstCreation
<1>3. ASSUME NEW p \in Orders, NEW type \in CommandTypes, ClaimCommand(t, p, type)
      PROVE  /\ ClaimCommand(t, o, "create_checkout")
             /\ commands[o]["create_checkout"].attempts = 0
  <2> DEFINE attempt == NextAttempt(commands[p][type].attempts)
  <2>1. threads'[t] = [job |-> "claimed", type |-> type, order |-> p, transfer |-> 0,
                       attempt |-> attempt, answer |-> Said("nothing")]
    BY <1>1, <1>3 DEF ClaimCommand
  <2>2. p = o /\ type = "create_checkout" /\ attempt = 1
    BY <2>1 DEF FirstCreation
  <2>3. commands[p][type].attempts \in 0..AttemptCap
    BY <1>1 DEF Command
  <2>4. commands[p][type].attempts = 0
    BY <2>2, <2>3, AttemptsAreCounted DEF NextAttempt
  <2>5. QED  BY <1>3, <2>2, <2>4
<1>4. CASE threads'[t] = threads[t] /\ ~CallProvider(t)
  BY <1>4 DEF FirstCreation
<1>5. QED  BY <1>2, <1>3, <1>4, ThreadSteps DEF ThreadMoves, FirstCreation, Idle

\* One order's part of CreatedOnce, step by step.
LEMMA AbsentStaysUncreated ==
  ASSUME Remembered, [Next]_billingVars, NEW o \in Orders, orders'[o].checkout = "absent"
  PROVE  commands'[o]["create_checkout"] = NoCommand
<1>1. Sound /\ orders \in [Orders -> OrderRow]
  BY DEF Remembered, Sound, BillingTypeOK
<1>2. orders[o].checkout = "absent"
  BY <1>1, CheckoutSteps DEF CheckoutStep, CheckoutAfter
<1>3. commands[o]["create_checkout"] = NoCommand
  BY <1>2 DEF Remembered, CreatedOnce
<1>4. ~CreateCheckout(o)
  BY <1>1 DEF CreateCheckout, OrderRow
<1>5. \A t \in Threads : ~ClaimCommand(t, o, "create_checkout")
  BY <1>3 DEF ClaimCommand, Claimable, ActiveStates, NoCommand
<1>6. \A t \in Threads : ~(OwnsClaim(t) /\ threads[t].order = o
                           /\ threads[t].type = "create_checkout")
  BY <1>3 DEF OwnsClaim, NoCommand
<1>7. QED  BY <1>1, <1>3, <1>4, <1>5, <1>6, CreationSteps DEF CreationStep

\* A creation that was attempted once is never at its first attempt again.
LEMMA AttemptsStayCounted ==
  ASSUME Remembered, [Next]_billingVars, NEW o \in Orders, ~CreateCheckout(o),
         \/ commands[o]["create_checkout"].attempts >= 1
         \/ \E t \in Threads : ClaimCommand(t, o, "create_checkout")
  PROVE  commands'[o]["create_checkout"].attempts >= 1
<1>1. Sound /\ commands \in [Orders -> [CommandTypes -> Command]]
      /\ threads \in [Threads -> {Idle} \cup Work] /\ "create_checkout" \in CommandTypes
  BY DEF Remembered, Sound, BillingTypeOK, CommandTypes
<1>2. ASSUME NEW t \in Threads, ClaimCommand(t, o, "create_checkout")
      PROVE  commands'[o]["create_checkout"].attempts >= 1
  <2> DEFINE attempt == NextAttempt(commands[o]["create_checkout"].attempts)
  <2>1. attempt \in 1..AttemptCap
    BY <1>1, AttemptsAreCounted DEF Command
  <2>2. commands'[o]["create_checkout"].attempts = attempt
    BY <1>1, <1>2 DEF ClaimCommand
  <2>3. QED  BY <2>1, <2>2, AttemptsAreCounted
<1>3. ASSUME NEW t \in Threads, Complete(t) \/ Fail(t),
             commands'[o]["create_checkout"].attempts = threads[t].attempt
      PROVE  commands'[o]["create_checkout"].attempts >= 1
  <2>1. threads[t] \in Work
    BY <1>1, <1>3, BusyIsNotIdle DEF Complete, Fail
  <2>2. QED  BY <1>3, <2>1, AttemptsAreCounted DEF Work
<1>4. QED  BY <1>1, <1>2, <1>3, CreationSteps DEF CreationStep

\* A link that is not there yet appears only by a first creation.
LEMMA LinkAppears ==
  ASSUME Remembered, [Next]_billingVars, NEW o \in Orders,
         links[o].state = "none", links'[o].state # "none"
  PROVE  \E t \in Threads : CallProvider(t) /\ FirstCreation(t, o)
<1>1. Sound /\ links \in [Orders -> Link]
  BY DEF Remembered, Sound, BillingTypeOK
<1>2. ~LinkExpires(o) /\ \A amount \in Amounts : ~Transfer(o, amount)
  BY DEF LinkExpires, Transfer
<1>3. PICK t \in Threads : CallProvider(t) /\ threads[t].order = o
                           /\ links'[o] = LinkAfter(threads[t])
  BY <1>1, <1>2, LinkSteps DEF LinkStep
<1>4. threads[t].type = "create_checkout" /\ threads[t].attempt = 1
  BY <1>3 DEF LinkAfter
<1>5. QED  BY <1>3, <1>4 DEF CallProvider, FirstCreation

\* No link and no first creation before the order is there.
LEMMA NothingBeforeCheckout ==
  ASSUME Remembered, NEW o \in Orders, CreateCheckout(o)
  PROVE  /\ links[o].state = "none" /\ UNCHANGED <<links, threads>>
         /\ \A t \in Threads : ~FirstCreation(t, o)
<1>1. commands[o]["create_checkout"] = NoCommand
  BY DEF Remembered, CreatedOnce, CreateCheckout
<1>2. ~(commands[o]["create_checkout"].attempts >= 1)
  BY <1>1 DEF NoCommand
<1>3. QED  BY <1>2 DEF Remembered, CreatedOnce, CreateCheckout

\* Every step keeps it that only the first attempt creates, once.
LEMMA CreatedOnceIsKept ==
  ASSUME Remembered, [Next]_billingVars
  PROVE  CreatedOnce'
<1> SUFFICES ASSUME NEW o \in Orders
    PROVE  LET creation == commands'[o]["create_checkout"] IN
           /\ orders'[o].checkout = "absent" => creation = NoCommand
           /\ links'[o].state # "none" => creation.attempts >= 1
           /\ \A t \in Threads : FirstCreation(t, o)'
                => links'[o].state = "none" /\ creation.attempts >= 1
           /\ \A t, u \in Threads : FirstCreation(t, o)' /\ FirstCreation(u, o)' => t = u
  BY DEF CreatedOnce
<1> DEFINE attempts == commands[o]["create_checkout"].attempts
<1>1. Sound /\ threads \in [Threads -> {Idle} \cup Work]
      /\ commands \in [Orders -> [CommandTypes -> Command]]
  BY DEF Remembered, Sound, BillingTypeOK
<1>2. /\ links[o].state # "none" => attempts >= 1
      /\ \A t \in Threads : FirstCreation(t, o) => links[o].state = "none" /\ attempts >= 1
      /\ \A t, u \in Threads : FirstCreation(t, o) /\ FirstCreation(u, o) => t = u
  BY DEF Remembered, CreatedOnce
<1>3. orders'[o].checkout = "absent" => commands'[o]["create_checkout"] = NoCommand
  BY AbsentStaysUncreated
<1>4. CASE CreateCheckout(o)
  BY <1>3, <1>4, NothingBeforeCheckout DEF FirstCreation
<1>5. CASE ~CreateCheckout(o)
  <2>1. links'[o].state # "none" => commands'[o]["create_checkout"].attempts >= 1
    BY <1>2, <1>5, LinkAppears, AttemptsStayCounted
  <2>2. ASSUME NEW t \in Threads, FirstCreation(t, o)'
        PROVE  links'[o].state = "none" /\ commands'[o]["create_checkout"].attempts >= 1
    <3>1. CASE FirstCreation(t, o) /\ ~CallProvider(t)
      <4>1. links[o].state = "none" /\ attempts >= 1
        BY <1>2, <3>1
      <4>2. links'[o].state = "none"
        BY <1>2, <3>1, <4>1, LinkAppears
      <4>3. QED  BY <1>5, <4>1, <4>2, AttemptsStayCounted
    <3>2. CASE ClaimCommand(t, o, "create_checkout") /\ attempts = 0
      <4>1. links[o].state = "none"
        BY <1>2, <3>2
      <4>2. links' = links
        BY <3>2 DEF ClaimCommand
      <4>3. QED  BY <1>5, <3>2, <4>1, <4>2, AttemptsStayCounted
    <3>3. QED  BY <1>1, <2>2, <3>1, <3>2, FirstCreations
  <2>3. ASSUME NEW t \in Threads, NEW u \in Threads, FirstCreation(t, o)', FirstCreation(u, o)'
        PROVE  t = u
    <3>1. \/ FirstCreation(t, o)
          \/ ClaimCommand(t, o, "create_checkout") /\ attempts = 0
      BY <1>1, <2>3, FirstCreations
    <3>2. \/ FirstCreation(u, o)
          \/ ClaimCommand(u, o, "create_checkout") /\ attempts = 0
      BY <1>1, <2>3, FirstCreations
    <3>3. CASE ClaimCommand(t, o, "create_checkout") /\ ClaimCommand(u, o, "create_checkout")
      <4>1. ASSUME t # u  PROVE FALSE
        <5>1. threads'[u] = Idle
          BY <1>1, <3>3, <4>1 DEF ClaimCommand
        <5>2. QED  BY <2>3, <5>1 DEF FirstCreation, Idle
      <4>2. QED  BY <4>1
    <3>4. QED  BY <1>2, <3>1, <3>2, <3>3
  <2>4. QED  BY <1>3, <2>1, <2>2, <2>3
<1>6. QED  BY <1>4, <1>5

-----------------------------------------------------------------------------
(***************************************************************************)
(* Answers and what is made of them.                                       *)
(***************************************************************************)

\* What get_payment says of a link is so.
LEMMA ReadIsTrue ==
  ASSUME NEW link \in Link, AddsUp(link)
  PROVE  /\ ReadLink(link).status = "CANCELLED" => link.state = "CANCELLED"
         /\ SaysPaidInTime(ReadLink(link)) => PaidInTime(link)
<1>1. ReadLink(link).status = "CANCELLED" => link.state = "CANCELLED"
  BY DEF ReadLink
<1>2. ASSUME SaysPaidInTime(ReadLink(link))  PROVE PaidInTime(link)
  <2>1. /\ link.count = 1 /\ link.received = Price
        /\ ~(link.count = 1 /\ link.transfers[1].late)
    BY <1>2 DEF SaysPaidInTime, ReadLink
  <2>2. link.transfers[1].amount = Price /\ ~link.transfers[1].late
    BY <2>1 DEF AddsUp
  <2>3. link.transfers[1] \in [amount: {0} \cup Amounts, late: BOOLEAN]
    <3>1. 1 \in 1..MaxTransfers
      BY <2>1, BillingAssumption DEF Link, BillingAssumption
    <3>2. QED  BY <3>1 DEF Link
  <2>4. link.transfers[1] = [amount |-> Price, late |-> FALSE]
    BY <2>2, <2>3
  <2>5. QED  BY <2>1, <2>4 DEF PaidInTime
<1>3. QED  BY <1>1, <1>2

\* A failure says neither.
LEMMA FailuresSayNothing ==
  \A failure \in Failures :
    Said(failure).status # "CANCELLED" /\ ~SaysPaidInTime(Said(failure))
BY DEF Failures, Said, SaysPaidInTime

\* What threads have heard stays true.
LEMMA AnswersStayTrue ==
  ASSUME Remembered, [Next]_billingVars
  PROVE  AnswersHold'
<1> SUFFICES ASSUME NEW t \in Threads, threads'[t].job = "answered"
    PROVE  LET answer == threads'[t].answer
               link == links'[threads'[t].order]
           IN /\ answer.status = "CANCELLED" => link.state = "CANCELLED"
              /\ SaysPaidInTime(answer) => PaidInTime(link)
  BY DEF AnswersHold, SaysPaidInTime, PaidInTime
<1>1. /\ Sound /\ AnswersHold /\ threads \in [Threads -> {Idle} \cup Work]
      /\ links \in [Orders -> Link] /\ Sound'
  BY NextIsSound DEF Remembered, Sound, BillingTypeOK
<1>2. CASE threads'[t] = threads[t]
  <2>1. threads[t] \in Work /\ threads[t].order \in Orders
    BY <1>1, <1>2, BusyIsNotIdle DEF Work
  <2>2. QED  BY <1>1, <1>2, <2>1, LinksKeep DEF AnswersHold
<1>3. CASE CallProvider(t)
  <2> DEFINE work == threads[t]
             o == work.order
             link == LinkAfter(work)
  <2>1. work \in Work /\ o \in Orders
    BY <1>1, <1>3, BusyIsNotIdle DEF CallProvider, Work
  <2>2. PICK answer \in {Said("fatal"), ReadLink(link), Said("retryable")} :
          threads' = [threads EXCEPT ![t].job = "answered", ![t].answer = answer]
    BY <1>3 DEF CallProvider
  <2>3. threads'[t].answer = answer /\ threads'[t].order = o
    BY <1>1, <2>1, <2>2 DEF Work
  <2>4. links' = [links EXCEPT ![o] = link]
    BY <1>3 DEF CallProvider
  <2>5. links'[o] = link
    BY <1>1, <2>1, <2>4
  <2>6. link \in Link /\ AddsUp(link)
    BY <1>1, <2>1, <2>5, LinkIsTyped, LinksKeep DEF Sound
  <2>7. answer = ReadLink(link) \/ answer \in {Said(failure) : failure \in Failures}
    BY <2>2 DEF Failures
  <2> HIDE DEF link
  <2>8. /\ answer.status = "CANCELLED" => link.state = "CANCELLED"
        /\ SaysPaidInTime(answer) => PaidInTime(link)
    BY <2>6, <2>7, ReadIsTrue, FailuresSayNothing
  <2>9. QED  BY <2>3, <2>5, <2>8
<1>4. CASE threads'[t].answer \in {Said(failure) : failure \in Failures}
  BY <1>4, FailuresSayNothing
<1>5. ASSUME NEW o \in Orders, NEW type \in CommandTypes, ClaimCommand(t, o, type)
      PROVE  threads'[t].job = "claimed"
  BY <1>1, <1>5 DEF ClaimCommand
<1>6. threads'[t] # Idle
  BY DEF Idle
<1>7. QED  BY <1>1, <1>2, <1>3, <1>4, <1>5, <1>6, ThreadSteps DEF ThreadMoves

\* A checkout becomes cancelled only by an answer that says so.
LEMMA CancelledIsKept ==
  ASSUME Remembered, [Next]_billingVars
  PROVE  CancelledAtProvider'
<1> SUFFICES ASSUME NEW o \in Orders, orders'[o].checkout = "cancelled"
             PROVE  links'[o].state = "CANCELLED"
  BY DEF CancelledAtProvider
<1>1. Sound
  BY DEF Remembered
<1>2. CASE orders[o].checkout = "cancelled"
  BY <1>2, LinksKeep DEF Remembered, CancelledAtProvider
<1>3. ASSUME NEW t \in Threads, Complete(t), threads[t].order = o,
             threads[t].answer.status = "CANCELLED"
      PROVE  links'[o].state = "CANCELLED"
  BY <1>3, LinksKeep DEF Remembered, AnswersHold, Complete
<1>4. QED  BY <1>1, <1>2, <1>3, CheckoutSteps DEF CheckoutStep, CheckoutAfter

-----------------------------------------------------------------------------
(***************************************************************************)
(* Grants.                                                                 *)
(***************************************************************************)

\* An order is granted, or begins to await its activation.
Advances(ord, next) ==
  next.granted # ord.granted \/ (next.activation = "pending" /\ ord.activation # "pending")

\* Activation issues no grant while a refund is pending.
LEMMA ActivationAdvances ==
  ASSUME NEW ord \in OrderRow
  PROVE  /\ Activate(ord).granted # ord.granted => ~ord.refund
         /\ Activate(ord).activation = "pending" => ord.activation = "pending"
BY DEF Activate, ApplyCreditPack, MarkApplied, MarkReview, OrderRow

\* A review issues no grant and awaits nothing, nor does the payment fact.
LEMMA RecordsGrantNothing ==
  ASSUME NEW ord \in OrderRow
  PROVE  /\ MarkReview(ord).granted = ord.granted /\ MarkReview(ord).activation # "pending"
         /\ RecordPaid(ord).granted = ord.granted /\ RecordPaid(ord).refund = ord.refund
         /\ RecordPaid(ord) \in OrderRow
BY DEF MarkReview, RecordPaid, OrderRow, ActivationStates

\* Applying an answer advances an order only if the answer says so.
LEMMA ResultsAdvance ==
  ASSUME NEW ord \in OrderRow, NEW answer, NEW signed,
         NEW next \in {ApplyOrderResult(ord, answer), ApplyVerified(ord, answer, signed)}
  PROVE  /\ Advances(ord, next) => SaysPaidInTime(answer)
         /\ next.granted # ord.granted => ~ord.refund
<1>1. CASE next = ord \/ next = MarkReview(ord) \/ next = MarkReview(RecordPaid(ord))
  BY <1>1, RecordsGrantNothing DEF Advances
<1>2. CASE next = Activate(RecordPaid(ord)) /\ answer.status = "PAID"
           /\ answer.amount = Price /\ answer.single /\ OnTime(ord, answer)
  <2>1. SaysPaidInTime(answer)
    BY <1>2 DEF SaysPaidInTime, OnTime
  <2>2. next.granted # ord.granted => ~ord.refund
    BY <1>2, RecordsGrantNothing, ActivationAdvances
  <2>3. QED  BY <2>1, <2>2
<1>3. QED  BY <1>1, <1>2 DEF ApplyOrderResult, ApplyVerified

\* A completed command.
LEMMA AnswerAdvances ==
  ASSUME NEW ord \in OrderRow, NEW work, NEW next, next = OrderAfterAnswer(ord, work)
  PROVE  /\ Advances(ord, next) => SaysPaidInTime(work.answer)
         /\ next.granted # ord.granted => ~ord.refund
<1> DEFINE seen == [ord EXCEPT !.checkout = CheckoutAfter(@, work.type, work.answer.status)]
<1>1. seen \in OrderRow
  BY CheckoutIsTyped, ColumnsAreTyped DEF OrderRow
<1>2. seen.granted = ord.granted /\ seen.activation = ord.activation /\ seen.refund = ord.refund
  BY DEF OrderRow
<1> HIDE DEF seen
<1>3. next = ApplyOrderResult(seen, work.answer)
  BY DEF OrderAfterAnswer, seen
<1>4. QED  BY <1>1, <1>2, <1>3, ResultsAdvance DEF Advances

\* The step of an order that is not written, or in other columns.
LEMMA OthersStay ==
  ASSUME Sound, NEW o \in Orders, NEW p \in Orders, NEW ord,
         orders' = [orders EXCEPT ![p] = ord],
         p = o => ~Advances(orders[o], ord)
  PROVE  ~Advances(orders[o], orders'[o])
BY DEF Sound, BillingTypeOK, Advances

\* The columns that requests and the clock set.
LEMMA ColumnsAdvanceNothing ==
  ASSUME NEW ord \in OrderRow
  PROVE  /\ \A c : ~Advances(ord, [ord EXCEPT !.checkout = c])
         /\ ~Advances(ord, [ord EXCEPT !.activation = "review_required"])
         /\ ~Advances(ord, [ord EXCEPT !.refund = TRUE])
         /\ ~Advances(ord, [ord EXCEPT !.overdue = TRUE])
         /\ ~Advances(ord, [ord EXCEPT !.eligible = ~@])
BY DEF Advances, OrderRow

\* An order advances because a thread has heard of its payment, or because it
\* awaited its activation; and no grant is issued while a refund is pending.
LEMMA AdvancesAreEarned ==
  ASSUME Remembered, [Next]_billingVars, NEW o \in Orders, Advances(orders[o], orders'[o])
  PROVE  /\ PaidInTime(links[o])
         /\ orders'[o].granted # orders[o].granted => ~orders[o].refund
<1>1. Sound /\ orders \in [Orders -> OrderRow] /\ threads \in [Threads -> {Idle} \cup Work]
  BY DEF Remembered, Sound, BillingTypeOK
<1>2. ASSUME NEW t \in Threads, threads[t].job = "answered", threads[t].order = o,
             SaysPaidInTime(threads[t].answer)
      PROVE  PaidInTime(links[o])
  BY <1>2 DEF Remembered, AnswersHold
<1>3. ASSUME NEW t \in Threads, Complete(t)
      PROVE  /\ PaidInTime(links[o])
             /\ orders'[o].granted # orders[o].granted => ~orders[o].refund
  <2> DEFINE work == threads[t]
             p == work.order
  <2>1. p \in Orders
    BY <1>1, <1>3, BusyIsNotIdle DEF Complete, Work
  <2>2. orders' = [orders EXCEPT ![p] = OrderAfterAnswer(orders[p], work)]
    BY <1>3 DEF Complete, OrderAfterAnswer, Advances
  <2>3. p = o /\ orders'[o] = OrderAfterAnswer(orders[o], work)
    BY <1>1, <2>1, <2>2, OthersStay
  <2>4. SaysPaidInTime(work.answer)
        /\ (orders'[o].granted # orders[o].granted => ~orders[o].refund)
    <3>1. orders[o] \in OrderRow
      BY <1>1
    <3> HIDE DEF work, p
    <3>2. QED  BY <2>3, <3>1, AnswerAdvances
  <2>5. QED  BY <1>2, <1>3, <2>3, <2>4 DEF Complete
<1>4. ASSUME NEW t \in Threads, ApplyEvent(t)
      PROVE  /\ PaidInTime(links[o])
             /\ orders'[o].granted # orders[o].granted => ~orders[o].refund
  <2> DEFINE work == threads[t]
             p == work.order
             signed == links[p].transfers[work.transfer].amount
  <2>1. p \in Orders
    BY <1>1, <1>4, BusyIsNotIdle DEF ApplyEvent, Work
  <2>2. orders' = [orders EXCEPT ![p] = ApplyVerified(orders[p], work.answer, signed)]
    BY <1>4 DEF ApplyEvent, Advances
  <2>3. p = o /\ orders'[o] = ApplyVerified(orders[o], work.answer, signed)
    BY <1>1, <2>1, <2>2, OthersStay
  <2>4. SaysPaidInTime(work.answer)
        /\ (orders'[o].granted # orders[o].granted => ~orders[o].refund)
    <3>1. orders[o] \in OrderRow
      BY <1>1
    <3> HIDE DEF work, p, signed
    <3>2. QED  BY <2>3, <3>1, ResultsAdvance
  <2>5. QED  BY <1>2, <1>4, <2>3, <2>4 DEF ApplyEvent
<1>5. ASSUME NEW p \in Orders, RetryActivation(p)
      PROVE  /\ PaidInTime(links[o])
             /\ orders'[o].granted # orders[o].granted => ~orders[o].refund
  <2>1. orders' = [orders EXCEPT ![p] = RetryActivationOf(orders[p])]
    BY <1>5 DEF RetryActivation
  <2>2. p = o /\ orders'[o] = RetryActivationOf(orders[o])
    BY <1>1, <2>1, OthersStay
  <2>3. orders[o].activation = "pending" /\ ~orders[o].refund
    BY <1>5, <2>2 DEF RetryActivation, AwaitsActivation
  <2>4. QED  BY <2>3 DEF Remembered, PendingIsPaid
<1>6. ASSUME NEW p \in Orders, NEW ord, orders' = [orders EXCEPT ![p] = ord],
             ~Advances(orders[p], ord)
      PROVE  FALSE
  BY <1>1, <1>6, OthersStay
<1>7. ASSUME NEW p \in Orders, Requests(p) \/ Environment(p)
      PROVE  UNCHANGED orders
             \/ \E ord : orders' = [orders EXCEPT ![p] = ord] /\ ~Advances(orders[p], ord)
  <2>1. orders[p] \in OrderRow
    BY <1>1
  <2>2. CASE CreateCheckout(p)
    BY <2>1, <2>2, ColumnsAdvanceNothing DEF CreateCheckout
  <2>3. CASE RequestRefund(p)
    BY <2>1, <2>3, ColumnsAdvanceNothing DEF RequestRefund
  <2>4. CASE AdminReview(p)
    BY <2>1, <2>4, ColumnsAdvanceNothing DEF AdminReview
  <2>5. CASE ChangeEligibility(p)
    BY <2>1, <2>5, ColumnsAdvanceNothing DEF ChangeEligibility
  <2>6. CASE PassDeadline(p)
    BY <2>1, <2>6, ColumnsAdvanceNothing DEF PassDeadline
  <2>7. CASE RequestCancel(p) \/ AdminQuery(p) \/ LinkExpires(p)
             \/ \E amount \in Amounts : Transfer(p, amount)
    BY <2>7 DEF RequestCancel, AdminQuery, LinkExpires, Transfer
  <2>8. QED  BY <1>7, <2>2, <2>3, <2>4, <2>5, <2>6, <2>7 DEF Requests, Environment
<1>8. ASSUME NEW p \in Orders, ExpireLocalCheckout(p)
      PROVE  FALSE
  <2>1. orders' = [orders EXCEPT ![p] = [orders[p] EXCEPT !.checkout = "expired"]]
    BY <1>8 DEF ExpireLocalCheckout
  <2>2. QED  BY <1>1, <1>6, <2>1, ColumnsAdvanceNothing
<1>9. ASSUME NEW t \in Threads, Fail(t)
      PROVE  FALSE
  <2>1. threads[t].order \in Orders
    BY <1>1, <1>9, BusyIsNotIdle DEF Fail, Work
  <2>2. PICK c : orders' = [orders EXCEPT ![threads[t].order] =
                              [orders[threads[t].order] EXCEPT !.checkout = c]]
    BY <1>9 DEF Fail, Advances
  <2>3. QED  BY <1>1, <1>6, <2>1, <2>2, ColumnsAdvanceNothing
<1>10. orders' # orders
  BY DEF Advances
<1>11. \/ UNCHANGED orders
       \/ \E p \in Orders : \/ Requests(p) \/ Environment(p)
                            \/ RetryActivation(p) \/ ExpireLocalCheckout(p)
       \/ \E t \in Threads : Complete(t) \/ Fail(t) \/ ApplyEvent(t)
  BY DEF Next, WorkerTransactions, ThreadStep, ThreadDies, Claims, ClaimCommand, ClaimWebhook,
     DeliverWebhook, ScheduleReconciliation, CallProvider, CallFails, CommitFails, FailEvent,
     billingVars
<1>12. QED
  BY <1>3, <1>4, <1>5, <1>6, <1>7, <1>8, <1>9, <1>10, <1>11

\* An order that awaits its activation still was paid in time.
LEMMA PendingStaysPaid ==
  ASSUME Remembered, [Next]_billingVars
  PROVE  PendingIsPaid'
<1> SUFFICES ASSUME NEW o \in Orders, orders'[o].activation = "pending"
             PROVE  PaidInTime(links'[o])
  BY DEF PendingIsPaid, PaidInTime
<1>1. PaidInTime(links[o])
  BY AdvancesAreEarned DEF Remembered, PendingIsPaid, Advances
<1>2. QED  BY <1>1, LinksKeep

-----------------------------------------------------------------------------
\* The invariant holds initially and is kept.
LEMMA InitRemembers == Init => Remembered
<1> SUFFICES ASSUME Init PROVE Remembered
  OBVIOUS
<1>1. Sound
  BY InitIsSound
<1>2. CreatedOnce /\ AnswersHold
  BY DEF Init, CreatedOnce, AnswersHold, NoOrder, NoCommand, NoLink, FirstCreation, Idle,
         CommandTypes
<1>3. PendingIsPaid /\ CancelledAtProvider /\ \A o \in Orders : AddsUp(links[o])
  BY DEF Init, PendingIsPaid, CancelledAtProvider, NoOrder, NoLink, AddsUp
<1>4. QED  BY <1>1, <1>2, <1>3 DEF Remembered

\* Every step keeps it.
LEMMA NextRemembers == Remembered /\ [Next]_billingVars => Remembered'
<1> SUFFICES ASSUME Remembered, [Next]_billingVars PROVE Remembered'
  OBVIOUS
<1>1. Sound'
  BY NextIsSound DEF Remembered
<1>2. \A o \in Orders : AddsUp(links[o])'
  BY LinksKeep DEF AddsUp
<1>3. QED
  BY <1>1, <1>2, CreatedOnceIsKept, AnswersStayTrue, PendingStaysPaid, CancelledIsKept
     DEF Remembered

\* A checkout is shown as cancelled only when the provider takes no more money
\* for it, whatever answers were lost, late or repeated.
THEOREM CancelledMeansCancelled == Spec => []CancelledAtProvider
<1>1. Remembered => CancelledAtProvider
  BY DEF Remembered
<1>2. QED  BY <1>1, InitRemembers, NextRemembers, PTL DEF Spec

\* Credits are granted only for an exact on-time transfer and not while a
\* refund is pending, for any amounts and any number of transfers.
THEOREM GrantsAreEarned == Spec => GrantIsEarned
<1> DEFINE Earned == \A o \in Orders : orders'[o].granted # orders[o].granted =>
             /\ links[o].transfers[1] = [amount |-> Price, late |-> FALSE]
             /\ ~orders[o].refund
<1>1. Remembered /\ [Next]_billingVars => Earned
  BY AdvancesAreEarned DEF Advances, PaidInTime
<1>2. Spec => [][Earned]_billingVars
  <2> HIDE DEF Earned
  <2>1. QED  BY <1>1, InitRemembers, NextRemembers, PTL DEF Spec
<1>3. QED  BY <1>2 DEF GrantIsEarned

-----------------------------------------------------------------------------
(***************************************************************************)
(* The steps of one order.                                                 *)
(***************************************************************************)

\* How an order changes in one step.
OrderStep(o) ==
  LET ord == orders[o]
      next == orders'[o]
  IN \/ next = ord
     \/ \E c \in CheckoutStates : next = [ord EXCEPT !.checkout = c]
     \/ next = [ord EXCEPT !.activation = "review_required"]
     \/ next = [ord EXCEPT !.refund = TRUE]
     \/ next = [ord EXCEPT !.overdue = TRUE]
     \/ next = [ord EXCEPT !.eligible = ~@]
     \/ next = RetryActivationOf(ord)
     \/ \E t \in Threads : /\ Complete(t) /\ OwnsClaim(t) /\ threads[t].order = o
                           /\ next = OrderAfterAnswer(ord, threads[t])
     \/ \E t \in Threads :
          /\ ApplyEvent(t) /\ threads[t].order = o
          /\ next = ApplyVerified(ord, threads[t].answer,
                                  links[o].transfers[threads[t].transfer].amount)

\* Every step changes an order in one of these ways.
LEMMA OrderSteps ==
  ASSUME Sound, [Next]_billingVars, NEW o \in Orders
  PROVE  OrderStep(o)
<1>1. orders \in [Orders -> OrderRow] /\ threads \in [Threads -> {Idle} \cup Work]
  BY DEF Sound, BillingTypeOK
<1>2. ASSUME NEW p \in Orders, NEW ord, orders' = [orders EXCEPT ![p] = ord], p # o
      PROVE  OrderStep(o)
  BY <1>1, <1>2 DEF OrderStep
<1>3. ASSUME NEW p \in Orders, Requests(p) \/ Environment(p) \/ WorkerTransactions(p)
      PROVE  OrderStep(o)
  <2>1. CASE p = o
    <3>1. orders[o] \in OrderRow
      BY <1>1
    <3>2. CASE CreateCheckout(o)
      BY <1>1, <3>2 DEF CreateCheckout, OrderStep, CheckoutStates
    <3>3. CASE RequestRefund(o) \/ AdminReview(o) \/ ChangeEligibility(o) \/ PassDeadline(o)
      BY <1>1, <3>3 DEF RequestRefund, AdminReview, ChangeEligibility, PassDeadline, OrderStep
    <3>4. CASE ExpireLocalCheckout(o) \/ RetryActivation(o)
      BY <1>1, <3>4 DEF ExpireLocalCheckout, RetryActivation, OrderStep, CheckoutStates
    <3>5. CASE UNCHANGED orders
      BY <3>5 DEF OrderStep
    <3>6. QED
      BY <1>3, <2>1, <3>2, <3>3, <3>4, <3>5
         DEF Requests, Environment, WorkerTransactions, RequestCancel, AdminQuery, Transfer,
             LinkExpires, ScheduleReconciliation
  <2>2. CASE p # o
    <3>1. UNCHANGED orders \/ \E ord : orders' = [orders EXCEPT ![p] = ord]
      BY <1>3 DEF Requests, Environment, WorkerTransactions, CreateCheckout, RequestCancel,
           RequestRefund, AdminReview, AdminQuery, ChangeEligibility, Transfer, LinkExpires,
           PassDeadline, RetryActivation, ExpireLocalCheckout, ScheduleReconciliation
    <3>2. QED  BY <1>2, <2>2, <3>1 DEF OrderStep
  <2>3. QED  BY <2>1, <2>2
<1>4. ASSUME NEW t \in Threads, Complete(t)
      PROVE  OrderStep(o)
  <2>1. threads[t].order \in Orders
    BY <1>1, <1>4, BusyIsNotIdle DEF Complete, Work
  <2>2. CASE OwnsClaim(t)
    <3>1. orders' = [orders EXCEPT ![threads[t].order] =
                       OrderAfterAnswer(orders[threads[t].order], threads[t])]
      BY <1>4, <2>2 DEF Complete, OrderAfterAnswer
    <3>2. QED  BY <1>1, <1>2, <1>4, <2>1, <2>2, <3>1 DEF OrderStep
  <2>3. CASE ~OwnsClaim(t)
    BY <1>4, <2>3 DEF Complete, OrderStep
  <2>4. QED  BY <2>2, <2>3
<1>5. ASSUME NEW t \in Threads, Fail(t)
      PROVE  OrderStep(o)
  <2> DEFINE p == threads[t].order
  <2>1. p \in Orders
    BY <1>1, <1>5, BusyIsNotIdle DEF Fail, Work
  <2>2. UNCHANGED orders
        \/ \E c \in CheckoutStates : orders' = [orders EXCEPT ![p].checkout = c]
    <3>1. orders[p].checkout \in CheckoutStates /\ "create_failed" \in CheckoutStates
      BY <1>1, <2>1 DEF OrderRow, CheckoutStates
    <3>2. QED  BY <1>5, <3>1 DEF Fail
  <2>3. QED
    <3> HIDE DEF p
    <3>1. QED  BY <1>1, <2>1, <2>2 DEF OrderStep
<1>6. ASSUME NEW t \in Threads, ApplyEvent(t)
      PROVE  OrderStep(o)
  <2> DEFINE p == threads[t].order
             next == ApplyVerified(orders[p], threads[t].answer,
                                   links[p].transfers[threads[t].transfer].amount)
  <2>1. p \in Orders
    BY <1>1, <1>6, BusyIsNotIdle DEF ApplyEvent, Work
  <2>2. UNCHANGED orders \/ orders' = [orders EXCEPT ![p] = next]
    BY <1>6 DEF ApplyEvent
  <2>3. CASE p = o /\ orders' = [orders EXCEPT ![p] = next]
    <3>1. orders'[o] = next
      <4> HIDE DEF next
      <4>1. QED  BY <1>1, <2>3
    <3>2. QED  BY <1>6, <2>3, <3>1 DEF OrderStep
  <2>4. QED
    <3> HIDE DEF next, p
    <3>1. QED  BY <1>2, <2>1, <2>2, <2>3 DEF OrderStep
<1>7. CASE UNCHANGED orders
  BY <1>7 DEF OrderStep
<1>8. QED
  <2>1. \/ UNCHANGED orders
        \/ \E p \in Orders : Requests(p) \/ Environment(p) \/ WorkerTransactions(p)
        \/ \E t \in Threads : Complete(t) \/ Fail(t) \/ ApplyEvent(t)
    BY DEF Next, ThreadStep, ThreadDies, Claims, ClaimCommand, ClaimWebhook, DeliverWebhook,
       CallProvider, CallFails, CommitFails, FailEvent, billingVars
  <2>2. QED  BY <1>3, <1>4, <1>5, <1>6, <1>7, <2>1

-----------------------------------------------------------------------------
(***************************************************************************)
(* Reconciliation.                                                         *)
(***************************************************************************)

\* An open order nobody has decided anything about.
Undecided(o) ==
  /\ orders[o].checkout \in {"creating", "open"} /\ ~orders[o].overdue
  /\ orders[o].payment = "unverified" /\ orders[o].activation = "not_ready"

\* A thread that has heard something has heard an answer or a failure; no query
\* is queued before its order is there; a creation that was given up is over.
AnswersSaySomething ==
  \A t \in Threads : threads[t].job = "answered" => threads[t].answer.status # "nothing"
NoEarlyQuery ==
  \A o \in Orders : orders[o].checkout = "absent" => commands[o]["query_order"] = NoCommand
Reconciling ==
  /\ Remembered /\ CreationIsOver /\ AnswersSaySomething /\ NoEarlyQuery
  /\ ReconciliationGoesOn

\* A deadline that has passed, a payment and a decision are not taken back.
DecisionsStay(ord, next) ==
  /\ ord.overdue => next.overdue
  /\ ord.payment # "unverified" => next.payment # "unverified"
  /\ ord.activation # "not_ready" => next.activation # "not_ready"

\* The activation service takes none back, and a paid answer decides.
LEMMA ServiceDecides ==
  ASSUME NEW ord \in OrderRow, NEW answer, NEW signed
  PROVE  /\ DecisionsStay(ord, RetryActivationOf(ord))
         /\ DecisionsStay(ord, ApplyOrderResult(ord, answer))
         /\ DecisionsStay(ord, ApplyVerified(ord, answer, signed))
         /\ answer.status = "PAID" => ApplyOrderResult(ord, answer).activation # "not_ready"
<1>1. /\ DecisionsStay(ord, MarkReview(ord)) /\ MarkReview(ord).activation # "not_ready"
      /\ MarkReview(RecordPaid(ord)).activation # "not_ready"
      /\ DecisionsStay(ord, MarkReview(RecordPaid(ord)))
  BY DEF DecisionsStay, MarkReview, RecordPaid, OrderRow
<1>2. ASSUME NEW paid \in OrderRow
      PROVE  /\ DecisionsStay(paid, Activate(paid))
             /\ paid.activation # "not_ready" => Activate(paid).activation # "not_ready"
  BY DEF Activate, ApplyCreditPack, MarkApplied, MarkReview, DecisionsStay, OrderRow
<1>3. /\ RecordPaid(ord) \in OrderRow /\ DecisionsStay(ord, RecordPaid(ord))
      /\ RecordPaid(ord).activation # "not_ready"
  BY DEF RecordPaid, DecisionsStay, OrderRow, ActivationStates
<1>4. /\ DecisionsStay(ord, Activate(RecordPaid(ord)))
      /\ Activate(RecordPaid(ord)).activation # "not_ready"
  BY <1>2, <1>3 DEF DecisionsStay
<1>5. DecisionsStay(ord, ord)
  BY DEF DecisionsStay
<1>6. DecisionsStay(ord, RetryActivationOf(ord))
  BY <1>2, <1>5 DEF RetryActivationOf
<1>7. /\ DecisionsStay(ord, ApplyOrderResult(ord, answer))
      /\ answer.status = "PAID" => ApplyOrderResult(ord, answer).activation # "not_ready"
  BY <1>1, <1>4, <1>5 DEF ApplyOrderResult
<1>8. QED  BY <1>1, <1>6, <1>7 DEF ApplyVerified

\* What a completed command decides.
LEMMA AnswerDecides ==
  ASSUME NEW ord \in OrderRow, NEW work
  PROVE  /\ DecisionsStay(ord, OrderAfterAnswer(ord, work))
         /\ work.answer.status = "PAID" => OrderAfterAnswer(ord, work).activation # "not_ready"
<1> DEFINE seen == [ord EXCEPT !.checkout = CheckoutAfter(@, work.type, work.answer.status)]
<1>1. seen \in OrderRow
  BY CheckoutIsTyped, ColumnsAreTyped DEF OrderRow
<1>2. /\ seen.overdue = ord.overdue /\ seen.payment = ord.payment
      /\ seen.activation = ord.activation
  BY DEF OrderRow
<1> HIDE DEF seen
<1>3. OrderAfterAnswer(ord, work) = ApplyOrderResult(seen, work.answer)
  BY DEF OrderAfterAnswer, seen
<1>4. QED  BY <1>1, <1>2, <1>3, ServiceDecides DEF DecisionsStay

\* Nor do the columns that requests, the clock and the provider set.
LEMMA ColumnsDecide ==
  ASSUME NEW ord \in OrderRow
  PROVE  /\ DecisionsStay(ord, ord)
         /\ \A c : DecisionsStay(ord, [ord EXCEPT !.checkout = c])
         /\ DecisionsStay(ord, [ord EXCEPT !.activation = "review_required"])
         /\ DecisionsStay(ord, [ord EXCEPT !.refund = TRUE])
         /\ DecisionsStay(ord, [ord EXCEPT !.overdue = TRUE])
         /\ DecisionsStay(ord, [ord EXCEPT !.eligible = ~@])
BY DEF DecisionsStay, OrderRow

\* No step takes a decision back.
LEMMA DecisionsAreKept ==
  ASSUME Sound, [Next]_billingVars, NEW o \in Orders
  PROVE  DecisionsStay(orders[o], orders'[o])
<1>1. orders[o] \in OrderRow
  BY DEF Sound, BillingTypeOK
<1>2. OrderStep(o)
  BY OrderSteps
<1>3. ASSUME NEW t \in Threads, orders'[o] = OrderAfterAnswer(orders[o], threads[t])
      PROVE  DecisionsStay(orders[o], orders'[o])
  BY <1>1, <1>3, AnswerDecides
<1>4. ASSUME NEW answer, NEW signed, orders'[o] = ApplyVerified(orders[o], answer, signed)
      PROVE  DecisionsStay(orders[o], orders'[o])
  BY <1>1, <1>4, ServiceDecides
<1>5. CASE orders'[o] = RetryActivationOf(orders[o])
  BY <1>1, <1>5, ServiceDecides
<1>6. CASE \E t \in Threads : orders'[o] = OrderAfterAnswer(orders[o], threads[t])
  BY <1>3, <1>6
<1>7. CASE \E answer, signed : orders'[o] = ApplyVerified(orders[o], answer, signed)
  BY <1>4, <1>7
<1>8. QED  BY <1>1, <1>2, <1>5, <1>6, <1>7, ColumnsDecide DEF OrderStep

\* What has been heard is never nothing.
LEMMA AnswersKeepSayingSomething ==
  ASSUME Remembered, AnswersSaySomething, [Next]_billingVars
  PROVE  AnswersSaySomething'
<1> SUFFICES ASSUME NEW t \in Threads, threads'[t].job = "answered"
             PROVE  threads'[t].answer.status # "nothing"
  BY DEF AnswersSaySomething
<1>1. /\ Sound /\ threads \in [Threads -> {Idle} \cup Work]
      /\ \A link : ReadLink(link).status # "nothing"
  BY DEF Remembered, Sound, BillingTypeOK, ReadLink
<1>2. CASE CallProvider(t)
  <2>1. threads[t] \in Work
    BY <1>1, <1>2, BusyIsNotIdle DEF CallProvider
  <2>2. PICK answer \in {Said("fatal"), Said("retryable"), ReadLink(LinkAfter(threads[t]))} :
          threads' = [threads EXCEPT ![t].job = "answered", ![t].answer = answer]
    BY <1>2 DEF CallProvider
  <2>3. threads'[t].answer = answer
    BY <1>1, <2>1, <2>2 DEF Work
  <2>4. QED  BY <1>1, <2>2, <2>3 DEF Said
<1>3. CASE threads'[t].answer \in {Said(failure) : failure \in Failures}
  BY <1>3 DEF Said, Failures
<1>4. ASSUME NEW o \in Orders, NEW type \in CommandTypes, ClaimCommand(t, o, type)
      PROVE  threads'[t].job = "claimed"
  BY <1>1, <1>4 DEF ClaimCommand
<1>5. threads'[t] # Idle
  BY DEF Idle
<1>6. QED  BY <1>1, <1>2, <1>3, <1>4, <1>5, ThreadSteps DEF ThreadMoves, AnswersSaySomething

\* How the query of an order changes in one step.
QueryStep(o) ==
  LET query == commands[o]["query_order"]
      next == commands'[o]["query_order"]
  IN \/ next = query
     \/ /\ next.status \in ActiveStates
        /\ orders[o].checkout # "absent" \/ query # NoCommand
     \/ \E t \in Threads :
          /\ Complete(t) /\ OwnsClaim(t) /\ threads[t].order = o
          /\ threads[t].type = "query_order" /\ ~KeepReconciling(o, "query_order", threads[t].answer)

\* Every step changes the query of an order in one of these ways.
LEMMA QuerySteps ==
  ASSUME Sound, [Next]_billingVars, NEW o \in Orders
  PROVE  QueryStep(o)
<1>1. commands \in [Orders -> [CommandTypes -> Command]] /\ "query_order" \in CommandTypes
      /\ threads \in [Threads -> {Idle} \cup Work]
  BY DEF Sound, BillingTypeOK, CommandTypes
<1>2. ASSUME NEW p \in Orders, NEW type \in CommandTypes, NEW cmd,
             commands' = [commands EXCEPT ![p][type] = cmd], p # o \/ type # "query_order"
      PROVE  QueryStep(o)
  BY <1>1, <1>2 DEF QueryStep
<1>3. "pending" \in ActiveStates /\ "processing" \in ActiveStates /\ "retry" \in ActiveStates
      /\ "absent" \notin ActiveStates
  BY DEF ActiveStates
<1>4. ASSUME NEW p \in Orders, Requests(p) \/ WorkerTransactions(p)
      PROVE  QueryStep(o)
  <2>1. CASE UNCHANGED commands
    BY <2>1 DEF QueryStep
  <2>2. CASE CreateCheckout(p) \/ RequestCancel(p)
    <3>1. \E type \in {"create_checkout", "cancel_checkout"} : \E cmd :
            commands' = [commands EXCEPT ![p][type] = cmd]
      BY <2>2 DEF CreateCheckout, RequestCancel
    <3>2. QED  BY <1>2, <3>1 DEF CommandTypes
  <2>3. CASE AdminQuery(p) \/ ScheduleReconciliation(p)
    <3>1. PICK cmd : /\ commands' = [commands EXCEPT ![p]["query_order"] = cmd]
                     /\ cmd.status = "pending"
      <4>1. commands[p]["query_order"] \in Command
        BY <1>1
      <4>2. Queued.status = "pending" /\ Requeue(commands[p]["query_order"]).status = "pending"
        BY <4>1 DEF Queued, Requeue, Command
      <4>3. CASE AdminQuery(p)
        <5>1. commands' = [commands EXCEPT ![p]["query_order"] =
                IF commands[p]["query_order"].status = "absent" THEN Queued
                ELSE Requeue(commands[p]["query_order"])]
          BY <1>1, <4>3 DEF AdminQuery
        <5>2. QED  BY <4>2, <5>1
      <4>4. CASE ScheduleReconciliation(p)
        BY <4>2, <4>4 DEF ScheduleReconciliation
      <4>5. QED  BY <2>3, <4>3, <4>4
    <3>2. orders[p].checkout # "absent"
      BY <2>3 DEF AdminQuery, ScheduleReconciliation, Unreconciled
    <3>3. QED  BY <1>1, <1>2, <1>3, <3>1, <3>2 DEF QueryStep
  <2>4. QED
    BY <1>4, <2>1, <2>2, <2>3 DEF Requests, WorkerTransactions, RequestRefund, AdminReview,
       ChangeEligibility, RetryActivation, ExpireLocalCheckout
<1>5. ASSUME NEW t \in Threads, NEW p \in Orders, NEW type \in CommandTypes,
             ClaimCommand(t, p, type)
      PROVE  QueryStep(o)
  <2>1. PICK cmd : /\ commands' = [commands EXCEPT ![p][type] = cmd]
                   /\ cmd.status = "processing"
    <3> DEFINE claim == [status |-> "processing", lockedBy |-> t,
                         attempts |-> NextAttempt(commands[p][type].attempts)]
    <3>1. commands' = [commands EXCEPT ![p][type] = claim] /\ claim.status = "processing"
      BY <1>5 DEF ClaimCommand
    <3>2. QED
      <4> HIDE DEF claim
      <4>1. QED  BY <3>1
  <2>2. commands[p][type] # NoCommand
    BY <1>3, <1>5 DEF ClaimCommand, Claimable, NoCommand
  <2>3. QED  BY <1>1, <1>2, <1>3, <2>1, <2>2 DEF QueryStep
<1>6. ASSUME NEW t \in Threads, Complete(t) \/ Fail(t)
      PROVE  QueryStep(o)
  <2> DEFINE work == threads[t]
  <2>1. /\ work.order \in Orders /\ work.type \in CommandTypes
    BY <1>1, <1>6, BusyIsNotIdle DEF Complete, Fail, Work
  <2>2. CASE ~OwnsClaim(t)
    BY <1>6, <2>2 DEF Complete, Fail, QueryStep
  <2>3. CASE OwnsClaim(t) /\ ~(work.order = o /\ work.type = "query_order")
    <3>1. PICK cmd : commands' = [commands EXCEPT ![work.order][work.type] = cmd]
      BY <1>6, <2>3 DEF Complete, Fail
    <3>2. QED
      <4> HIDE DEF work
      <4>1. QED  BY <1>2, <2>1, <2>3, <3>1
  <2>4. CASE OwnsClaim(t) /\ work.order = o /\ work.type = "query_order"
    <3>1. commands[o]["query_order"] # NoCommand
      BY <2>4 DEF OwnsClaim, NoCommand
    <3>2. CASE Complete(t) /\ ~KeepReconciling(o, "query_order", work.answer)
      BY <2>4, <3>2 DEF QueryStep
    <3>3. CASE Fail(t) \/ (Complete(t) /\ KeepReconciling(o, "query_order", work.answer))
      <4>1. PICK cmd : /\ commands' = [commands EXCEPT ![o]["query_order"] = cmd]
                       /\ cmd.status \in {"pending", "retry"}
        <5>1. /\ CommandAfterFailure(work).status \in {"pending", "retry"}
              /\ [NoCommand EXCEPT !.status = "pending"].status = "pending"
          BY <2>4 DEF CommandAfterFailure, NoCommand
        <5>2. CASE Fail(t)
          BY <2>4, <5>1, <5>2 DEF Fail
        <5>3. CASE Complete(t) /\ KeepReconciling(o, "query_order", work.answer)
          BY <2>4, <5>1, <5>3 DEF Complete
        <5>4. QED  BY <3>3, <5>2, <5>3
      <4>2. QED  BY <1>1, <1>3, <3>1, <4>1 DEF QueryStep
    <3>4. QED  BY <1>6, <3>2, <3>3
  <2>5. QED  BY <2>2, <2>3, <2>4
<1>7. CASE UNCHANGED commands
  BY <1>7 DEF QueryStep
<1>8. QED
  <2>1. \/ UNCHANGED commands
        \/ \E p \in Orders : Requests(p) \/ WorkerTransactions(p)
        \/ \E t \in Threads : Complete(t) \/ Fail(t)
        \/ \E t \in Threads, p \in Orders, type \in CommandTypes : ClaimCommand(t, p, type)
    BY DEF Next, Environment, Transfer, LinkExpires, PassDeadline, ThreadStep, ThreadDies,
       CallProvider, CallFails, CommitFails, ApplyEvent, FailEvent, Claims, ClaimWebhook,
       DeliverWebhook, billingVars
  <2>2. QED  BY <1>4, <1>5, <1>6, <1>7, <2>1

\* A query that completes leaves its order decided, overdue or closed.
LEMMA CompletedQueryDecides ==
  ASSUME Reconciling, [Next]_billingVars, NEW o \in Orders, NEW t \in Threads,
         Complete(t), OwnsClaim(t), threads[t].order = o,
         ~KeepReconciling(o, "query_order", threads[t].answer), threads[t].type = "query_order"
  PROVE  ~(/\ orders'[o].checkout \in {"creating", "open"} /\ ~orders'[o].overdue
           /\ orders'[o].activation = "not_ready")
<1> DEFINE work == threads[t]
<1>1. /\ Sound /\ orders[o] \in OrderRow /\ work \in Work
      /\ orders \in [Orders -> OrderRow]
  BY WorkIsTyped, BusyIsNotIdle DEF Reconciling, Remembered, Sound, BillingTypeOK, Complete
<1>2. orders'[o] = OrderAfterAnswer(orders[o], work)
  <2>1. orders' = [orders EXCEPT ![o] = OrderAfterAnswer(orders[o], work)]
    BY DEF Complete, OrderAfterAnswer
  <2>2. QED
    <3> HIDE DEF work
    <3>1. QED  BY <1>1, <2>1
<1>3. work.answer.status \in Statuses
  <2>1. work.answer \in Heard /\ work.answer.status # "nothing"
        /\ work.answer.status \notin Failures
    BY <1>1 DEF Reconciling, AnswersSaySomething, Complete, Work
  <2>2. QED
    <3> HIDE DEF work
    <3>1. QED  BY <2>1 DEF Heard, Answer, Said
<1>4. CASE work.answer.status = "PAID"
  BY <1>1, <1>2, <1>4, AnswerDecides
<1>5. CASE work.answer.status \in {"CANCELLED", "EXPIRED"}
  <2>1. orders'[o].checkout \in {"cancelled", "expired"}
    BY <1>1, <1>2, <1>5, AnswerIsSound DEF CheckoutAfter
  <2>2. QED  BY <2>1
<1>6. CASE orders[o].overdue
  BY <1>1, <1>6, DecisionsAreKept DEF DecisionsStay
<1>7. QED  BY <1>3, <1>4, <1>5, <1>6 DEF KeepReconciling, Statuses

\* Every step keeps the reconciliation going.
LEMMA ReconciliationIsKept ==
  ASSUME Reconciling, [Next]_billingVars
  PROVE  NoEarlyQuery' /\ ReconciliationGoesOn'
<1>1. Sound /\ CreationIsOver
  BY DEF Reconciling, Remembered
<1>2. ASSUME NEW o \in Orders, orders'[o].checkout = "absent"
      PROVE  commands'[o]["query_order"] = NoCommand
  <2>1. orders[o].checkout = "absent"
    BY <1>1, <1>2, CheckoutSteps DEF CheckoutStep, CheckoutAfter
  <2>2. commands[o]["query_order"] = NoCommand
    BY <2>1 DEF Reconciling, NoEarlyQuery
  <2>3. \A t \in Threads : ~(OwnsClaim(t) /\ threads[t].order = o
                             /\ threads[t].type = "query_order")
    BY <2>2 DEF OwnsClaim, NoCommand
  <2>4. QED  BY <1>1, <2>1, <2>2, <2>3, QuerySteps DEF QueryStep
<1>3. ASSUME NEW o \in Orders,
             orders'[o].checkout \in {"creating", "open"}, ~orders'[o].overdue,
             orders'[o].payment = "unverified", orders'[o].activation = "not_ready"
      PROVE  commands'[o]["query_order"].status \in {"absent"} \cup ActiveStates
  <2>1. commands[o]["query_order"].status \in {"absent"} \cup ActiveStates
    <3>1. CASE orders[o].checkout = "absent"
      BY <3>1 DEF Reconciling, NoEarlyQuery, NoCommand
    <3>2. CASE orders[o].checkout # "absent"
      <4>1. orders[o].checkout \in {"creating", "open"}
        <5>1. orders[o].checkout \in CheckoutStates
          BY <1>1 DEF Sound, BillingTypeOK, OrderRow
        <5>2. QED  BY <1>1, <1>3, <3>2, <5>1, ClosedStep DEF CheckoutStates
      <4>2. ~orders[o].overdue /\ orders[o].payment = "unverified"
            /\ orders[o].activation = "not_ready"
        BY <1>1, <1>3, DecisionsAreKept DEF DecisionsStay
      <4>3. QED  BY <4>1, <4>2 DEF Reconciling, ReconciliationGoesOn
    <3>3. QED  BY <3>1, <3>2
  <2>2. \A t \in Threads :
          ~(/\ Complete(t) /\ OwnsClaim(t) /\ threads[t].order = o
            /\ threads[t].type = "query_order"
            /\ ~KeepReconciling(o, "query_order", threads[t].answer))
    BY <1>3, CompletedQueryDecides
  <2>3. QED  BY <1>1, <2>1, <2>2, QuerySteps DEF QueryStep
<1>4. QED  BY <1>2, <1>3 DEF NoEarlyQuery, ReconciliationGoesOn

\* Missed-webhook reconciliation, once begun, goes on while the checkout is open and
\* undecided, whatever the queries answer, however they fail and whichever threads die
\* (_complete, _fail, keep_reconciling).
THEOREM ReconciliationIsNeverDropped == Spec => []ReconciliationGoesOn
<1>1. Init => Reconciling
  BY InitRemembers DEF Init, Reconciling, CreationIsOver, AnswersSaySomething, NoEarlyQuery,
     ReconciliationGoesOn, NoOrder, NoCommand, Idle, CommandTypes
<1>2. Reconciling /\ [Next]_billingVars => Reconciling'
  <2> SUFFICES ASSUME Reconciling, [Next]_billingVars PROVE Reconciling'
    OBVIOUS
  <2>1. Remembered' /\ CreationIsOver'
    BY NextRemembers, CreationStaysOver DEF Reconciling, Remembered
  <2>2. AnswersSaySomething'
    BY AnswersKeepSayingSomething DEF Reconciling
  <2>3. QED  BY <2>1, <2>2, ReconciliationIsKept DEF Reconciling
<1>3. Reconciling => ReconciliationGoesOn
  BY DEF Reconciling
<1>4. QED  BY <1>1, <1>2, <1>3, PTL DEF Spec

-----------------------------------------------------------------------------
(***************************************************************************)
(* One transfer, one grant.                                                *)
(***************************************************************************)

\* What is known of an order whose link has had one transfer at most: a paid answer
\* is what the provider would still say, and a grant is on the activation row, where
\* _activate_order looks for it.
PaidAnswersAreCurrent ==
  \A t \in Threads :
    LET link == links[threads[t].order] IN
    threads[t].job = "answered" /\ threads[t].answer.status = "PAID" /\ link.count <= 1 =>
      threads[t].answer = ReadLink(link)
Granted(ord) == ord.granted <= 1 /\ (ord.granted > 0 => ord.row = "applied")
GrantIsOnRow ==
  \A o \in Orders : links[o].count <= 1 =>
    Granted(orders[o]) /\ (orders[o].granted > 0 => PaidInTime(links[o]))

\* Events and the threads that serve them are of transfers that were made.
EventsAreOfTransfers ==
  /\ \A e \in EventKeys : events[e].status # "absent" => e[2] <= links[e[1]].count
  /\ \A t \in Threads : threads[t] # Idle /\ threads[t].type = "webhook" =>
       threads[t].transfer \in 1..links[threads[t].order].count

\* The provider cancels no link that holds the price.
CancelledIsUnpaid ==
  \A o \in Orders : links[o].state = "CANCELLED" => links[o].received < Price

Single ==
  Remembered /\ PaidAnswersAreCurrent /\ GrantIsOnRow /\ EventsAreOfTransfers /\ CancelledIsUnpaid

\* Transfers are only added; a cancelled link stays as it is, and it was not paid.
LinkGrows(o) ==
  /\ links'[o].count >= links[o].count
  /\ links'[o].count = links[o].count =>
       links'[o].received = links[o].received /\ links'[o].transfers = links[o].transfers
  /\ links[o].state = "CANCELLED" => links'[o] = links[o]
  /\ links'[o].state = "CANCELLED" =>
       links[o].state = "CANCELLED" \/ links'[o].received < Price

\* Every step only adds to a link.
LEMMA LinksGrow ==
  ASSUME Remembered, [Next]_billingVars, NEW o \in Orders
  PROVE  LinkGrows(o)
<1>1. /\ Sound /\ links \in [Orders -> Link] /\ links[o] \in Link
      /\ links[o].count \in Nat /\ MaxTransfers \in Nat
  BY BillingAssumption DEF Remembered, Sound, BillingTypeOK, Link, BillingAssumption
<1>2. ASSUME NEW amount \in Amounts, Transfer(o, amount)
      PROVE  LinkGrows(o)
  <2>1. PICK paid : links' = [links EXCEPT ![o] = Receive(links[o], paid)]
    BY <1>1, <1>2 DEF Transfer
  <2>2. links'[o] = Receive(links[o], paid) /\ links[o].state = "active"
    BY <1>1, <1>2, <2>1 DEF Transfer
  <2>3. Receive(links[o], paid).count = links[o].count + 1
        /\ Receive(links[o], paid).state = links[o].state
    BY <1>1 DEF Receive, Link
  <2>4. QED  BY <1>1, <2>2, <2>3 DEF LinkGrows
<1>3. CASE LinkExpires(o)
  <2>1. links'[o] = [links[o] EXCEPT !.state = "EXPIRED"] /\ links[o].state = "active"
    BY <1>1, <1>3 DEF LinkExpires
  <2>2. QED  BY <1>1, <2>1 DEF Link, LinkGrows
<1>4. ASSUME NEW t \in Threads, CallProvider(t), threads[t].order = o,
             links'[o] = LinkAfter(threads[t])
      PROVE  LinkGrows(o)
  <2>1. threads[t].type = "create_checkout" /\ threads[t].attempt = 1 => links[o].state = "none"
    BY <1>4 DEF CallProvider, Remembered, CreatedOnce, FirstCreation
  <2>2. \/ links'[o] = links[o]
        \/ links'[o] = [links[o] EXCEPT !.state = "active"] /\ links[o].state = "none"
        \/ /\ links'[o] = [links[o] EXCEPT !.state = "CANCELLED"]
           /\ links[o].state = "active" /\ links[o].received < Price
    BY <1>4, <2>1 DEF LinkAfter
  <2>3. QED  BY <1>1, <2>2 DEF Link, LinkGrows
<1>5. CASE links'[o] = links[o]
  BY <1>1, <1>5 DEF LinkGrows
<1>6. QED  BY <1>1, <1>2, <1>3, <1>4, <1>5, LinkSteps DEF LinkStep

\* What a paid link says is decided by its transfers.
LEMMA PaidReadsTheSame ==
  ASSUME NEW link \in Link, NEW later \in Link, AddsUp(link),
         ReadLink(link).status = "PAID", later.count <= 1, later.count >= link.count,
         later.count = link.count =>
           later.received = link.received /\ later.transfers = link.transfers
  PROVE  ReadLink(later) = ReadLink(link)
<1>1. /\ link.count \in Nat /\ later.count \in Nat /\ link.received \in Nat
      /\ MaxTransfers \in Nat
  BY BillingAssumption DEF Link, BillingAssumption
<1>2. link.received >= Price /\ Price \in Nat \ {0}
  BY PriceAssumption DEF ReadLink, PriceAssumption
<1>3. link.count = 1 /\ later.count = link.count
  BY <1>1, <1>2 DEF AddsUp
<1>4. QED  BY <1>2, <1>3 DEF ReadLink

\* Paid answers stay current as long as there is one transfer.
LEMMA PaidAnswersStayCurrent ==
  ASSUME Single, [Next]_billingVars
  PROVE  PaidAnswersAreCurrent'
<1> SUFFICES ASSUME NEW t \in Threads, threads'[t].job = "answered",
                    threads'[t].answer.status = "PAID", links'[threads'[t].order].count <= 1
             PROVE  threads'[t].answer = ReadLink(links'[threads'[t].order])
  BY DEF PaidAnswersAreCurrent
<1>1. /\ Remembered /\ Sound /\ Sound' /\ threads \in [Threads -> {Idle} \cup Work]
      /\ links \in [Orders -> Link] /\ links' \in [Orders -> Link]
  BY NextIsSound DEF Single, Remembered, Sound, BillingTypeOK
<1>2. CASE threads'[t] = threads[t]
  <2> DEFINE o == threads[t].order
  <2>1. o \in Orders
    BY <1>1, <1>2, BusyIsNotIdle DEF Work
  <2>2. /\ links'[o].count >= links[o].count /\ links[o].count \in Nat
        /\ links'[o].count \in Nat
        /\ links'[o].count = links[o].count =>
             links'[o].received = links[o].received /\ links'[o].transfers = links[o].transfers
    BY <1>1, <2>1, LinksGrow, BillingAssumption DEF LinkGrows, Link, BillingAssumption
  <2>3. threads[t].answer = ReadLink(links[o])
    BY <1>2, <2>2 DEF Single, PaidAnswersAreCurrent
  <2>4. links[o] \in Link /\ links'[o] \in Link /\ AddsUp(links[o])
    BY <1>1, <2>1 DEF Remembered
  <2>5. ReadLink(links'[o]) = ReadLink(links[o])
    <3> HIDE DEF o
    <3>1. ReadLink(links[o]).status = "PAID" /\ links'[o].count <= 1
      BY <1>2, <2>3 DEF o
    <3>2. QED  BY <2>2, <2>4, <3>1, PaidReadsTheSame
  <2>6. QED  BY <1>2, <2>3, <2>5
<1>3. CASE CallProvider(t)
  <2> DEFINE work == threads[t]
             link == LinkAfter(work)
  <2>1. work \in Work /\ work.order \in Orders
    BY <1>1, <1>3, BusyIsNotIdle DEF CallProvider, Work
  <2>2. PICK answer \in {Said("fatal"), ReadLink(link), Said("retryable")} :
          threads' = [threads EXCEPT ![t].job = "answered", ![t].answer = answer]
    BY <1>3 DEF CallProvider
  <2>3. threads'[t].answer = answer /\ threads'[t].order = work.order
    BY <1>1, <2>1, <2>2 DEF Work
  <2>4. links' = [links EXCEPT ![work.order] = link]
    BY <1>3 DEF CallProvider
  <2>5. links'[work.order] = link
    BY <1>1, <2>1, <2>4
  <2>6. answer = ReadLink(link)
    BY <2>2, <2>3 DEF Said
  <2>7. QED  BY <2>3, <2>5, <2>6
<1>4. CASE threads'[t].answer \in {Said(failure) : failure \in Failures}
  BY <1>4 DEF Said, Failures
<1>5. ASSUME NEW o \in Orders, NEW type \in CommandTypes, ClaimCommand(t, o, type)
      PROVE  threads'[t].job = "claimed"
  BY <1>1, <1>5 DEF ClaimCommand
<1>6. threads'[t] # Idle
  BY DEF Idle
<1>7. QED  BY <1>1, <1>2, <1>3, <1>4, <1>5, <1>6, ThreadSteps DEF ThreadMoves

\* A thread goes on with the webhook it serves.
SameWebhook(t) ==
  /\ threads[t] # Idle /\ threads[t].type = "webhook"
  /\ threads'[t].order = threads[t].order /\ threads'[t].transfer = threads[t].transfer

\* What a thread that serves a webhook was given, and by which claim.
LEMMA WebhookThreads ==
  ASSUME Sound, [Next]_billingVars, NEW t \in Threads,
         threads'[t] # Idle, threads'[t].type = "webhook"
  PROVE  \/ SameWebhook(t)
         \/ \E e \in EventKeys : /\ ClaimWebhook(t, e) /\ threads'[t].order = e[1]
                                 /\ threads'[t].transfer = e[2]
<1>1. threads \in [Threads -> {Idle} \cup Work] /\ "webhook" \notin CommandTypes
  BY DEF Sound, BillingTypeOK, CommandTypes
<1>2. ASSUME NEW u \in Threads, NEW work, threads' = [threads EXCEPT ![u] = work], u # t
      PROVE  SameWebhook(t)
  <2>1. threads'[t] = threads[t]
    BY <1>1, <1>2
  <2>2. QED  BY <2>1 DEF SameWebhook
<1>3. ASSUME NEW u \in Threads, NEW e \in EventKeys, ClaimWebhook(u, e), u = t
      PROVE  threads'[t].order = e[1] /\ threads'[t].transfer = e[2]
  BY <1>1, <1>3 DEF ClaimWebhook
<1>4. ASSUME NEW u \in Threads, NEW o \in Orders, NEW type \in CommandTypes,
             ClaimCommand(u, o, type), u = t
      PROVE  FALSE
  BY <1>1, <1>4 DEF ClaimCommand
<1>5. ASSUME NEW answer, threads[t].job # "idle",
             \/ threads' = [threads EXCEPT ![t].job = "answered", ![t].answer = answer]
             \/ threads' = [threads EXCEPT ![t].answer = answer]
      PROVE  SameWebhook(t)
  <2>1. threads[t] \in Work /\ threads[t] # Idle
    BY <1>1, <1>5, BusyIsNotIdle
  <2>2. /\ threads'[t].type = threads[t].type /\ threads'[t].order = threads[t].order
        /\ threads'[t].transfer = threads[t].transfer
    BY <1>1, <1>5, <2>1 DEF Work
  <2>3. QED  BY <2>1, <2>2 DEF SameWebhook
<1>6. threads' # [threads EXCEPT ![t] = Idle]
  BY <1>1
<1>7. ASSUME UNCHANGED threads
      PROVE  SameWebhook(t)
  BY <1>7 DEF SameWebhook
<1>8. ASSUME NEW u \in Threads, ThreadStep(u) \/ ThreadDies(u)
      PROVE  SameWebhook(t)
  <2>1. \/ threads' = [threads EXCEPT ![u] = Idle]
        \/ /\ threads[u].job # "idle"
           /\ \E answer :
                \/ threads' = [threads EXCEPT ![u].job = "answered", ![u].answer = answer]
                \/ threads' = [threads EXCEPT ![u].answer = answer]
    <3>1. CASE CallProvider(u)
      BY <3>1 DEF CallProvider
    <3>2. CASE (\E failure \in Failures : CallFails(u, failure)) \/ CommitFails(u)
      BY <3>2 DEF CallFails, CommitFails
    <3>3. CASE Complete(u) \/ Fail(u) \/ ApplyEvent(u) \/ FailEvent(u) \/ ThreadDies(u)
      BY <3>3 DEF Complete, Fail, ApplyEvent, FailEvent, ThreadDies
    <3>4. QED  BY <1>8, <3>1, <3>2, <3>3 DEF ThreadStep
  <2>2. CASE u = t
    BY <1>5, <1>6, <2>1, <2>2
  <2>3. CASE u # t
    BY <1>2, <2>1, <2>3
  <2>4. QED  BY <2>2, <2>3
<1>9. QED
  <2>1. CASE Claims
    <3>1. ASSUME NEW u \in Threads, NEW o \in Orders, NEW type \in CommandTypes,
                 ClaimCommand(u, o, type)
          PROVE  SameWebhook(t)
      BY <1>2, <1>4, <3>1 DEF ClaimCommand
    <3>2. ASSUME NEW u \in Threads, NEW e \in EventKeys, ClaimWebhook(u, e), u # t
          PROVE  SameWebhook(t)
      BY <1>2, <3>2 DEF ClaimWebhook
    <3>3. QED  BY <1>3, <2>1, <3>1, <3>2 DEF Claims
  <2>2. \/ UNCHANGED threads \/ Claims
        \/ \E u \in Threads : ThreadStep(u) \/ ThreadDies(u)
    BY DEF Next, Requests, Environment, WorkerTransactions, CreateCheckout, RequestCancel,
       RequestRefund, AdminReview, AdminQuery, ChangeEligibility, Transfer, LinkExpires,
       PassDeadline, RetryActivation, ExpireLocalCheckout, ScheduleReconciliation,
       DeliverWebhook, billingVars
  <2>3. QED  BY <1>7, <1>8, <2>1, <2>2

\* Events and threads stay those of transfers that were made.
LEMMA EventsStayOfTransfers ==
  ASSUME Single, [Next]_billingVars
  PROVE  EventsAreOfTransfers'
<1>1. /\ Remembered /\ Sound /\ EventsAreOfTransfers /\ events \in [EventKeys -> Event]
      /\ links \in [Orders -> Link] /\ MaxTransfers \in Nat /\ threads \in [Threads -> {Idle} \cup Work]
  BY BillingAssumption DEF Single, Remembered, Sound, BillingTypeOK, BillingAssumption
<1>2. \A o \in Orders : /\ links'[o].count >= links[o].count /\ links[o].count \in Nat
                        /\ links'[o].count \in Nat
  <2>1. links' \in [Orders -> Link]
    BY <1>1, NextIsSound DEF Sound, BillingTypeOK
  <2>2. QED  BY <1>1, <2>1, LinksGrow DEF LinkGrows, Link
<1>3. ASSUME NEW e \in EventKeys, events'[e].status # "absent"
      PROVE  e[2] <= links'[e[1]].count
  <2>1. e[1] \in Orders /\ e[2] \in 1..MaxTransfers
    BY DEF EventKeys
  <2>2. \/ events[e].status # "absent"
        \/ e[2] <= links[e[1]].count
    <3>1. ASSUME NEW d \in EventKeys, DeliverWebhook(d), events[e].status = "absent"
          PROVE  e[2] <= links[e[1]].count
      BY <1>1, <1>3, <3>1 DEF DeliverWebhook
    <3>2. ASSUME NEW t \in Threads, NEW d \in EventKeys, ClaimWebhook(t, d)
          PROVE  events[e].status # "absent"
      BY <1>1, <1>3, <3>2 DEF ClaimWebhook, ActiveStates
    <3>3. ASSUME NEW t \in Threads, ApplyEvent(t) \/ FailEvent(t)
          PROVE  events[e].status # "absent" \/ e[2] <= links[e[1]].count
      <4>1. threads[t] \in Work /\ threads[t] # Idle /\ threads[t].type = "webhook"
        BY <1>1, <3>3, BusyIsNotIdle DEF ApplyEvent, FailEvent
      <4>2. threads[t].transfer <= links[threads[t].order].count
        BY <1>1, <4>1 DEF EventsAreOfTransfers
      <4>3. PICK status : \/ UNCHANGED events
                          \/ events' = [events EXCEPT ![<<threads[t].order, threads[t].transfer>>].status = status]
        BY <3>3 DEF ApplyEvent, FailEvent
      <4>4. CASE e = <<threads[t].order, threads[t].transfer>>
        BY <4>2, <4>4
      <4>5. CASE e # <<threads[t].order, threads[t].transfer>>
        BY <1>1, <1>3, <4>3, <4>5
      <4>6. QED  BY <4>4, <4>5
    <3>4. CASE UNCHANGED events
      BY <1>3, <3>4
    <3>5. \/ UNCHANGED events
          \/ \E d \in EventKeys : DeliverWebhook(d)
          \/ \E t \in Threads : \/ ApplyEvent(t) \/ FailEvent(t)
                                \/ \E d \in EventKeys : ClaimWebhook(t, d)
      BY DEF Next, Requests, Environment, WorkerTransactions, ThreadStep, ThreadDies, Claims,
           CreateCheckout, RequestCancel, RequestRefund, AdminReview, AdminQuery,
           ChangeEligibility, Transfer, LinkExpires, PassDeadline, RetryActivation,
           ExpireLocalCheckout, ScheduleReconciliation, CallProvider, CallFails, Complete,
           Fail, CommitFails, ClaimCommand, billingVars
    <3>6. QED  BY <3>1, <3>2, <3>3, <3>4, <3>5
  <2>3. QED  BY <1>1, <1>2, <2>1, <2>2 DEF EventsAreOfTransfers
<1>4. ASSUME NEW t \in Threads, threads'[t] # Idle, threads'[t].type = "webhook"
      PROVE  threads'[t].transfer \in 1..links'[threads'[t].order].count
  <2>1. CASE SameWebhook(t)
    <3>1. threads[t].order \in Orders
      BY <1>1, <2>1 DEF SameWebhook, Work
    <3>2. threads[t].transfer \in 1..links[threads[t].order].count
      BY <1>1, <2>1 DEF SameWebhook, EventsAreOfTransfers
    <3>3. QED  BY <1>2, <2>1, <3>1, <3>2 DEF SameWebhook
  <2>2. ASSUME NEW e \in EventKeys, ClaimWebhook(t, e), threads'[t].order = e[1],
               threads'[t].transfer = e[2]
        PROVE  threads'[t].transfer \in 1..links'[threads'[t].order].count
    <3>1. e[1] \in Orders /\ e[2] \in 1..MaxTransfers
      BY DEF EventKeys
    <3>2. e[2] <= links[e[1]].count
      BY <1>1, <2>2 DEF EventsAreOfTransfers, ClaimWebhook, ActiveStates
    <3>3. QED  BY <1>1, <1>2, <2>2, <3>1, <3>2
  <2>3. QED  BY <1>1, <1>4, <2>1, <2>2, WebhookThreads
<1>5. QED  BY <1>3, <1>4 DEF EventsAreOfTransfers

\* Activation grants once: what is granted is on the row.
LEMMA ActivationGrantsOnce ==
  ASSUME NEW ord \in OrderRow, Granted(ord)
  PROVE  /\ Granted(Activate(ord)) /\ Granted(RetryActivationOf(ord))
         /\ RecordPaid(ord) \in OrderRow /\ Granted(RecordPaid(ord))
<1>1. Granted(Activate(ord))
  <2>1. CASE ord.row = "applied"
    BY <2>1 DEF Activate
  <2>2. CASE ord.row # "applied"
    <3>1. ord.granted = 0
      BY <2>2 DEF Granted, OrderRow
    <3>2. QED
      BY <3>1 DEF Activate, ApplyCreditPack, MarkApplied, MarkReview, Granted, OrderRow
  <2>3. QED  BY <2>1, <2>2
<1>2. Granted(RetryActivationOf(ord))
  BY <1>1 DEF RetryActivationOf
<1>3. RecordPaid(ord) \in OrderRow /\ Granted(RecordPaid(ord))
  BY RecordsGrantNothing DEF RecordPaid, Granted, OrderRow
<1>4. QED  BY <1>1, <1>2, <1>3

\* Nor does an answer grant twice, if an exact on-time payment is all that answers say
\* of an order that was granted: it leaves the row alone.
LEMMA ServiceGrantsOnce ==
  ASSUME NEW ord \in OrderRow, Granted(ord), NEW answer, NEW signed,
         answer.status = "PAID" /\ ord.granted > 0 =>
           SaysPaidInTime(answer) /\ ord.checkout # "cancelled" /\ signed = Price
  PROVE  /\ Granted(ApplyOrderResult(ord, answer))
         /\ Granted(ApplyVerified(ord, answer, signed))
<1>1. Granted(Activate(RecordPaid(ord)))
  BY ActivationGrantsOnce
<1>2. ASSUME ~(ord.granted > 0)
      PROVE  Granted(MarkReview(ord)) /\ Granted(MarkReview(RecordPaid(ord)))
  BY <1>2 DEF MarkReview, RecordPaid, Granted, OrderRow
<1>3. Granted(ApplyOrderResult(ord, answer))
  <2>1. CASE ord.granted > 0 /\ answer.status = "PAID"
    BY <1>1, <2>1 DEF ApplyOrderResult, SaysPaidInTime, OnTime
  <2>2. CASE ~(ord.granted > 0)
    BY <1>1, <1>2, <2>2 DEF ApplyOrderResult
  <2>3. CASE answer.status # "PAID"
    BY <2>3 DEF ApplyOrderResult
  <2>4. QED  BY <2>1, <2>2, <2>3
<1>4. QED  BY <1>2, <1>3 DEF ApplyVerified

\* What a paid answer says to an order that was granted, after one transfer.
LEMMA PaidAgain ==
  ASSUME Single, NEW t \in Threads, threads[t].job = "answered",
         threads[t].answer.status = "PAID", links[threads[t].order].count <= 1,
         orders[threads[t].order].granted > 0
  PROVE  /\ SaysPaidInTime(threads[t].answer)
         /\ orders[threads[t].order].checkout # "cancelled"
         /\ threads[t].type = "webhook" =>
              links[threads[t].order].transfers[threads[t].transfer].amount = Price
<1> DEFINE o == threads[t].order
<1>1. /\ Remembered /\ Sound /\ threads[t] \in Work /\ o \in Orders
  BY WorkIsTyped, BusyIsNotIdle DEF Single, Remembered, Sound, Work
<1>2. /\ links[o] \in Link /\ AddsUp(links[o]) /\ links[o].count \in Nat
      /\ MaxTransfers \in Nat
  BY <1>1, BillingAssumption DEF Remembered, Sound, BillingTypeOK, Link, BillingAssumption
<1>3. PaidInTime(links[o])
  BY <1>1 DEF Single, GrantIsOnRow
<1>4. links[o].count = 1 /\ links[o].received = Price /\ links[o].transfers[1].late = FALSE
      /\ links[o].transfers[1].amount = Price
  BY <1>2, <1>3 DEF PaidInTime, AddsUp
<1>5. threads[t].answer = ReadLink(links[o])
  BY DEF Single, PaidAnswersAreCurrent
<1>6. SaysPaidInTime(threads[t].answer)
  <2>1. ReadLink(links[o]).amount = Price
    BY <1>4 DEF ReadLink
  <2>2. ReadLink(links[o]).single
    BY <1>4 DEF ReadLink
  <2>3. ~ReadLink(links[o]).late
    BY <1>4 DEF ReadLink
  <2>4. QED  BY <1>5, <2>1, <2>2, <2>3 DEF SaysPaidInTime
<1>7. orders[o].checkout # "cancelled"
  BY <1>1, <1>4, PriceAssumption
     DEF Single, CancelledIsUnpaid, Remembered, CancelledAtProvider, PriceAssumption
<1>8. ASSUME threads[t].type = "webhook"
      PROVE  links[o].transfers[threads[t].transfer].amount = Price
  <2>1. threads[t].transfer \in 1..links[o].count
    BY <1>8, BusyIsNotIdle DEF Single, EventsAreOfTransfers
  <2>2. threads[t].transfer = 1
    BY <1>4, <2>1
  <2>3. QED  BY <1>4, <2>2
<1>9. QED  BY <1>6, <1>7, <1>8

\* The columns that requests, the clock and the provider set grant nothing.
LEMMA ColumnsKeepGrants ==
  ASSUME NEW ord \in OrderRow, Granted(ord)
  PROVE  /\ \A c : Granted([ord EXCEPT !.checkout = c])
         /\ Granted([ord EXCEPT !.activation = "review_required"])
         /\ Granted([ord EXCEPT !.refund = TRUE])
         /\ Granted([ord EXCEPT !.overdue = TRUE])
         /\ Granted([ord EXCEPT !.eligible = ~@])
BY DEF Granted, OrderRow

\* Every step keeps a grant on its row, as long as there is one transfer.
LEMMA GrantStaysOnRow ==
  ASSUME Single, [Next]_billingVars
  PROVE  GrantIsOnRow'
<1> SUFFICES ASSUME NEW o \in Orders, links'[o].count <= 1
             PROVE  /\ Granted(orders'[o])
                    /\ orders'[o].granted > 0 => PaidInTime(links'[o])
  BY DEF GrantIsOnRow, Granted, PaidInTime
<1>1. Remembered /\ Sound /\ orders[o] \in OrderRow /\ links \in [Orders -> Link] /\ Sound'
  BY NextIsSound DEF Single, Remembered, Sound, BillingTypeOK
<1>2. links[o].count <= 1
  <2>1. links[o].count \in Nat /\ links'[o].count \in Nat
    BY <1>1 DEF Sound, BillingTypeOK, Link
  <2>2. QED  BY <1>1, <2>1, LinksGrow DEF LinkGrows
<1>3. Granted(orders[o]) /\ (orders[o].granted > 0 => PaidInTime(links[o]))
  BY <1>2 DEF Single, GrantIsOnRow
<1>4. orders'[o].granted > 0 => PaidInTime(links'[o])
  <2>1. CASE orders'[o].granted = orders[o].granted
    BY <1>1, <1>3, <2>1, LinksKeep
  <2>2. CASE orders'[o].granted # orders[o].granted
    BY <1>1, <2>2, AdvancesAreEarned, LinksKeep DEF Advances
  <2>3. QED  BY <2>1, <2>2
<1>5. ASSUME NEW t \in Threads, Complete(t), threads[t].order = o,
             orders'[o] = OrderAfterAnswer(orders[o], threads[t])
      PROVE  Granted(orders'[o])
  <2> DEFINE answer == threads[t].answer
             seen == [orders[o] EXCEPT !.checkout = CheckoutAfter(@, threads[t].type, answer.status)]
  <2>1. seen \in OrderRow
    BY <1>1, CheckoutIsTyped, ColumnsAreTyped DEF OrderRow
  <2>2. /\ seen.granted = orders[o].granted /\ seen.row = orders[o].row
        /\ seen.checkout = CheckoutAfter(orders[o].checkout, threads[t].type, answer.status)
    BY <1>1 DEF OrderRow
  <2>3. orders'[o] = ApplyOrderResult(seen, answer)
    BY <1>5 DEF OrderAfterAnswer
  <2>4. ASSUME answer.status = "PAID", seen.granted > 0
        PROVE  SaysPaidInTime(answer) /\ seen.checkout # "cancelled"
    BY <1>2, <1>5, <2>2, <2>4, PaidAgain DEF Complete, CheckoutAfter
  <2> HIDE DEF seen, answer
  <2>5. Granted(seen)
    BY <1>3, <2>2 DEF Granted
  <2>6. QED
    <3> DEFINE signed == Price
    <3>1. answer.status = "PAID" /\ seen.granted > 0 =>
            SaysPaidInTime(answer) /\ seen.checkout # "cancelled" /\ signed = Price
      BY <2>4
    <3> HIDE DEF signed
    <3>2. QED  BY <2>1, <2>3, <2>5, <3>1, ServiceGrantsOnce
<1>6. ASSUME NEW t \in Threads, ApplyEvent(t), threads[t].order = o,
             orders'[o] = ApplyVerified(orders[o], threads[t].answer,
                                        links[o].transfers[threads[t].transfer].amount)
      PROVE  Granted(orders'[o])
  <2> DEFINE answer == threads[t].answer
             signed == links[o].transfers[threads[t].transfer].amount
  <2>1. answer.status = "PAID" /\ orders[o].granted > 0 =>
          SaysPaidInTime(answer) /\ orders[o].checkout # "cancelled" /\ signed = Price
    BY <1>2, <1>6, PaidAgain DEF ApplyEvent
  <2>2. orders'[o] = ApplyVerified(orders[o], answer, signed)
    BY <1>6
  <2> HIDE DEF answer, signed
  <2>3. QED  BY <1>1, <1>3, <2>1, <2>2, ServiceGrantsOnce
<1>7. Granted(RetryActivationOf(orders[o]))
  BY <1>1, <1>3, ActivationGrantsOnce
<1>8. Granted(orders'[o])
  <2>1. OrderStep(o)
    BY <1>1, OrderSteps
  <2>2. CASE \/ \E t \in Threads :
                  /\ Complete(t) /\ threads[t].order = o
                  /\ orders'[o] = OrderAfterAnswer(orders[o], threads[t])
             \/ \E t \in Threads :
                  /\ ApplyEvent(t) /\ threads[t].order = o
                  /\ orders'[o] = ApplyVerified(orders[o], threads[t].answer,
                                      links[o].transfers[threads[t].transfer].amount)
    BY <1>5, <1>6, <2>2
  <2>3. CASE \/ orders'[o] = orders[o]
             \/ \E c \in CheckoutStates : orders'[o] = [orders[o] EXCEPT !.checkout = c]
             \/ orders'[o] = [orders[o] EXCEPT !.activation = "review_required"]
             \/ orders'[o] = [orders[o] EXCEPT !.refund = TRUE]
             \/ orders'[o] = [orders[o] EXCEPT !.overdue = TRUE]
             \/ orders'[o] = [orders[o] EXCEPT !.eligible = ~@]
    BY <1>1, <1>3, <2>3, ColumnsKeepGrants
  <2>4. QED  BY <1>7, <2>1, <2>2, <2>3 DEF OrderStep
<1>9. QED  BY <1>4, <1>8

\* Every step keeps what is known of orders with one transfer.
LEMMA SingleIsKept == Single /\ [Next]_billingVars => Single'
<1> SUFFICES ASSUME Single, [Next]_billingVars PROVE Single'
  OBVIOUS
<1>1. Remembered /\ Remembered' /\ Sound /\ links \in [Orders -> Link]
  BY NextRemembers DEF Single, Remembered, Sound, BillingTypeOK
<1>2. CancelledIsUnpaid'
  <2> SUFFICES ASSUME NEW o \in Orders, links'[o].state = "CANCELLED"
               PROVE  links'[o].received < Price
    BY DEF CancelledIsUnpaid
  <2>1. LinkGrows(o)
    BY <1>1, LinksGrow
  <2>2. QED  BY <2>1 DEF LinkGrows, Single, CancelledIsUnpaid
<1>3. QED
  BY <1>1, <1>2, PaidAnswersStayCurrent, GrantStaysOnRow, EventsStayOfTransfers DEF Single

\* An order is granted a second time only after a second transfer to its link: whatever
\* webhooks, queries, retries and late threads apply its payment, _activate_order finds
\* the activation row of the grant.
THEOREM SecondGrantNeedsSecondTransfer == Spec => []PaidOnceGrantedOnce
<1>1. Init => Single
  BY InitRemembers DEF Init, Single, PaidAnswersAreCurrent, GrantIsOnRow, EventsAreOfTransfers,
     CancelledIsUnpaid, Granted, NoOrder, NoLink, NoEvent, Idle
<1>2. Single => PaidOnceGrantedOnce
  <2> SUFFICES ASSUME Single, NEW o \in Orders, links[o].count <= 1 PROVE orders[o].granted <= 1
    BY DEF PaidOnceGrantedOnce
  <2>1. links[o].count \in 0..MaxTransfers /\ MaxTransfers \in Nat
    BY BillingAssumption DEF Single, Remembered, Sound, BillingTypeOK, Link, BillingAssumption
  <2>2. ~(links[o].count > 1)
    BY <2>1
  <2>3. QED  BY <2>2 DEF Single, GrantIsOnRow, Granted
<1>3. QED  BY <1>1, <1>2, SingleIsKept, PTL DEF Spec
-----------------------------------------------------------------------------
(***************************************************************************)
(* The loop of the worker.                                                 *)
(***************************************************************************)

\* A step of the loop, or of the world around it, is a step of Billing or a stutter.
LEMMA LoopStep ==
  ASSUME BillingTypeOK, [Loop \/ Outside]_workerVars
  PROVE  [Next]_billingVars
<1>1. Worker \in Threads
  BY WorkerAssumption DEF WorkerAssumption
<1>2. CASE TakeWebhook \/ TakeCommand
  BY <1>1, <1>2 DEF TakeWebhook, TakeCommand, Next, Claims
<1>3. CASE NoWebhookDue \/ NoCommandDue \/ LeaseRunsOut \/ Releases
  BY <1>3 DEF NoWebhookDue, NoCommandDue, LeaseRunsOut, Releases, PassOn
<1>4. CASE Activations \/ Expiries \/ Schedules
  BY <1>4 DEF Activations, Expiries, Schedules, PassOn, Next, WorkerTransactions
<1>5. CASE WorkerCalls
  BY <1>1, <1>5 DEF WorkerCalls, Next
<1>6. CASE TurnFails
  <2>1. CASE threads[Worker] = Idle
    BY <1>1, <1>6, <2>1 DEF TurnFails, BillingTypeOK, billingVars
  <2>2. CASE threads[Worker] # Idle
    BY <1>1, <1>6, <2>2 DEF TurnFails, ThreadDies, Next
  <2>3. QED  BY <2>1, <2>2
<1>7. CASE Outside
  BY <1>7 DEF Outside, Next
<1>8. CASE UNCHANGED workerVars
  BY <1>8 DEF workerVars
<1>9. QED  BY <1>2, <1>3, <1>4, <1>5, <1>6, <1>7, <1>8 DEF Loop

\* What process_next does, one queue after the other and one thread of it, is a behaviour
\* of the billing rows under any number of threads, in any order and with any failures.
THEOREM LoopIsBilling == WorkerSpec => Spec
<1>1. WorkerInit => Init
  BY DEF WorkerInit
<1>2. Sound /\ [Loop \/ Outside]_workerVars => [Next]_billingVars
  BY LoopStep DEF Sound
<1>3. Sound /\ [Loop \/ Outside]_workerVars => Sound'
  BY <1>2, NextIsSound
<1>4. QED  BY <1>1, <1>2, <1>3, InitIsSound, PTL DEF WorkerSpec, Spec

AtAQueue == at \in Queues /\ expired \in BOOLEAN

\* The loop is always at one of its six queues.
THEOREM LoopTypeCorrect == WorkerSpec => []WorkerTypeOK
<1>1. WorkerInit => AtAQueue
  BY DEF WorkerInit, AtAQueue, Queues
<1>2. AtAQueue /\ [Loop \/ Outside]_workerVars => AtAQueue'
  <2> SUFFICES ASSUME AtAQueue, [Loop \/ Outside]_workerVars
               PROVE  AtAQueue'
    OBVIOUS
  <2> USE DEF AtAQueue
  <2>1. CASE TakeWebhook \/ NoWebhookDue \/ TakeCommand \/ NoCommandDue
    BY <2>1
       DEF TakeWebhook, NoWebhookDue, TakeCommand, NoCommandDue, Finds, PassOn, Queues
  <2>2. CASE Activations \/ Expiries \/ Schedules \/ Releases
    BY <2>2 DEF Activations, Expiries, Schedules, Releases, Finds, PassOn, Queues
  <2>3. CASE WorkerCalls \/ TurnFails \/ LeaseRunsOut \/ Outside
    BY <2>3 DEF WorkerCalls, TurnFails, LeaseRunsOut, Outside, Queues
  <2>4. CASE UNCHANGED workerVars
    BY <2>4 DEF workerVars
  <2>5. QED  BY <2>1, <2>2, <2>3, <2>4 DEF Loop
<1>3. BillingTypeOK /\ AtAQueue => WorkerTypeOK
  BY DEF WorkerTypeOK, AtAQueue
<1>4. WorkerSpec => []AtAQueue
  BY <1>1, <1>2, PTL DEF WorkerSpec
<1>5. QED  BY <1>3, <1>4, LoopIsBilling, BillingTypeCorrect, PTL

\* So the loop keeps whatever holds of the rows under all threads: the turns that fail,
\* the queues it does not come to and the leases it leaves do not endanger an order.
THEOREM LoopKeepsOrders ==
  WorkerSpec => /\ [](BillingTypeOK /\ AppliedIsPaid /\ CancelledAtProvider)
                /\ []ReconciliationGoesOn
                /\ ClosedStaysClosed /\ SettledEventIsFinal /\ GrantIsEarned
  BY LoopIsBilling, BillingTypeCorrect, ActivationIsPaid, CancelledMeansCancelled,
     ReconciliationIsNeverDropped, CheckoutsStayClosed, EventsAreDecidedOnce, GrantsAreEarned,
     PTL
=============================================================================
