-------------------------- MODULE EmailOutboxProofs --------------------------
(***************************************************************************)
(* Proofs that the tokens of the outbox fence its deliveries, for any      *)
(* number of e-mails, delivering threads and attempts.                     *)
(***************************************************************************)
EXTENDS EmailOutbox, TLAPS

Statuses == {"absent", "pending", "retry", "sending", "sent", "failed", "gone"}
EmailRow ==
  [status: Statuses, payload: BOOLEAN, attempts: 0..MaxDeliveries, overdue: BOOLEAN]
Delivery == [st: {"claimed", "taken", "refused"}, row: Emails, token: 1..MaxDeliveries]

EmailTypeOK ==
  /\ email \in [Emails -> EmailRow]
  /\ sender \in [Senders -> {NothingHeld} \cup Delivery]

\* A token was drawn when its attempt was counted, and by one thread only.
Holds(s, m) == sender[s] # NothingHeld /\ sender[s].row = m
TokensAreDrawn ==
  /\ \A s \in Senders, m \in Emails : Holds(s, m) => sender[s].token <= email[m].attempts
  /\ \A s, u \in Senders, m \in Emails :
       Holds(s, m) /\ Holds(u, m) /\ sender[s].token = sender[u].token => s = u

\* The inductive invariant.
Fenced == EmailTypeOK /\ TokensAreDrawn

-----------------------------------------------------------------------------
\* An e-mail that was sent, given up or deleted is not taken up again; nothing but the
\* deletion follows, whatever answer comes late.
SettledIsFinal ==
  \A m \in Emails : Settled(m) => email'[m].status \in {email[m].status, "gone"}

\* An e-mail is given up only when its attempts are used up, or when there is nothing
\* to send.
GivenUpInTime ==
  \A m \in Emails : email[m].status # "failed" /\ email'[m].status = "failed" =>
    email[m].attempts = MaxDeliveries \/ ~email[m].payload

\* What a step may do to the row of an e-mail.
RowStep(m) ==
  \/ email'[m] = email[m]
  \/ email[m] = NotWritten
  \/ email'[m].status = "gone"
  \/ email[m].status \notin {"absent", "gone"} /\ email'[m] = [email[m] EXCEPT !.payload = TRUE]
  \/ email[m].status = "sending" /\ email'[m] = [email[m] EXCEPT !.overdue = TRUE]
  \/ email'[m] = Swept(m)
  \/ Deliverable(m) /\ \E s \in Senders : ClaimEmailDelivery(s, m)
  \/ \E s \in Senders : /\ Holds(s, m) /\ HoldsClaim(s)
                        /\ email'[m].status = Outcome(s)

\* Every step changes a row in one of these ways.
LEMMA RowSteps ==
  ASSUME EmailTypeOK, [EmailNext]_emailVars, NEW m \in Emails
  PROVE  RowStep(m)
<1>1. email \in [Emails -> EmailRow] /\ sender \in [Senders -> {NothingHeld} \cup Delivery]
  BY DEF EmailTypeOK
<1>2. ASSUME NEW n \in Emails, n # m, NEW row, email' = [email EXCEPT ![n] = row]
      PROVE  email'[m] = email[m]
  BY <1>1, <1>2
<1>3. ASSUME NEW n \in Emails, NEW payload \in BOOLEAN, CreateEmailDelivery(n, payload)
      PROVE  RowStep(m)
  <2>1. CASE n = m
    BY <1>3, <2>1 DEF CreateEmailDelivery, RowStep
  <2>2. CASE n # m
    BY <1>1, <1>3, <2>2 DEF CreateEmailDelivery, RowStep
  <2>3. QED  BY <2>1, <2>2
<1>4. ASSUME NEW n \in Emails, StorePayloadIfMissing(n) \/ ClaimIsOverdue(n) \/ Purge(n)
      PROVE  RowStep(m)
  <2>1. CASE n = m
    <3>1. CASE StorePayloadIfMissing(m)
      BY <1>1, <3>1 DEF StorePayloadIfMissing, RowStep
    <3>2. CASE ClaimIsOverdue(m)
      BY <1>1, <3>2 DEF ClaimIsOverdue, RowStep
    <3>3. CASE Purge(m)
      BY <1>1, <3>3 DEF Purge, RowStep, EmailRow
    <3>4. QED  BY <1>4, <2>1, <3>1, <3>2, <3>3
  <2>2. CASE n # m
    BY <1>1, <1>4, <2>2 DEF StorePayloadIfMissing, ClaimIsOverdue, Purge, RowStep
  <2>3. QED  BY <2>1, <2>2
<1>5. ASSUME NEW s \in Senders, NEW n \in Emails, ClaimEmailDelivery(s, n)
      PROVE  RowStep(m)
  <2>1. CASE n = m
    BY <1>5, <2>1 DEF ClaimEmailDelivery, RowStep
  <2>2. CASE n # m
    BY <1>1, <1>5, <2>2 DEF ClaimEmailDelivery, RowStep
  <2>3. QED  BY <2>1, <2>2
<1>6. ASSUME NEW s \in Senders, FinishEmailDelivery(s)
      PROVE  RowStep(m)
  <2> DEFINE n == sender[s].row
  <2>1. sender[s] \in Delivery /\ sender[s] # NothingHeld
    BY <1>1, <1>6 DEF FinishEmailDelivery, NothingHeld, Delivery
  <2>2. CASE HoldsClaim(s) /\ n = m
    <3>1. email[m] \in EmailRow /\ n \in Emails
      BY <1>1, <2>1 DEF Delivery
    <3>2. email' = [email EXCEPT ![m].status = Outcome(s), ![m].overdue = FALSE]
      BY <1>6, <2>2 DEF FinishEmailDelivery
    <3>3. email'[m].status = Outcome(s)
      BY <1>1, <3>1, <3>2 DEF EmailRow
    <3>4. QED  BY <2>1, <2>2, <3>3 DEF RowStep, Holds
  <2>3. CASE ~(HoldsClaim(s) /\ n = m)
    <3>1. email'[m] = email[m]
      BY <1>1, <1>6, <2>1, <2>3 DEF FinishEmailDelivery, Delivery
    <3>2. QED  BY <3>1 DEF RowStep
  <2>4. QED  BY <2>2, <2>3
<1>7. CASE Sweep
  BY <1>7 DEF Sweep, RowStep
<1>8. CASE UNCHANGED email
  BY <1>8 DEF RowStep
<1>9. QED
  BY <1>3, <1>4, <1>5, <1>6, <1>7, <1>8
     DEF EmailNext, SenderActs, SenderDies, CallMailServer, emailVars

-----------------------------------------------------------------------------
\* Types

LEMMA EmailTypesStart == EmailInit => EmailTypeOK
  BY EmailAssumption DEF EmailInit, EmailTypeOK, NotWritten, EmailRow, Statuses

\* What the sweep makes of a row.
LEMMA SweptRow ==
  ASSUME EmailTypeOK, NEW m \in Emails
  PROVE  /\ Swept(m) \in EmailRow
         /\ Swept(m).attempts = email[m].attempts
         /\ Swept(m).status = "failed" =>
              \/ email[m].status = "failed"
              \/ ~email[m].payload
              \/ email[m].attempts = MaxDeliveries
<1>1. email[m] \in EmailRow
  BY DEF EmailTypeOK
<1>2. CASE email[m].status = "sending" /\ email[m].overdue
  <2> DEFINE status == IF email[m].attempts < MaxDeliveries THEN "retry" ELSE "failed"
  <2>1. Swept(m) = [email[m] EXCEPT !.overdue = FALSE, !.status = status]
    BY <1>2 DEF Swept
  <2>2. status \in Statuses
    BY DEF Statuses
  <2>3. Swept(m) \in EmailRow
    BY <1>1, <2>1, <2>2 DEF EmailRow
  <2>4. Swept(m).attempts = email[m].attempts /\ Swept(m).status = status
    BY <1>1, <2>1 DEF EmailRow
  <2>5. email[m].attempts < MaxDeliveries \/ email[m].attempts = MaxDeliveries
    BY <1>1, EmailAssumption DEF EmailRow
  <2>6. QED  BY <2>3, <2>4, <2>5
<1>3. CASE ~(email[m].status = "sending" /\ email[m].overdue)
  BY <1>1, <1>3 DEF Swept, EmailRow, Statuses
<1>4. QED  BY <1>2, <1>3

LEMMA EmailTypesStep ==
  ASSUME EmailTypeOK, [EmailNext]_emailVars
  PROVE  EmailTypeOK'
<1> USE EmailAssumption DEF EmailTypeOK
<1>1. \A s \in Senders : sender[s] \in {NothingHeld} \cup Delivery
  OBVIOUS
<1>2. ASSUME NEW m \in Emails, NEW payload \in BOOLEAN, CreateEmailDelivery(m, payload)
      PROVE  EmailTypeOK'
  BY <1>2 DEF CreateEmailDelivery, EmailRow, Statuses
<1>3. ASSUME NEW m \in Emails, StorePayloadIfMissing(m) \/ ClaimIsOverdue(m) \/ Purge(m)
      PROVE  EmailTypeOK'
  <2>1. CASE StorePayloadIfMissing(m)
    BY <2>1 DEF StorePayloadIfMissing, EmailRow
  <2>2. CASE ClaimIsOverdue(m)
    BY <2>2 DEF ClaimIsOverdue, EmailRow
  <2>3. CASE Purge(m)
    BY <2>3 DEF Purge, EmailRow, Statuses
  <2>4. QED  BY <1>3, <2>1, <2>2, <2>3
<1>4. ASSUME NEW s \in Senders, NEW m \in Emails, ClaimEmailDelivery(s, m)
      PROVE  EmailTypeOK'
  <2>1. email[m] \in EmailRow /\ email[m].attempts + 1 \in 1..MaxDeliveries
    BY <1>4 DEF ClaimEmailDelivery, Deliverable, EmailRow
  <2>2. email' \in [Emails -> EmailRow]
    BY <1>4, <2>1 DEF ClaimEmailDelivery, EmailRow, Statuses
  <2>3. sender' \in [Senders -> {NothingHeld} \cup Delivery]
    BY <1>4, <2>1 DEF ClaimEmailDelivery, Delivery
  <2>4. QED  BY <2>2, <2>3
<1>5. ASSUME NEW s \in Senders, SenderActs(s) \/ SenderDies(s)
      PROVE  EmailTypeOK'
  <2>1. sender' \in [Senders -> {NothingHeld} \cup Delivery]
    BY <1>1, <1>5
       DEF SenderActs, SenderDies, CallMailServer, FinishEmailDelivery, Delivery, NothingHeld
  <2>2. CASE FinishEmailDelivery(s)
    <3>1. sender[s] \in Delivery
      BY <1>1, <2>2 DEF FinishEmailDelivery, NothingHeld
    <3>2. Outcome(s) \in Statuses
      BY DEF Outcome, Statuses
    <3>3. email' \in [Emails -> EmailRow]
      BY <2>2, <3>1, <3>2 DEF FinishEmailDelivery, Delivery, EmailRow
    <3>4. QED  BY <2>1, <3>3
  <2>3. CASE UNCHANGED email
    BY <2>1, <2>3
  <2>4. QED  BY <1>5, <2>2, <2>3 DEF SenderActs, SenderDies, CallMailServer
<1>6. CASE Sweep
  BY <1>6, SweptRow DEF Sweep
<1>7. CASE UNCHANGED emailVars
  BY <1>7 DEF emailVars
<1>8. QED  BY <1>2, <1>3, <1>4, <1>5, <1>6, <1>7 DEF EmailNext

-----------------------------------------------------------------------------
\* Tokens

\* No step takes an attempt back, and no step but a claim counts one.
LEMMA AttemptsGrow ==
  ASSUME EmailTypeOK, EmailTypeOK', [EmailNext]_emailVars, NEW m \in Emails
  PROVE  email'[m].attempts >= email[m].attempts
<1>1. email[m] \in EmailRow /\ email'[m] \in EmailRow /\ email \in [Emails -> EmailRow]
  BY DEF EmailTypeOK
<1> USE <1>1 DEF EmailRow
<1>2. ASSUME NEW n \in Emails, NEW payload \in BOOLEAN, CreateEmailDelivery(n, payload)
      PROVE  email'[m].attempts >= email[m].attempts
  BY <1>2 DEF CreateEmailDelivery
<1>3. ASSUME NEW n \in Emails, StorePayloadIfMissing(n) \/ ClaimIsOverdue(n) \/ Purge(n)
      PROVE  email'[m].attempts >= email[m].attempts
  BY <1>3 DEF StorePayloadIfMissing, ClaimIsOverdue, Purge
<1>4. ASSUME NEW s \in Senders, NEW n \in Emails, ClaimEmailDelivery(s, n)
      PROVE  email'[m].attempts >= email[m].attempts
  BY <1>4 DEF ClaimEmailDelivery
<1>5. ASSUME NEW s \in Senders, FinishEmailDelivery(s)
      PROVE  email'[m].attempts >= email[m].attempts
  BY <1>5 DEF FinishEmailDelivery
<1>6. CASE Sweep
  BY <1>6, SweptRow DEF Sweep
<1>7. CASE UNCHANGED email
  BY <1>7
<1>8. QED
  BY <1>2, <1>3, <1>4, <1>5, <1>6, <1>7
     DEF EmailNext, SenderActs, SenderDies, CallMailServer, emailVars

LEMMA TokensStart == EmailInit => TokensAreDrawn
  BY DEF EmailInit, TokensAreDrawn, Holds

LEMMA TokensStep ==
  ASSUME Fenced, EmailTypeOK', [EmailNext]_emailVars
  PROVE  TokensAreDrawn'
<1>1. EmailTypeOK /\ TokensAreDrawn
  BY DEF Fenced
<1>2. \A m \in Emails : /\ email[m].attempts \in Nat /\ email'[m].attempts \in Nat
                        /\ email'[m].attempts >= email[m].attempts
  BY <1>1, EmailAssumption, AttemptsGrow DEF EmailTypeOK, EmailRow
<1>3. \A s \in Senders : sender[s] # NothingHeld => sender[s].token \in Nat
  BY <1>1 DEF EmailTypeOK, Delivery
<1>4. CASE \A s \in Senders : \/ sender'[s] = NothingHeld
                              \/ /\ sender[s] # NothingHeld /\ sender'[s] # NothingHeld
                                 /\ sender'[s].row = sender[s].row
                                 /\ sender'[s].token = sender[s].token
  <2>1. ASSUME NEW s \in Senders, NEW m \in Emails, Holds(s, m)'
        PROVE  Holds(s, m) /\ sender'[s].token = sender[s].token
    BY <1>4, <2>1 DEF Holds
  <2>2. ASSUME NEW s \in Senders, NEW m \in Emails, Holds(s, m)'
        PROVE  sender'[s].token <= email'[m].attempts
    <3>1. Holds(s, m) /\ sender'[s].token = sender[s].token
      BY <2>1, <2>2
    <3>2. sender[s].token <= email[m].attempts /\ sender[s].token \in Nat
      BY <1>1, <1>3, <3>1 DEF TokensAreDrawn, Holds
    <3>3. QED  BY <1>2, <3>1, <3>2
  <2>3. ASSUME NEW s \in Senders, NEW u \in Senders, NEW m \in Emails,
               Holds(s, m)', Holds(u, m)', sender'[s].token = sender'[u].token
        PROVE  s = u
    <3>1. /\ Holds(s, m) /\ sender'[s].token = sender[s].token
          /\ Holds(u, m) /\ sender'[u].token = sender[u].token
      BY <2>1, <2>3
    <3>2. QED  BY <1>1, <2>3, <3>1 DEF TokensAreDrawn
  <2>4. QED  BY <2>2, <2>3 DEF TokensAreDrawn
<1>5. ASSUME NEW s \in Senders, NEW m \in Emails, ClaimEmailDelivery(s, m)
      PROVE  TokensAreDrawn'
  <2>1. /\ email'[m].attempts = email[m].attempts + 1
        /\ sender' = [sender EXCEPT ![s] =
                        [st |-> "claimed", row |-> m, token |-> email[m].attempts + 1]]
    BY <1>1, <1>5 DEF ClaimEmailDelivery, EmailTypeOK, EmailRow
  <2>2. sender'[s] = [st |-> "claimed", row |-> m, token |-> email[m].attempts + 1]
    BY <1>1, <2>1 DEF EmailTypeOK
  <2>3. ASSUME NEW u \in Senders, u # s, NEW n \in Emails, Holds(u, n)'
        PROVE  /\ Holds(u, n) /\ sender'[u].token = sender[u].token
               /\ sender[u].token \in Nat /\ sender[u].token <= email[n].attempts
    <3>1. sender'[u] = sender[u]
      BY <1>1, <2>1, <2>3 DEF EmailTypeOK
    <3>2. QED  BY <1>1, <1>3, <2>3, <3>1 DEF Holds, TokensAreDrawn
  <2>4. ASSUME NEW u \in Senders, NEW n \in Emails, Holds(u, n)'
        PROVE  sender'[u].token <= email'[n].attempts
    <3>1. CASE u = s
      BY <1>2, <2>1, <2>2, <2>4, <3>1 DEF Holds
    <3>2. CASE u # s
      BY <1>2, <2>3, <2>4, <3>2
    <3>3. QED  BY <3>1, <3>2
  <2>5. ASSUME NEW u \in Senders, u # s, NEW n \in Emails, Holds(s, n)', Holds(u, n)'
        PROVE  sender'[s].token # sender'[u].token
    <3>1. n = m
      BY <2>2, <2>5 DEF Holds
    <3>2. QED  BY <1>2, <2>2, <2>3, <2>5, <3>1
  <2>6. ASSUME NEW u \in Senders, NEW v \in Senders, NEW n \in Emails,
               Holds(u, n)', Holds(v, n)', sender'[u].token = sender'[v].token
        PROVE  u = v
    <3>1. CASE u # s /\ v # s
      <4>1. Holds(u, n) /\ Holds(v, n) /\ sender[u].token = sender[v].token
        BY <2>3, <2>6, <3>1
      <4>2. QED  BY <1>1, <4>1 DEF TokensAreDrawn
    <3>2. CASE u = s \/ v = s
      BY <2>5, <2>6, <3>2
    <3>3. QED  BY <3>1, <3>2
  <2>7. QED  BY <2>4, <2>6 DEF TokensAreDrawn
<1>6. ASSUME NEW s \in Senders, SenderActs(s) \/ SenderDies(s)
      PROVE  TokensAreDrawn'
  <2>1. CASE CallMailServer(s)
    <3>1. sender[s] # NothingHeld /\ sender[s] \in Delivery
      BY <1>1, <2>1 DEF CallMailServer, NothingHeld, EmailTypeOK
    <3>2. PICK answer \in {"taken", "refused"} : sender' = [sender EXCEPT ![s].st = answer]
      BY <2>1 DEF CallMailServer
    <3>3. /\ sender'[s].row = sender[s].row /\ sender'[s].token = sender[s].token
          /\ sender'[s] # NothingHeld
      BY <1>1, <3>1, <3>2 DEF EmailTypeOK, Delivery, NothingHeld
    <3>4. \A u \in Senders : u # s => sender'[u] = sender[u]
      BY <1>1, <3>2 DEF EmailTypeOK
    <3>5. QED  BY <1>4, <3>1, <3>3, <3>4
  <2>2. CASE FinishEmailDelivery(s) \/ SenderDies(s)
    BY <1>1, <1>4, <2>2 DEF FinishEmailDelivery, SenderDies, EmailTypeOK
  <2>3. QED  BY <1>6, <2>1, <2>2 DEF SenderActs
<1>7. CASE UNCHANGED sender
  BY <1>4, <1>7
<1>8. QED
  BY <1>5, <1>6, <1>7
     DEF EmailNext, CreateEmailDelivery, StorePayloadIfMissing, ClaimIsOverdue, Purge, Sweep,
         emailVars

LEMMA EmailIsFenced == EmailSpec => []Fenced
<1>1. EmailInit => Fenced
  BY EmailTypesStart, TokensStart DEF Fenced
<1>2. Fenced /\ [EmailNext]_emailVars => Fenced'
  BY EmailTypesStep, TokensStep DEF Fenced
<1>3. QED  BY <1>1, <1>2, PTL DEF EmailSpec

-----------------------------------------------------------------------------
\* Theorems

\* At most one thread holds the claim of an e-mail, however many claims of it have run
\* out meanwhile: the UPDATE of _finish_email_delivery is fenced by the token that
\* _claim_email_delivery drew.
OneHolder ==
  \A s, u \in Senders, m \in Emails :
    Holds(s, m) /\ HoldsClaim(s) /\ Holds(u, m) /\ HoldsClaim(u) => s = u

THEOREM ClaimsAreExclusive == EmailSpec => []OneHolder
<1>1. Fenced => OneHolder
  BY DEF Fenced, TokensAreDrawn, OneHolder, HoldsClaim, Holds
<1>2. QED  BY <1>1, EmailIsFenced, PTL

\* The answer of a mail server that comes after the claim was passed on, and a sweep
\* that comes at the same time, change nothing of an e-mail that is settled
\* (_finish_email_delivery, fail_stale_email_deliveries).
THEOREM SettledStaysSettled == EmailSpec => [][SettledIsFinal]_emailVars
<1>1. Fenced /\ [EmailNext]_emailVars => SettledIsFinal
  <2> SUFFICES ASSUME Fenced, [EmailNext]_emailVars, NEW m \in Emails, Settled(m)
               PROVE  email'[m].status \in {email[m].status, "gone"}
    BY DEF SettledIsFinal
  <2>1. RowStep(m) /\ email[m] \in EmailRow
    BY RowSteps DEF Fenced, EmailTypeOK
  <2>2. email[m].status \notin {"absent", "pending", "retry", "sending"}
    BY DEF Settled
  <2>3. Swept(m) = email[m] /\ email[m] # NotWritten /\ ~Deliverable(m)
    BY <2>2 DEF Swept, NotWritten, Deliverable
  <2>4. ~\E s \in Senders : Holds(s, m) /\ HoldsClaim(s)
    BY <2>2 DEF Holds, HoldsClaim
  <2>5. QED  BY <2>1, <2>2, <2>3, <2>4 DEF RowStep, EmailRow
<1>2. QED  BY <1>1, EmailIsFenced, PTL DEF EmailSpec

\* No e-mail with something to send is given up before MAX_DELIVERY_ATTEMPTS claims of
\* it have ended badly, dead and late threads included (_finish_email_delivery and
\* fail_stale_email_deliveries both compare the attempts).
THEOREM NobodyGivesUpEarly == EmailSpec => [][GivenUpInTime]_emailVars
<1>1. Fenced /\ [EmailNext]_emailVars => GivenUpInTime
  <2> SUFFICES ASSUME Fenced, [EmailNext]_emailVars, NEW m \in Emails,
                      email[m].status # "failed", email'[m].status = "failed"
               PROVE  email[m].attempts = MaxDeliveries \/ ~email[m].payload
    BY DEF GivenUpInTime
  <2>1. RowStep(m) /\ email[m] \in EmailRow /\ EmailTypeOK
    BY RowSteps DEF Fenced, EmailTypeOK
  <2>2. CASE email[m] = NotWritten
    BY <2>2 DEF NotWritten
  <2>3. CASE email'[m] = Swept(m)
    BY <2>1, <2>3, SweptRow
  <2>4. ASSUME NEW s \in Senders, ClaimEmailDelivery(s, m)
        PROVE  FALSE
    BY <2>1, <2>4 DEF ClaimEmailDelivery, EmailTypeOK, EmailRow
  <2>5. ASSUME NEW s \in Senders, Holds(s, m), HoldsClaim(s), email'[m].status = Outcome(s)
        PROVE  email[m].attempts = MaxDeliveries
    <3>1. email[m].attempts = sender[s].token /\ sender[s].token \in 1..MaxDeliveries
      BY <2>1, <2>5 DEF Holds, HoldsClaim, EmailTypeOK, Delivery
    <3>2. ~(sender[s].token < MaxDeliveries)
      BY <2>5 DEF Outcome
    <3>3. QED  BY <3>1, <3>2, EmailAssumption
  <2>6. QED  BY <2>1, <2>2, <2>3, <2>4, <2>5 DEF RowStep, EmailRow
<1>2. QED  BY <1>1, EmailIsFenced, PTL DEF EmailSpec
=============================================================================
