----------------------------- MODULE EmailOutbox -----------------------------
(***************************************************************************)
(* The outbox of e-mails (backend/auth/email_delivery_service.py).  A row  *)
(* is inserted with the change it tells of; the workers of all processes   *)
(* and the request that inserted it compete for it; a claim is a lease     *)
(* with a token of its own, and a sweep ends what is left of it.           *)
(*                                                                         *)
(* Every claim counts as an attempt and draws a new token, so the number   *)
(* of the attempt stands for the token.  Time is not counted: a claim may  *)
(* be overdue, a row old and a backoff over at any moment.                 *)
(***************************************************************************)
EXTENDS Naturals, FiniteSets

CONSTANTS
  Emails,
  Senders,         \* threads that deliver
  MaxDeliveries    \* MAX_DELIVERY_ATTEMPTS

ASSUME EmailAssumption ==
  /\ IsFiniteSet(Emails) /\ IsFiniteSet(Senders)
  /\ MaxDeliveries \in Nat \ {0}

VARIABLES
  email,      \* email_delivery_status
  sender      \* what each thread holds: the row and its token

emailVars == <<email, sender>>

NotWritten == [status |-> "absent", payload |-> FALSE, attempts |-> 0, overdue |-> FALSE]
NothingHeld == [st |-> "idle"]

EmailInit ==
  /\ email = [m \in Emails |-> NotWritten]
  /\ sender = [s \in Senders |-> NothingHeld]

Settled(m) == email[m].status \in {"sent", "failed", "gone"}

-----------------------------------------------------------------------------
\* create_email_delivery; older callers supply the encrypted payload later.
CreateEmailDelivery(m, payload) ==
  /\ email[m] = NotWritten
  /\ email' = [email EXCEPT ![m].status = "pending", ![m].payload = payload]
  /\ UNCHANGED sender

StorePayloadIfMissing(m) ==
  /\ email[m].status \notin {"absent", "gone"} /\ ~email[m].payload
  /\ email' = [email EXCEPT ![m].payload = TRUE]
  /\ UNCHANGED sender

Deliverable(m) ==
  /\ email[m].payload /\ email[m].attempts < MaxDeliveries
  /\ \/ email[m].status \in {"pending", "retry"}
     \/ email[m].status = "sending" /\ email[m].overdue

ClaimEmailDelivery(s, m) ==
  /\ sender[s] = NothingHeld /\ Deliverable(m)
  /\ email' = [email EXCEPT ![m].status = "sending", ![m].overdue = FALSE,
                            ![m].attempts = @ + 1]
  /\ sender' = [sender EXCEPT ![s] = [st |-> "claimed", row |-> m, token |-> email[m].attempts + 1]]

ClaimIsOverdue(m) ==
  /\ email[m].status = "sending" /\ ~email[m].overdue
  /\ email' = [email EXCEPT ![m].overdue = TRUE]
  /\ UNCHANGED sender

\* gui_email: the mail server took the e-mail and said so, or there is no telling.
CallMailServer(s) ==
  /\ sender[s].st = "claimed"
  /\ \E answer \in {"taken", "refused"} : sender' = [sender EXCEPT ![s].st = answer]
  /\ UNCHANGED email

\* Mutant: whoever has an answer records it.
HoldsAnyClaim(s) == email[sender[s].row].status \notin {"absent", "gone"}
HoldsClaim(s) ==
  LET row == email[sender[s].row] IN row.status = "sending" /\ row.attempts = sender[s].token

Outcome(s) ==
  IF sender[s].st = "taken" THEN "sent"
  ELSE IF sender[s].token < MaxDeliveries THEN "retry" ELSE "failed"

FinishEmailDelivery(s) ==
  /\ sender[s].st \in {"taken", "refused"}
  /\ email' = IF HoldsClaim(s)
                THEN [email EXCEPT ![sender[s].row].status = Outcome(s),
                                   ![sender[s].row].overdue = FALSE]
                ELSE email
  /\ sender' = [sender EXCEPT ![s] = NothingHeld]

SenderDies(s) ==
  /\ sender[s] # NothingHeld /\ sender' = [sender EXCEPT ![s] = NothingHeld]
  /\ UNCHANGED email

\* fail_stale_email_deliveries: overdue claims, then rows without a payload.
Swept(m) ==
  CASE email[m].status = "sending" /\ email[m].overdue ->
         [email[m] EXCEPT !.overdue = FALSE, !.status =
            IF email[m].attempts < MaxDeliveries THEN "retry" ELSE "failed"]
    [] email[m].status \in {"pending", "retry"} /\ ~email[m].payload ->
         [email[m] EXCEPT !.status = "failed"]
    [] OTHER -> email[m]

Sweep ==
  /\ email' = [m \in Emails |-> Swept(m)]
  /\ UNCHANGED sender

\* The sweep deletes what is thirty days old, settled or not.
Purge(m) ==
  /\ email[m].status \notin {"absent", "gone"}
  /\ email' = [email EXCEPT ![m].status = "gone"]
  /\ UNCHANGED sender

-----------------------------------------------------------------------------
SenderActs(s) == CallMailServer(s) \/ FinishEmailDelivery(s)

EmailNext ==
  \/ \E m \in Emails, payload \in BOOLEAN : CreateEmailDelivery(m, payload)
  \/ \E m \in Emails : StorePayloadIfMissing(m) \/ ClaimIsOverdue(m) \/ Purge(m)
  \/ \E s \in Senders, m \in Emails : ClaimEmailDelivery(s, m)
  \/ \E s \in Senders : SenderActs(s) \/ SenderDies(s)
  \/ Sweep

EmailSpec == EmailInit /\ [][EmailNext]_emailVars

-----------------------------------------------------------------------------
\* The sweep runs every half hour, the workers come to every row that stays due,
\* and a thread ends: its connection has a timeout, or its process dies.
EmailFairness ==
  /\ WF_emailVars(Sweep)
  /\ \A s \in Senders : WF_emailVars(SenderActs(s) \/ SenderDies(s))
  /\ \A m \in Emails : WF_emailVars(ClaimIsOverdue(m))
  /\ \A m \in Emails : WF_emailVars(\E s \in Senders : ClaimEmailDelivery(s, m))

\* An e-mail that was written is settled in the end and stays settled: no dead
\* thread keeps it for ever, and no late answer sends it round again.
EmailsAreSettled ==
  \A m \in Emails : email[m].status = "pending" ~> []Settled(m)
=============================================================================
