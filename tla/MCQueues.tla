------------------------------ MODULE MCQueues -------------------------------
(***************************************************************************)
(* What must happen in the end, in four parts that share no state: the     *)
(* billing queues, the outbox of websocket events, the outbox of e-mails,  *)
(* and the replica of one browser.  A behaviour is one of one of them,     *)
(* `active`; the others stay as they start.  The fairness of each part is  *)
(* the one its module states, asked only while the part is active.         *)
(***************************************************************************)
EXTENDS MCBillingQueues, EventBroker, EmailOutbox

CONSTANTS Records, Heavy, PageSize, MaxVersion, MaxEdits, MaxFaults

VARIABLES
  version, minAvail, row, open, recorded, local, cursor, pending, base, key, push,
  late, pull, stray, blocked, restoring, owed, faults, mutation, lookup, edits, settled,
  undone, revived, applied

Replica == INSTANCE Sync

VARIABLE active

syncVars == <<version, minAvail, row, open, recorded, local, cursor, pending, base, key,
  push, late, pull, stray, blocked, restoring, owed, faults, mutation, lookup, edits, settled,
  undone, revived, applied>>
allVars == <<queueVars, brokerVars, emailVars, syncVars, active>>

AllInit ==
  /\ Init /\ mishaps = 0 /\ BrokerInit /\ EmailInit /\ Replica!Init
  /\ active \in {"billing", "events", "emails", "replica"}
  /\ active # "replica" => \A r \in Records : row[r].st = "live"

Billing_(A) == active = "billing" /\ A /\ UNCHANGED <<brokerVars, emailVars, syncVars, active>>
Events_(A) == active = "events" /\ A /\ UNCHANGED <<queueVars, emailVars, syncVars, active>>
Emails_(A) == active = "emails" /\ A /\ UNCHANGED <<queueVars, brokerVars, syncVars, active>>
Replica_(A) == active = "replica" /\ A /\ UNCHANGED <<queueVars, brokerVars, emailVars, active>>

\* A record lookup writes the replica only and is left out here.
ReplicaNext == Replica!Next /\ lookup' = Replica!None
AllNext ==
  \/ Billing_(QueueNext) \/ Events_(BrokerNext) \/ Emails_(EmailNext) \/ Replica_(ReplicaNext)

\* Exactly one part is active, so a condition may stand for one of each part.
AllFairness ==
  /\ \A t \in Threads :
       WF_allVars(Billing_(QueueStep(t)) \/ Emails_(SenderActs(t) \/ SenderDies(t)))
  /\ \A e \in EventKeys : WF_allVars(Billing_(EventIsClaimed(e)))
  /\ \A o \in Orders, type \in CommandTypes : WF_allVars(Billing_(CommandIsClaimed(o, type)))
  /\ \A p \in Processes, e \in Events :
       WF_allVars(Events_(Attempt(p, e)) \/ Replica_(e = 1 /\ Replica!PushSucceeds)
                                         \/ Replica_(e = 2 /\ Replica!PushConflicts))
  /\ \A m \in Emails :
       /\ WF_allVars(Emails_(ClaimIsOverdue(m)) \/ Replica_(Replica!PushRejected))
       /\ WF_allVars(Emails_(\E s \in Senders : ClaimEmailDelivery(s, m))
                       \/ Replica_(Replica!ApplyDelta))
  /\ WF_allVars(Events_(Recheck) \/ Emails_(Sweep) \/ Replica_(Replica!ServePush))
  /\ WF_allVars(Replica_(Replica!RemoteCommit)) /\ WF_allVars(Replica_(Replica!ReadPage))
  /\ WF_allVars(Replica_(Replica!ReadFull)) /\ WF_allVars(Replica_(Replica!StartPull))
  /\ WF_allVars(Replica_(Replica!ApplyFull)) /\ SF_allVars(Replica_(Replica!Push))
  /\ WF_allVars(Replica_(Replica!PushReused))
  /\ WF_allVars(Replica_(Replica!EndRecord \/ Replica!EndBatch))
  /\ WF_allVars(Replica_(Replica!PutBack \/ Replica!RollBack))
  /\ \A r \in Records : WF_allVars(Replica_(Replica!Restore(r)))

AllSpec == AllInit /\ [][AllNext]_allVars /\ AllFairness

\* The replica of the browser settles, whatever is active here.
ReplicaConverges == active = "replica" => Replica!Converges
=============================================================================
