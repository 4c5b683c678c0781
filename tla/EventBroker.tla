----------------------------- MODULE EventBroker -----------------------------
(***************************************************************************)
(* The outbox of websocket events and the server processes that dispatch   *)
(* it to their own sockets.  Ids are taken from a sequence before their    *)
(* transaction commits, so events appear out of the order of their ids;    *)
(* each process keeps its own receipts and its own failures.               *)
(*                                                                         *)
(* An event is the news of a revocation or any other hint.  Backoff is     *)
(* not timed: it may be over at any moment.                                *)
(***************************************************************************)
EXTENDS Integers, FiniteSets

CONSTANTS Events,        \* ids of websocket_events, in the order of the sequence
          Processes,     \* server processes, each with its consumer
          MaxFailures,   \* failures after which an event is a dead letter
          MaxCrashes     \* model bound: restarts and failed stores

ASSUME BrokerAssumption == /\ Events \subseteq Nat /\ IsFiniteSet(Events)
                           /\ MaxFailures \in Nat \ {0} /\ MaxCrashes \in Nat

VARIABLES event,     \* status of a row, and what it tells
          done,      \* _BrokerConsumer.completed of a process
          failures,  \* _BrokerConsumer.retries of a process
          signedIn,  \* is the session of the watched user valid?
          socket,    \* the user's socket under that session, and its process
          crashes,
          handled    \* history: what a process had completed at its start, dispatched, or given up
brokerVars == <<event, done, failures, signedIn, socket, crashes, handled>>

\* A row is ready (pending or retry) or over (dispatched or dead_letter).
Visible(e) == event[e].status \in {"ready", "over"}
Completed == {e \in Events : event[e].status = "over"}
UnusedEvent == [status |-> "unused", tells |-> "hint"]
NoSocket == [st |-> "closed"]

BrokerInit == /\ event = [e \in Events |-> UnusedEvent]
              /\ done = [p \in Processes |-> {}]
              /\ failures = [p \in Processes |-> [e \in Events |-> 0]]
              /\ signedIn = TRUE
              /\ socket = NoSocket
              /\ crashes = 0
              /\ handled = [p \in Processes |-> {}]
-----------------------------------------------------------------------------
\* enqueue_websocket_event: the id is drawn, the caller's transaction goes on.
Allocate(e, tells) ==
  /\ event[e] = UnusedEvent /\ \A lower \in Events : lower < e => event[lower] # UnusedEvent
  /\ event' = [event EXCEPT ![e].status = "open", ![e].tells = tells]

Enqueue(e) == /\ Allocate(e, "hint")
              /\ UNCHANGED <<done, failures, signedIn, socket, crashes, handled>>
\* The transaction commits, or rolls back and leaves a hole in the sequence.
Commit_(e) == /\ event[e].status = "open"
              /\ \E st \in {"ready", "gone"} : event' = [event EXCEPT ![e].status = st]
              /\ UNCHANGED <<done, failures, signedIn, socket, crashes, handled>>

\* A session is revoked (logout everywhere, password change, removal); then
\* disconnect_user_websockets stores the news, if it can, and closes the sockets
\* of its own process.
CloseSocket(p) == socket' = IF socket = [st |-> "open", at |-> p] THEN NoSocket ELSE socket
Revoke(p) ==
  /\ signedIn
  /\ signedIn' = FALSE
  /\ CloseSocket(p)
  /\ \/ /\ \E e \in Events : Allocate(e, "revocation")
        /\ UNCHANGED crashes
     \/ /\ crashes < MaxCrashes /\ crashes' = crashes + 1
        /\ UNCHANGED event
  /\ UNCHANGED <<done, failures, handled>>
-----------------------------------------------------------------------------
\* Mutant: a high-water cursor, which fills the holes of open transactions.
MarkThrough(p, e) == done' = [done EXCEPT ![p] = @ \cup {x \in Events : x <= e}]
MarkDispatched(p, e) == done' = [done EXCEPT ![p] = @ \cup {e}]

\* Mutant: an event is retried for ever.
NeverGivesUp(p, e) ==
  /\ failures' = [failures EXCEPT ![p][e] = IF @ < MaxFailures - 1 THEN @ + 1 ELSE 0]
  /\ UNCHANGED <<done, handled>>
\* mark_failed: the last failure counts as a dispatch.
MarkFailed(p, e) ==
  IF failures[p][e] + 1 >= MaxFailures
    THEN /\ MarkDispatched(p, e)
         /\ failures' = [failures EXCEPT ![p][e] = 0]
         /\ handled' = [handled EXCEPT ![p] = @ \cup {e}]
    ELSE /\ failures' = [failures EXCEPT ![p][e] = @ + 1]
         /\ UNCHANGED <<done, handled>>

\* The rows the query of _load_broker_events returns to a process: whatever other
\* processes made of them.
Unread(p) == {e \in Events : Visible(e) /\ e \notin done[p]}

Deliver(p, e) == IF event[e].tells = "revocation" THEN CloseSocket(p) ELSE UNCHANGED socket
\* _record_broker_dispatch: the shared status is telemetry, also over a dead letter.
RecordOver(e) == event' = [event EXCEPT ![e].status = "over"]

Dispatch(p, e) == /\ e \in Unread(p)
                  /\ Deliver(p, e) /\ RecordOver(e) /\ MarkDispatched(p, e)
                  /\ failures' = [failures EXCEPT ![p][e] = 0]
                  /\ handled' = [handled EXCEPT ![p] = @ \cup {e}]
                  /\ UNCHANGED <<signedIn, crashes>>
\* Delivery or its record fails.  The failures of all processes are counted in the
\* row, which becomes a dead letter at the fifth; that may not be recorded either.
DispatchFails(p, e) ==
  /\ e \in Unread(p)
  /\ Deliver(p, e) \/ UNCHANGED socket
  /\ RecordOver(e) \/ UNCHANGED event
  /\ MarkFailed(p, e)
  /\ UNCHANGED <<signedIn, crashes>>

\* _cleanup_broker_events deletes what is a day old; the process that did it
\* forgets its receipts below the first row that is left.
Cleanup(p) ==
  /\ \E gone \in SUBSET {e \in Events : Visible(e)} :
       /\ gone # {}
       /\ event' = [e \in Events |-> IF e \in gone THEN [event[e] EXCEPT !.status = "gone"]
                                                   ELSE event[e]]
       /\ LET left == {e \in Events : Visible(e)} \ gone
              kept == {e \in Events : \E x \in left : x <= e}
          IN /\ done' = [done EXCEPT ![p] = @ \cap kept]
             /\ failures' = [failures EXCEPT ![p] =
                               [e \in Events |-> IF e \in kept THEN @[e] ELSE 0]]
  /\ UNCHANGED <<signedIn, socket, crashes, handled>>
-----------------------------------------------------------------------------
\* A process starts again: _pending_broker_start_id takes completed history as
\* read before any socket is accepted.
Restart(p) == /\ crashes < MaxCrashes
              /\ crashes' = crashes + 1
              /\ done' = [done EXCEPT ![p] = Completed]
              /\ handled' = [handled EXCEPT ![p] = Completed]
              /\ failures' = [failures EXCEPT ![p] = [e \in Events |-> 0]]
              /\ socket' = IF socket # NoSocket /\ socket.at = p THEN NoSocket ELSE socket
              /\ UNCHANGED <<event, signedIn>>

\* sync_websocket_endpoint: the session is read, later the socket is registered
\* where broadcasts and revocations find it.
Authenticate(p) == /\ socket = NoSocket /\ signedIn
                   /\ socket' = [st |-> "admitted", at |-> p]
                   /\ UNCHANGED <<event, done, failures, signedIn, crashes, handled>>
Register == /\ socket.st = "admitted"
            /\ socket' = [socket EXCEPT !.st = "open"]
            /\ UNCHANGED <<event, done, failures, signedIn, crashes, handled>>
\* Mutant: the session is not read again.
NoRecheck == FALSE /\ UNCHANGED brokerVars
\* Every half hour the session is read again.
Recheck == /\ socket.st = "open" /\ ~signedIn
           /\ socket' = NoSocket
           /\ UNCHANGED <<event, done, failures, signedIn, crashes, handled>>
-----------------------------------------------------------------------------
BrokerNext == \/ \E e \in Events : Enqueue(e) \/ Commit_(e)
              \/ \E p \in Processes : Revoke(p) \/ Cleanup(p) \/ Restart(p)
                                      \/ Authenticate(p)
              \/ Register \/ Recheck
              \/ \E p \in Processes, e \in Events : Dispatch(p, e) \/ DispatchFails(p, e)
BrokerSpec == BrokerInit /\ [][BrokerNext]_brokerVars

Attempt(p, e) == Dispatch(p, e) \/ DispatchFails(p, e)
-----------------------------------------------------------------------------
\* A process counts an event as completed only if it was so before the process
\* started, or the process dispatched it or failed at it often enough: the gap an
\* open transaction leaves in the ids stays a gap.
NoEventIsSkipped == \A p \in Processes :
  {e \in done[p] : Visible(e)} \subseteq handled[p]

\* Every process comes to every committed event, whatever other events and other
\* processes do, unless the event is deleted first.
EveryEventIsHandled == \A p \in Processes, e \in Events :
  Visible(e) ~> (e \in done[p] \/ ~Visible(e))

\* The socket of a revoked session is closed in the end, also when it was admitted
\* before the revocation and registered after it, and when the news of it is lost.
RevokedSocketsClose == (socket.st = "open" /\ ~signedIn) ~> socket.st = "closed"
=============================================================================
