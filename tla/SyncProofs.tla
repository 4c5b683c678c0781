------------------------------ MODULE SyncProofs ------------------------------
(***************************************************************************)
(* Proofs that the outbox of a workspace accounts for every edit and names *)
(* one payload by one identity, for any set of records, any limits and any *)
(* order of lost, late and repeated pushes, pauses and rollbacks.          *)
(***************************************************************************)
EXTENDS Sync, FiniteSetTheorems, TLAPS

\* An intent names a local edit.  The row version it expects may be anything.
AnIntent(st, exp, e) == [st |-> st, exp |-> exp, edit |-> e]
IsIntent(i) == \E st \in {"put", "patch", "del"}, e \in 1..edits : \E exp : i = AnIntent(st, exp, e)
IsQueue(queue) == /\ queue = [r \in Records |-> queue[r]]
                  /\ \A r \in Records : queue[r] = None \/ IsIntent(queue[r])

\* The fields of a mutation and of a push.
Fields(m) == [st |-> m.st, rec |-> m.rec, intent |-> m.intent, shown |-> m.shown,
              before |-> m.before, scope |-> m.scope, queue |-> m.queue, base |-> m.base,
              key |-> m.key]
Carried(p) == [st |-> p.st, key |-> p.key, base |-> p.base, ops |-> p.ops, void |-> p.void]
Replied(p) == [st |-> p.st, key |-> p.key, base |-> p.base, ops |-> p.ops, void |-> p.void,
               answer |-> p.answer]

QueueShape == edits \in 0..MaxEdits /\ IsQueue(pending)
MutationShape == mutation # None => /\ mutation = Fields(mutation) /\ IsQueue(mutation.queue)
                                    /\ IsIntent(mutation.intent) /\ mutation.key \in Keys
                                    /\ mutation.rec \in Records
FlightShape == /\ push # None => push = Carried(push) \/ push = Replied(push)
               /\ push # None /\ push.st # "reloading" => push.ops # Nothing
               /\ \A q \in late : q # None /\ q.ops # Nothing
KeysShape == /\ key \in Keys /\ recorded = [k \in Keys |-> recorded[k]]
             /\ IsFiniteSet(late) /\ faults \in 0..MaxFaults /\ Cardinality(late) <= faults
Shape == QueueShape /\ MutationShape /\ FlightShape /\ KeysShape

\* Every edit is settled, undone, in the outbox, or waits to be stored.
Waits(e) == Unstored /\ mutation.intent.edit = e
Carries(queue, e) == \E r \in Records : queue[r] # None /\ queue[r].edit = e
Kept(e) == e \in settled \/ e \in undone \/ Carries(pending, e) \/ Waits(e)
EditsKept == \A e \in 1..edits : Kept(e)

\* Under an identity that names a queue without patches nothing else was presented.
Names(k, queue, b) == ~Patched(queue) =>
  /\ \A q \in Requests : q.key = k /\ q.ops # Nothing => q.ops = queue /\ q.base = b
  /\ recorded[k] # None => recorded[k].ops = queue
OutboxIsNamed == Names(key, pending, base)
CheckpointIsNamed == mutation # None =>
  /\ Names(mutation.key, mutation.queue, mutation.base)
  /\ mutation.key = key => mutation.queue = pending /\ mutation.base = base
Named == OutboxIsNamed /\ CheckpointIsNamed

\* The inductive invariant.
Accounted == Shape /\ EditsKept /\ Named
-----------------------------------------------------------------------------
\* A fresh identity is to be had: at most the pushes lost to a fault, the one in
\* flight, a checkpoint and the outbox hold one.
LEMMA FreshKeyExists ==
  ASSUME KeysShape
  PROVE  \E k \in Keys : k \notin KeysInUse
<1> DEFINE lateKeys == {q.key : q \in late}
           named == lateKeys \cup {key}
           pushed == named \cup {push.key}
           used == pushed \cup {mutation.key}
<1>1. IsFiniteSet(lateKeys) /\ Cardinality(lateKeys) <= Cardinality(late)
  <2> DEFINE f == [q \in late |-> q.key]
  <2>1. f \in Surjection(late, lateKeys)
    BY DEF Surjection
  <2>2. QED  BY <2>1, FS_Surjection DEF KeysShape
<1>2. KeysInUse \subseteq used
  BY DEF KeysInUse, Requests
<1>3. \A S, x : IsFiniteSet(S) => /\ IsFiniteSet(S \cup {x}) /\ Cardinality(S \cup {x}) \in Nat
                                  /\ Cardinality(S) \in Nat
                                  /\ Cardinality(S \cup {x}) <= Cardinality(S) + 1
  <2>1. ASSUME NEW S, NEW x, IsFiniteSet(S)
        PROVE  /\ IsFiniteSet(S \cup {x}) /\ Cardinality(S \cup {x}) \in Nat
               /\ Cardinality(S) \in Nat
               /\ Cardinality(S \cup {x}) <= Cardinality(S) + 1
    <3>1. Cardinality(S) \in Nat
      BY <2>1, FS_CardinalityType
    <3>2. QED  BY <2>1, <3>1, FS_AddElement, FS_CardinalityType
  <2>2. QED  BY <2>1
<1>4. MaxFaults \in Nat /\ faults \in Nat /\ faults <= MaxFaults
      /\ Cardinality(late) <= faults /\ Cardinality(late) \in Nat
  BY SyncAssumption, FS_CardinalityType DEF SyncAssumption, KeysShape
<1>5. IsFiniteSet(used) /\ Cardinality(used) <= MaxFaults + 3 /\ Cardinality(used) \in Nat
  <2>1. /\ IsFiniteSet(named) /\ Cardinality(lateKeys) \in Nat
        /\ Cardinality(named) <= Cardinality(lateKeys) + 1 /\ Cardinality(named) \in Nat
    <3> HIDE DEF lateKeys
    <3>1. QED  BY <1>1, <1>3
  <2>2. IsFiniteSet(pushed) /\ Cardinality(pushed) <= Cardinality(named) + 1
        /\ Cardinality(pushed) \in Nat
    <3> HIDE DEF named
    <3>1. QED  BY <2>1, <1>3
  <2>3. IsFiniteSet(used) /\ Cardinality(used) <= Cardinality(pushed) + 1
        /\ Cardinality(used) \in Nat
    <3> HIDE DEF pushed
    <3>1. QED  BY <2>2, <1>3
  <2> HIDE DEF lateKeys, named, pushed, used
  <2>4. QED  BY <1>1, <1>4, <2>1, <2>2, <2>3
<1>6. Cardinality(Keys) = MaxFaults + 4 /\ IsFiniteSet(Keys)
  <2>1. 1 \in Int /\ MaxFaults + 4 \in Int /\ ~(1 > MaxFaults + 4)
        /\ (MaxFaults + 4) - 1 + 1 = MaxFaults + 4
    BY <1>4
  <2>2. Cardinality(1..(MaxFaults + 4)) = MaxFaults + 4 /\ IsFiniteSet(1..(MaxFaults + 4))
    BY <2>1, FS_Interval
  <2>3. QED  BY <2>2 DEF Keys
<1>7. ~(Keys \subseteq used)
  <2> HIDE DEF used
  <2>1. SUFFICES ASSUME Keys \subseteq used  PROVE FALSE
    OBVIOUS
  <2>2. Cardinality(Keys) <= Cardinality(used)
    BY <1>5, <2>1, FS_Subset
  <2>3. QED  BY <1>4, <1>5, <1>6, <2>2
<1>8. QED  BY <1>2, <1>7

\* _touchForNewPayload: the new identity is nobody's, and its outcome is not recorded.
LEMMA TouchIsFresh ==
  ASSUME KeysShape, Touch
  PROVE  /\ key' \in Keys /\ key' \notin KeysInUse
         /\ recorded'[key'] = None /\ recorded' = [k \in Keys |-> recorded'[k]]
         /\ \A k \in Keys : recorded'[k] = recorded[k] \/ recorded'[k] = None
<1>1. key' \in Keys /\ key' \notin KeysInUse
  BY FreshKeyExists DEF Touch
<1>2. QED  BY <1>1 DEF Touch

-----------------------------------------------------------------------------
(***************************************************************************)
(* Kinds of steps.                                                         *)
(***************************************************************************)

\* Every request there is after a step carries nothing, or was there before it.
Covered == \A p \in Requests' : \/ p.ops = Nothing
                                \/ \E q \in Requests : p.key = q.key /\ p.ops = q.ops /\ p.base = q.base
\* A mutation ends or keeps its checkpoint, or one begins with a checkpoint.
Continues == mutation' # None /\ mutation # None
             /\ mutation'.key = mutation.key /\ mutation'.queue = mutation.queue
             /\ mutation'.base = mutation.base
Begins == mutation' # None
          /\ mutation'.key = key /\ mutation'.queue = pending /\ mutation'.base = base
Checkpointed == mutation' = None \/ Continues \/ Begins
OutboxRests == UNCHANGED <<key, pending, base, recorded>>

LEMMA RestingNames ==
  ASSUME Named, Covered, Checkpointed, OutboxRests
  PROVE  Named'
<1>1. OutboxIsNamed'
  BY DEF Named, OutboxIsNamed, Names, Covered, OutboxRests
<1>2. ASSUME mutation' # None
      PROVE  /\ Names(mutation.key, mutation.queue, mutation.base)'
             /\ (mutation.key = key => mutation.queue = pending /\ mutation.base = base)'
  <2>1. CASE Continues
    BY <2>1 DEF Continues, Named, CheckpointIsNamed, Names, Covered, OutboxRests
  <2>2. CASE Begins
    BY <2>2 DEF Begins, Named, OutboxIsNamed, Names, Covered, OutboxRests
  <2>3. QED  BY <1>2, <2>1, <2>2 DEF Checkpointed
<1>3. QED  BY <1>1, <1>2 DEF Named, CheckpointIsNamed

LEMMA TouchedNames ==
  ASSUME Shape, Named, Covered, Checkpointed, Touch
  PROVE  Named'
<1>1. /\ key' \in Keys /\ key' \notin KeysInUse /\ recorded'[key'] = None
      /\ \A k \in Keys : recorded'[k] = recorded[k] \/ recorded'[k] = None
  BY TouchIsFresh DEF Shape
<1>2. /\ \A q \in Requests : q.key # key'
      /\ key # key' /\ (mutation # None => mutation.key # key')
  BY <1>1 DEF KeysInUse
<1>3. OutboxIsNamed'
  BY <1>1, <1>2 DEF OutboxIsNamed, Names, Covered
<1>4. ASSUME mutation' # None
      PROVE  /\ Names(mutation.key, mutation.queue, mutation.base)'
             /\ (mutation.key = key => mutation.queue = pending /\ mutation.base = base)'
  <2>1. CASE Continues
    <3>1. mutation.key \in Keys
      BY <2>1 DEF Continues, Shape, MutationShape
    <3>2. QED  BY <1>1, <1>2, <2>1, <3>1 DEF Continues, Named, CheckpointIsNamed, Names, Covered
  <2>2. CASE Begins
    <3>1. key \in Keys
      BY DEF Shape, KeysShape
    <3>2. QED  BY <1>1, <1>2, <2>2, <3>1 DEF Begins, Named, OutboxIsNamed, Names, Covered
  <2>3. QED  BY <1>4, <2>1, <2>2 DEF Checkpointed
<1>5. QED  BY <1>3, <1>4 DEF Named, CheckpointIsNamed

\* What the server records under an identity is what was presented under it.
LEMMA RecordedNames ==
  ASSUME Shape, Named, Covered, UNCHANGED <<key, pending, base, mutation>>,
         NEW q \in Requests, q.ops # Nothing,
         recorded' = [recorded EXCEPT ![q.key] = Outcome(q.ops)]
  PROVE  Named'
<1>1. Outcome(q.ops).ops = q.ops
  BY DEF Outcome
<1>2. \A k \in Keys : recorded'[k] = IF k = q.key THEN Outcome(q.ops) ELSE recorded[k]
  BY DEF Shape, KeysShape
<1>3. OutboxIsNamed'
  <2>1. key \in Keys
    BY DEF Shape, KeysShape
  <2>2. QED  BY <1>1, <1>2, <2>1 DEF Named, OutboxIsNamed, Names, Covered
<1>4. CheckpointIsNamed'
  <2>1. mutation # None => mutation.key \in Keys
    BY DEF Shape, MutationShape
  <2>2. QED  BY <1>1, <1>2, <2>1 DEF Named, CheckpointIsNamed, Names, Covered
<1>5. QED  BY <1>3, <1>4 DEF Named

\* A queue without patches is sent as it is.
LEMMA SentNames ==
  ASSUME Shape, Named, Push
  PROVE  Named'
<1>1. /\ UNCHANGED <<key, pending, base, recorded, mutation, late>> /\ push = None
      /\ push'.key = key /\ push'.base = base /\ push'.ops = Payload /\ push' # None
  <2>1. push' # None
    BY DEF Push, None
  <2>2. QED  BY <2>1 DEF Push, server, browser, mutationQueue, pausing
<1>2. Requests' = Requests \cup {push'}
  BY <1>1 DEF Requests
<1>3. ~Patched(pending) => Payload = pending
  BY DEF Patched, Payload, Materialised, Shape, QueueShape, IsQueue
<1>4. OutboxIsNamed'
  BY <1>1, <1>2, <1>3 DEF Named, OutboxIsNamed, Names
<1>5. CheckpointIsNamed'
  BY <1>1, <1>2, <1>3 DEF Named, CheckpointIsNamed, Names
<1>6. QED  BY <1>4, <1>5 DEF Named

\* outbox.restore: the identity of the checkpoint comes back with its queue.
LEMMA RestoredNames ==
  ASSUME Named, Covered, mutation # None, mutation' = None, UNCHANGED recorded,
         pending' = mutation.queue, base' = mutation.base, key' = mutation.key
  PROVE  Named'
BY DEF Named, OutboxIsNamed, CheckpointIsNamed, Names, Covered

-----------------------------------------------------------------------------
\* An intent stays one when more edits are made.
LEMMA QueueStays ==
  ASSUME edits \in Nat, edits' \in Nat, edits' >= edits
  PROVE  /\ \A i : IsIntent(i) => IsIntent(i)'
         /\ \A queue : IsQueue(queue) => IsQueue(queue)'
<1>1. 1..edits \subseteq 1..edits'
  OBVIOUS
<1>2. ASSUME NEW i, IsIntent(i)  PROVE IsIntent(i)'
  BY <1>1, <1>2 DEF IsIntent
<1>3. QED  BY <1>2 DEF IsQueue

\* No edit of before the step is lost in it.
LEMMA EditsStay ==
  ASSUME EditsKept, edits' = edits, settled \subseteq settled', undone \subseteq undone',
         \A e : Carries(pending, e) \/ Waits(e) => Kept(e)'
  PROVE  EditsKept'
BY DEF EditsKept, Kept

\* A record with all its fields keeps them when one is replaced.
LEMMA Restated ==
  ASSUME NEW m, m = Fields(m), NEW s, s # "none", NEW n, n = [m EXCEPT !.st = s]
  PROVE  /\ n # None /\ n.st = s /\ n = Fields(n)
         /\ n.queue = m.queue /\ n.intent = m.intent /\ n.key = m.key /\ n.base = m.base
         /\ n.rec = m.rec
<1>1. n = [st |-> s, rec |-> m.rec, intent |-> m.intent, shown |-> m.shown,
           before |-> m.before, scope |-> m.scope, queue |-> m.queue, base |-> m.base,
           key |-> m.key]
  BY DEF Fields
<1>2. n.st = s
  BY <1>1
<1>3. n # None
  BY <1>2 DEF None
<1>4. QED  BY <1>1, <1>2, <1>3 DEF Fields

LEMMA Voided ==
  ASSUME NEW p, p = Carried(p) \/ p = Replied(p), p # None, NEW v, v = [p EXCEPT !.void = TRUE]
  PROVE  /\ v.st = p.st /\ v.key = p.key /\ v.base = p.base /\ v.ops = p.ops
         /\ v = Carried(v) \/ v = Replied(v)
<1>1. CASE p = Carried(p)
  <2>1. v = [st |-> p.st, key |-> p.key, base |-> p.base, ops |-> p.ops, void |-> TRUE]
    BY <1>1 DEF Carried
  <2>2. QED  BY <2>1 DEF Carried
<1>2. CASE p = Replied(p)
  <2>1. v = [st |-> p.st, key |-> p.key, base |-> p.base, ops |-> p.ops, void |-> TRUE,
             answer |-> p.answer]
    BY <1>2 DEF Replied
  <2>2. QED  BY <2>1 DEF Replied
<1>3. QED  BY <1>1, <1>2

\* A mutation goes on unless its import is told of the end of its push.
Informed == \/ mutation' = mutation
            \/ /\ mutation # None /\ ~Unstored
               /\ \/ mutation' = None
                  \/ \E s \in {"refused", "putback"} : mutation' = [mutation EXCEPT !.st = s]

LEMMA InformedKeeps ==
  ASSUME MutationShape, Informed, UNCHANGED edits
  PROVE  /\ MutationShape' /\ Checkpointed
         /\ \A e : Waits(e) => Waits(e)'
<1>1. CASE mutation' = mutation
  BY <1>1 DEF MutationShape, Checkpointed, Continues, Waits, Unstored, IsQueue, IsIntent
<1>2. CASE ~Unstored /\ mutation' = None
  BY <1>2 DEF MutationShape, Checkpointed, Waits
<1>3. CASE /\ mutation # None /\ ~Unstored
           /\ \E s \in {"refused", "putback"} : mutation' = [mutation EXCEPT !.st = s]
  <2>1. PICK s \in {"refused", "putback"} : mutation' = [mutation EXCEPT !.st = s]
    BY <1>3
  <2>2. /\ mutation' # None /\ mutation' = Fields(mutation')
        /\ mutation'.queue = mutation.queue /\ mutation'.intent = mutation.intent
        /\ mutation'.key = mutation.key /\ mutation'.base = mutation.base
        /\ mutation'.rec = mutation.rec
    BY <1>3, <2>1, Restated DEF MutationShape
  <2>3. MutationShape'
    BY <1>3, <2>2 DEF MutationShape, IsQueue, IsIntent
  <2>4. \A e : ~Waits(e)
    BY <1>3 DEF Waits
  <2>5. QED  BY <1>3, <2>2, <2>3, <2>4 DEF Checkpointed, Continues
<1>4. QED  BY <1>1, <1>2, <1>3 DEF Informed

-----------------------------------------------------------------------------
(***************************************************************************)
(* The inductive invariant, group of actions by group of actions.          *)
(***************************************************************************)

\* Pages, snapshots, writes of others, restored and opened records leave the outbox alone.
LEMMA QuietKeeps ==
  ASSUME Accounted, UNCHANGED <<edits, pending, base, key, recorded, push, late, faults, mutation,
                                settled, undone>>
  PROVE  Accounted'
<1>1. Covered /\ OutboxRests /\ Informed
  BY DEF Covered, Requests, OutboxRests, Informed
<1>2. Checkpointed /\ MutationShape' /\ \A e : Waits(e) => Waits(e)'
  BY <1>1, InformedKeeps DEF Accounted, Shape
<1>3. Named'
  BY <1>1, <1>2, RestingNames DEF Accounted
<1>4. EditsKept'
  BY <1>2, EditsStay DEF Accounted, Kept, Carries
<1>5. Shape'
  BY <1>2 DEF Accounted, Shape, QueueShape, FlightShape, KeysShape, IsQueue, IsIntent
<1>6. QED  BY <1>3, <1>4, <1>5 DEF Accounted

\* The push is answered, lost, or over; what was sent may still arrive.
Lost == \/ late' = late /\ faults' = faults
        \/ late' = late /\ faults' = faults + 1 /\ faults < MaxFaults
        \/ /\ push # None /\ push.st = "sent"
           /\ late' = late \cup {[push EXCEPT !.void = TRUE]}
           /\ faults' = faults + 1 /\ faults < MaxFaults
Reloading == push # None /\ push' = [st |-> "reloading", key |-> push.key, base |-> push.base,
                                     ops |-> Nothing, void |-> TRUE]
Unanswerable == push # None /\ push' = [push EXCEPT !.void = TRUE]
Flies == push' = None \/ push' = push \/ Reloading \/ Unanswerable

\* What flies on carries what it carried, or nothing.
LEMMA FliesKeeps ==
  ASSUME FlightShape, Flies
  PROVE  push' # None => /\ push' = Carried(push') \/ push' = Replied(push')
                         /\ push'.st # "reloading" => push'.ops # Nothing
                         /\ \/ push'.ops = Nothing
                            \/ /\ push # None /\ push'.key = push.key
                               /\ push'.ops = push.ops /\ push'.base = push.base
<1>1. CASE push' = None \/ push' = push
  BY <1>1 DEF FlightShape
<1>2. CASE Reloading
  <2>1. push' = Carried(push') /\ push'.st = "reloading" /\ push'.ops = Nothing
    BY <1>2 DEF Reloading, Carried
  <2>2. QED  BY <2>1
<1>3. CASE Unanswerable
  <2>1. PICK v : v = [push EXCEPT !.void = TRUE]
    OBVIOUS
  <2>2. push' = v /\ push # None
    BY <1>3, <2>1 DEF Unanswerable
  <2>3. /\ v.st = push.st /\ v.key = push.key /\ v.base = push.base /\ v.ops = push.ops
        /\ v = Carried(v) \/ v = Replied(v)
    BY <2>1, <2>2, Voided DEF FlightShape
  <2>4. QED  BY <2>2, <2>3 DEF FlightShape
<1>4. QED  BY <1>1, <1>2, <1>3 DEF Flies

LEMMA LostKeeps ==
  ASSUME FlightShape, KeysShape, Lost, Flies, key' \in Keys, recorded' = [k \in Keys |-> recorded'[k]]
  PROVE  FlightShape' /\ KeysShape' /\ Covered
<1>1. \/ late' = late
      \/ /\ push # None /\ faults' = faults + 1 /\ faults < MaxFaults
         /\ \E v : /\ late' = late \cup {v} /\ v # None
                   /\ v.key = push.key /\ v.base = push.base /\ v.ops = push.ops
                   /\ v.ops # Nothing
  <2>1. CASE /\ push # None /\ push.st = "sent"
             /\ late' = late \cup {[push EXCEPT !.void = TRUE]}
             /\ faults' = faults + 1 /\ faults < MaxFaults
    <3>1. PICK v : v = [push EXCEPT !.void = TRUE]
      OBVIOUS
    <3>2. v.st = "sent" /\ v.key = push.key /\ v.base = push.base /\ v.ops = push.ops
      BY <2>1, <3>1, Voided DEF FlightShape
    <3>3. v # None
      BY <3>2 DEF None
    <3>4. push.ops # Nothing
      BY <2>1 DEF FlightShape
    <3>5. QED  BY <2>1, <3>1, <3>2, <3>3, <3>4
  <2>2. QED  BY <2>1 DEF Lost
<1>2. FlightShape'
  <2>1. \A q \in late' : q # None /\ q.ops # Nothing
    BY <1>1 DEF FlightShape
  <2>2. QED  BY <2>1, FliesKeeps DEF FlightShape
<1>3. KeysShape'
  <2>1. Cardinality(late) \in Nat /\ IsFiniteSet(late) /\ MaxFaults \in Nat /\ faults \in 0..MaxFaults
        /\ Cardinality(late) <= faults
    BY FS_CardinalityType, SyncAssumption DEF KeysShape, SyncAssumption
  <2>2. CASE late' = late
    <3>1. faults' \in 0..MaxFaults /\ faults' >= faults
      BY <2>1 DEF Lost
    <3>2. QED  BY <2>1, <2>2, <3>1 DEF KeysShape
  <2>3. CASE late' # late
    <3>1. PICK v : late' = late \cup {v}
      BY <1>1, <2>3
    <3>2. faults' = faults + 1 /\ faults < MaxFaults
      BY <1>1, <2>3
    <3>3. IsFiniteSet(late') /\ Cardinality(late') <= Cardinality(late) + 1
          /\ Cardinality(late') \in Nat
      <4>1. IsFiniteSet(late')
            /\ Cardinality(late') = IF v \in late THEN Cardinality(late) ELSE Cardinality(late) + 1
        BY <2>1, <3>1, FS_AddElement
      <4>2. QED  BY <2>1, <4>1
    <3>4. faults' \in 0..MaxFaults /\ Cardinality(late') <= faults'
      BY <2>1, <3>2, <3>3
    <3>5. QED  BY <3>3, <3>4 DEF KeysShape
  <2>4. QED  BY <2>2, <2>3
<1>4. Covered
  <2>1. ASSUME NEW p \in Requests'
        PROVE  p.ops = Nothing \/ \E q \in Requests : p.key = q.key /\ p.ops = q.ops /\ p.base = q.base
    <3>1. CASE p \in late'
      BY <1>1, <3>1 DEF Requests
    <3>2. CASE push' # None /\ p = push'
      BY <3>2, FliesKeeps DEF Requests
    <3>3. QED  BY <2>1, <3>1, <3>2 DEF Requests
  <2>2. QED  BY <2>1 DEF Covered
<1>5. QED  BY <1>2, <1>3, <1>4

\* Steps that take settled edits from the outbox, or give it new versions.
LEMMA ReceiptKeeps ==
  ASSUME Accounted, UNCHANGED edits, Lost, Flies, Informed, Touch \/ OutboxRests,
         IsQueue(pending)', settled \subseteq settled', undone \subseteq undone',
         \A r \in Records : pending[r] # None =>
           pending[r].edit \in settled' \/ (pending'[r] # None /\ pending'[r].edit = pending[r].edit)
  PROVE  Accounted'
<1>1. key' \in Keys /\ recorded' = [k \in Keys |-> recorded'[k]]
  BY TouchIsFresh DEF OutboxRests, Accounted, Shape, KeysShape
<1>2. FlightShape' /\ KeysShape' /\ Covered
  BY <1>1, LostKeeps DEF Accounted, Shape
<1>3. Checkpointed /\ MutationShape' /\ \A e : Waits(e) => Waits(e)'
  BY InformedKeeps DEF Accounted, Shape
<1>4. Named'
  BY <1>2, <1>3, RestingNames, TouchedNames DEF Accounted
<1>5. EditsKept'
  <2>1. \A e : Carries(pending, e) => Kept(e)'
    BY DEF Carries, Kept
  <2>2. QED  BY <1>3, <2>1, EditsStay DEF Accounted, Kept
<1>6. QueueShape'
  BY DEF Accounted, Shape, QueueShape
<1>7. QED  BY <1>2, <1>3, <1>4, <1>5, <1>6 DEF Accounted, Shape
\* An empty outbox starts over, any other change gets a new identity.
LEMMA RenewTouches ==
  ASSUME Renew
  PROVE  Touch \/ OutboxRests
BY DEF Renew, OutboxRests

\* New row versions leave a queue its edits.
LEMMA AtVersionKeeps ==
  ASSUME NEW queue, IsQueue(queue), NEW rv, NEW new, new = AtVersion(queue, rv)
  PROVE  /\ IsQueue(new)
         /\ \A r \in Records : /\ queue[r] = None => new[r] = None
                              /\ queue[r] # None => new[r] # None /\ new[r].edit = queue[r].edit
<1>1. new = [r \in Records |-> new[r]]
  BY DEF AtVersion
<1>2. ASSUME NEW r \in Records, queue[r] = None  PROVE new[r] = None
  BY <1>2 DEF AtVersion, None
<1>3. ASSUME NEW r \in Records, queue[r] # None
      PROVE  new[r] # None /\ new[r].edit = queue[r].edit /\ IsIntent(new[r])
  <2>1. IsIntent(queue[r])
    BY <1>3 DEF IsQueue
  <2>2. PICK st \in {"put", "patch", "del"}, e \in 1..edits : \E exp : queue[r] = AnIntent(st, exp, e)
    BY <2>1 DEF IsIntent
  <2>3. PICK exp : queue[r] = AnIntent(st, exp, e)
    BY <2>2
  <2>4. queue[r].st = st /\ queue[r].edit = e
    BY <2>3 DEF AnIntent
  <2>5. \E x : new[r] = AnIntent(st, x, e)
    <3>1. CASE rv[r] # 0
      <4>1. new[r] = [queue[r] EXCEPT !.exp = rv[r]]
        BY <2>4, <3>1 DEF AtVersion
      <4>2. new[r] = AnIntent(st, rv[r], e)
        BY <2>3, <4>1 DEF AnIntent
      <4>3. QED  BY <4>2
    <3>2. CASE rv[r] = 0
      BY <2>3, <2>4, <3>2 DEF AtVersion
    <3>3. QED  BY <3>1, <3>2
  <2>6. PICK x : new[r] = AnIntent(st, x, e)
    BY <2>5
  <2>7. new[r].st = st /\ new[r].edit = e
    BY <2>6 DEF AnIntent
  <2>8. new[r] # None
    BY <2>7 DEF None
  <2>9. QED  BY <2>4, <2>6, <2>7, <2>8 DEF IsIntent
<1>4. QED  BY <1>1, <1>2, <1>3 DEF IsQueue

\* Intents leave the outbox when their edits are settled.
LEMMA DropKeeps ==
  ASSUME Accounted, UNCHANGED edits, Lost, Flies, Informed, Touch \/ OutboxRests,
         NEW dropped, pending' = [r \in Records |-> IF r \in dropped THEN None ELSE pending[r]],
         settled \subseteq settled', undone \subseteq undone',
         \A r \in Records \cap dropped : pending[r] # None => pending[r].edit \in settled'
  PROVE  Accounted'
<1>1. \A r \in Records : pending'[r] = IF r \in dropped THEN None ELSE pending[r]
  OBVIOUS
<1>2. IsQueue(pending)'
  BY <1>1 DEF Accounted, Shape, QueueShape, IsQueue, IsIntent
<1>3. \A r \in Records : pending[r] # None =>
        pending[r].edit \in settled' \/ (pending'[r] # None /\ pending'[r].edit = pending[r].edit)
  BY <1>1
<1>4. QED  BY <1>2, <1>3, ReceiptKeeps

\* The receipt of a push settles the intents it carried, and no others.
LEMMA PushSucceedsKeeps ==
  ASSUME Accounted, PushSucceeds
  PROVE  Accounted'
<1>1. PICK rest : rest = Without(Sent)
  OBVIOUS
<1>2. PICK rv : rv = push.answer.rv
  OBVIOUS
<1>3. PICK new : new = AtVersion(rest, rv)
  OBVIOUS
<1>4. pending' = new
  BY <1>1, <1>2, <1>3 DEF PushSucceeds, Holds
<1>5. /\ UNCHANGED <<edits, undone, late, faults>> /\ push' = None
      /\ settled' = settled \cup {push.ops[r].edit : r \in Sent}
      /\ Touch \/ OutboxRests
  BY RenewTouches DEF PushSucceeds, Settle, AfterPush
<1>6. Informed
  BY DEF PushSucceeds, Told, Informed, Awaiting, Unstored, None
<1>7. IsQueue(rest)
  BY <1>1 DEF Accounted, Shape, QueueShape, Without, IsQueue
<1>8. /\ IsQueue(new)
      /\ \A r \in Records : /\ rest[r] = None => new[r] = None
                           /\ rest[r] # None => new[r] # None /\ new[r].edit = rest[r].edit
  BY <1>3, <1>7, AtVersionKeeps
<1>9. IsQueue(pending)'
  BY <1>4, <1>5, <1>8 DEF IsQueue, IsIntent
<1>10. ASSUME NEW r \in Records, pending[r] # None
       PROVE  pending[r].edit \in settled' \/ (pending'[r] # None /\ pending'[r].edit = pending[r].edit)
  <2>1. CASE r \in Sent
    BY <1>5, <2>1 DEF Sent
  <2>2. CASE r \notin Sent
    BY <1>1, <1>4, <1>8, <1>10, <2>2 DEF Without
  <2>3. QED  BY <2>1, <2>2
<1>11. Lost /\ Flies
  BY <1>5 DEF Lost, Flies
<1>12. QED  BY <1>5, <1>6, <1>9, <1>10, <1>11, ReceiptKeeps

LEMMA PushConflictsKeeps ==
  ASSUME Accounted, PushConflicts
  PROVE  Accounted'
<1>1. PICK dropped : dropped = Sent \cap push.answer.bad
  OBVIOUS
<1>2. /\ pending' = [r \in Records |-> IF r \in dropped THEN None ELSE pending[r]]
      /\ settled' = settled \cup {push.ops[r].edit : r \in dropped}
      /\ UNCHANGED <<edits, undone>>
  BY <1>1 DEF PushConflicts, Holds, Without, Settle
<1>3. UNCHANGED <<late, faults>> /\ Reloading /\ (Touch \/ OutboxRests)
  BY RenewTouches DEF PushConflicts, AfterPush, Reloading, Answered
<1>4. Informed
  BY DEF PushConflicts, Told, Informed, Awaiting, Unstored, None
<1>5. \A r \in Records \cap dropped : pending[r] # None => pending[r].edit \in settled'
  BY <1>1, <1>2 DEF Sent
<1>6. Lost /\ Flies
  BY <1>3 DEF Lost, Flies
<1>7. QED  BY <1>2, <1>3, <1>4, <1>5, <1>6, DropKeeps

LEMMA PushRejectedKeeps ==
  ASSUME Accounted, PushRejected
  PROVE  Accounted'
<1>1. PICK dropped \in SUBSET Sent :
        /\ pending' = [r \in Records |-> IF r \in dropped THEN None ELSE pending[r]]
        /\ settled' = settled \cup {push.ops[r].edit : r \in dropped}
        /\ UNCHANGED <<edits, undone>>
  BY DEF PushRejected, Holds, Without, Settle
<1>2. UNCHANGED <<late, faults>> /\ push' = None /\ (Touch \/ OutboxRests)
  BY RenewTouches DEF PushRejected, AfterPush
<1>3. Informed
  BY DEF PushRejected, Told, Informed, Awaiting, Unstored, None
<1>4. \A r \in Records \cap dropped : pending[r] # None => pending[r].edit \in settled'
  BY <1>1 DEF Sent
<1>5. Lost /\ Flies
  BY <1>2 DEF Lost, Flies
<1>6. QED  BY <1>1, <1>2, <1>3, <1>4, <1>5, DropKeeps

\* A pull settles deletions that are done anyway, and gives the outbox a new base.
LEMMA ApplyDeltaKeeps ==
  ASSUME Accounted, ApplyDelta
  PROVE  Accounted'
<1>1. PICK dropped : dropped = Gone(pull.got)
  OBVIOUS
<1>2. /\ pending' = [r \in Records |-> IF r \in dropped THEN None ELSE pending[r]]
      /\ settled' = settled \cup {pending[r].edit : r \in Queued \cap dropped}
      /\ UNCHANGED <<edits, undone, push, late, faults, mutation>>
  BY <1>1 DEF ApplyDelta, Commit, Acknowledge, Acknowledged, pausing
<1>3. Touch \/ OutboxRests
  BY RenewTouches DEF ApplyDelta
<1>4. \A r \in Records \cap dropped : pending[r] # None => pending[r].edit \in settled'
  BY <1>2 DEF Queued
<1>5. Lost /\ Flies /\ Informed
  BY <1>2 DEF Lost, Flies, Informed
<1>6. QED  BY <1>2, <1>3, <1>4, <1>5, DropKeeps

LEMMA ApplyFullKeeps ==
  ASSUME Accounted, ApplyFull
  PROVE  Accounted'
<1>1. PICK dropped : dropped = Vanished(pull)
  OBVIOUS
<1>2. /\ pending' = [r \in Records |-> IF r \in dropped THEN None ELSE pending[r]]
      /\ settled' = settled \cup {pending[r].edit : r \in Queued \cap dropped}
      /\ UNCHANGED <<edits, undone, late, faults, mutation>>
      /\ push' = None \/ push' = push
  BY <1>1 DEF ApplyFull, Commit, Holds, Acknowledge, Acknowledged, pausing
<1>3. Touch \/ OutboxRests
  BY RenewTouches DEF ApplyFull
<1>4. \A r \in Records \cap dropped : pending[r] # None => pending[r].edit \in settled'
  BY <1>2 DEF Queued
<1>5. Lost /\ Flies /\ Informed
  BY <1>2 DEF Lost, Flies, Informed
<1>6. QED  BY <1>2, <1>3, <1>4, <1>5, DropKeeps

LEMMA PushReusedKeeps ==
  ASSUME Accounted, PushReused
  PROVE  Accounted'
<1>1. /\ push' = None /\ UNCHANGED <<pending, base, mutation, edits, settled, undone, late, faults>>
      /\ Touch \/ OutboxRests
  BY DEF PushReused, AfterPush, history, OutboxRests
<1>2. Lost /\ Flies /\ Informed
  BY <1>1 DEF Lost, Flies, Informed
<1>3. IsQueue(pending)'
  BY <1>1 DEF Accounted, Shape, QueueShape, IsQueue, IsIntent
<1>4. QED  BY <1>1, <1>2, <1>3, ReceiptKeeps

\* What is lost or fails on its way leaves the outbox as it is.
LEMMA FaultKeeps ==
  ASSUME Accounted, UNCHANGED <<edits, pending, base, key, recorded, settled, undone>>,
         Lost, Flies, Informed
  PROVE  Accounted'
<1>1. OutboxRests
  BY DEF OutboxRests
<1>2. IsQueue(pending)'
  BY DEF Accounted, Shape, QueueShape, IsQueue, IsIntent
<1>3. QED  BY <1>1, <1>2, ReceiptKeeps

LEMMA PushKeeps ==
  ASSUME Accounted, Push
  PROVE  Accounted'
<1>1. /\ UNCHANGED <<edits, pending, key, recorded, late, faults, mutation, settled, undone>>
      /\ push' = [st |-> "sent", key |-> key, base |-> base, ops |-> Payload, void |-> FALSE]
      /\ Payload # Nothing
  BY DEF Push, server, browser, mutationQueue, pausing, history
<1>2. Named'
  BY SentNames DEF Accounted
<1>3. EditsKept'
  BY <1>1 DEF Accounted, EditsKept, Kept, Carries, Waits, Unstored
<1>4. FlightShape'
  <2>1. push' = Carried(push') /\ push'.ops # Nothing
    BY <1>1 DEF Carried
  <2>2. QED  BY <1>1, <2>1 DEF Accounted, Shape, FlightShape
<1>5. Shape'
  BY <1>1, <1>4 DEF Accounted, Shape, QueueShape, MutationShape, KeysShape, IsQueue, IsIntent
<1>6. QED  BY <1>2, <1>3, <1>5 DEF Accounted

\* The server executes a push, once for an identity (execute_sync_mutation).
LEMMA ServeKeeps ==
  ASSUME Accounted, NEW q \in Requests, q.ops # Nothing, Serve(q), Covered, FlightShape',
         UNCHANGED <<edits, pending, base, key, faults, mutation, settled, undone>>,
         late' \in {late, late \ {q}}
  PROVE  Accounted'
<1>1. recorded' = recorded \/ recorded' = [recorded EXCEPT ![q.key] = Outcome(q.ops)]
  BY DEF Serve
<1>2. Named'
  <2>1. Checkpointed
    BY DEF Checkpointed, Continues
  <2>2. QED  BY <1>1, <2>1, RestingNames, RecordedNames DEF Accounted, OutboxRests
<1>3. EditsKept'
  BY DEF Accounted, EditsKept, Kept, Carries, Waits, Unstored
<1>4. KeysShape'
  <2>1. IsFiniteSet(late') /\ Cardinality(late') <= Cardinality(late)
        /\ Cardinality(late') \in Nat /\ Cardinality(late) \in Nat
    BY FS_Subset, FS_CardinalityType DEF Accounted, Shape, KeysShape
  <2>2. recorded' = [k \in Keys |-> recorded'[k]]
    BY <1>1 DEF Accounted, Shape, KeysShape
  <2>3. faults \in Nat /\ Cardinality(late') <= faults
    BY <2>1, SyncAssumption DEF Accounted, Shape, KeysShape, SyncAssumption
  <2>4. QED  BY <2>1, <2>2, <2>3 DEF Accounted, Shape, KeysShape
<1>5. Shape'
  BY <1>4 DEF Accounted, Shape, QueueShape, MutationShape, IsQueue, IsIntent
<1>6. QED  BY <1>2, <1>3, <1>5 DEF Accounted

LEMMA ServePushKeeps ==
  ASSUME Accounted, ServePush
  PROVE  Accounted'
<1>1. /\ push # None /\ push.st = "sent" /\ Serve(push) /\ late' = late
      /\ UNCHANGED <<edits, pending, base, key, faults, mutation, settled, undone>>
      /\ push' = [st |-> "answered", key |-> push.key, base |-> push.base,
                  ops |-> push.ops, void |-> push.void, answer |-> Answer(push)]
  BY DEF ServePush, browser, mutationQueue, pausing
<1>2. push \in Requests /\ push.ops # Nothing
  BY <1>1 DEF Requests, Accounted, Shape, FlightShape
<1>3. push' = Replied(push') /\ push'.ops # Nothing
  BY <1>1, <1>2 DEF Replied
<1>4. Covered
  BY <1>1, <1>2 DEF Covered, Requests
<1>5. FlightShape'
  BY <1>1, <1>3 DEF Accounted, Shape, FlightShape
<1>6. QED  BY <1>1, <1>2, <1>4, <1>5, ServeKeeps

LEMMA ServeLateKeeps ==
  ASSUME Accounted, NEW q, ServeLate(q)
  PROVE  Accounted'
<1>1. /\ q \in late /\ Serve(q) /\ late' = late \ {q} /\ push' = push
      /\ UNCHANGED <<edits, pending, base, key, faults, mutation, settled, undone>>
  BY DEF ServeLate, browser, mutationQueue, pausing
<1>2. q \in Requests /\ q.ops # Nothing
  BY <1>1 DEF Requests, Accounted, Shape, FlightShape
<1>3. Covered
  BY <1>1 DEF Covered, Requests
<1>4. FlightShape'
  BY <1>1 DEF Accounted, Shape, FlightShape
<1>5. QED  BY <1>1, <1>2, <1>3, <1>4, ServeKeeps

\* The page is left: a mutation ends where it is, and an edit that was not queued
\* is undone.
LEMMA ReenterKeeps ==
  ASSUME Accounted, Reenter
  PROVE  Accounted'
<1>1. /\ UNCHANGED <<edits, pending, base, key, recorded, settled>> /\ mutation' = None
      /\ push' = None /\ faults < MaxFaults /\ faults' = faults + 1 /\ late' = Abandoned
      /\ undone' = IF Unstored THEN undone \cup {mutation.intent.edit} ELSE undone
  BY DEF Reenter, server, mutationQueue
<1>2. Lost /\ Flies
  BY <1>1 DEF Lost, Flies, Abandoned
<1>3. FlightShape' /\ KeysShape' /\ Covered
  BY <1>1, <1>2, LostKeeps DEF Accounted, Shape, KeysShape
<1>4. Named'
  <2>1. Checkpointed /\ OutboxRests
    BY <1>1 DEF Checkpointed, OutboxRests
  <2>2. QED  BY <1>3, <2>1, RestingNames DEF Accounted
<1>5. EditsKept'
  BY <1>1 DEF Accounted, EditsKept, Kept, Carries, Waits
<1>6. Shape'
  BY <1>1, <1>3 DEF Accounted, Shape, QueueShape, MutationShape, IsQueue, IsIntent
<1>7. QED  BY <1>4, <1>5, <1>6 DEF Accounted

-----------------------------------------------------------------------------
\* A change of the user is a new edit.
NewIntent(i) == \E st \in {"put", "patch", "del"} : \E exp : i = AnIntent(st, exp, edits + 1)

LEMMA ChangeIsNew ==
  ASSUME NEW r \in Records, NEW change,
         change \in Changes(r) \/ change \in {PatchOf(r), Deletion(r), Creation}
  PROVE  NewIntent(change.intent)
<1>1. \/ change.intent = Put(local[r].rv, edits + 1)
      \/ change.intent = Patch(local[r].rv, edits + 1)
      \/ change.intent = Del(local[r].rv, edits + 1)
      \/ change.intent = Put(0, edits + 1)
  BY DEF Changes, PatchOf, Deletion, Creation, Change
<1>2. \/ change.intent = AnIntent("put", local[r].rv, edits + 1)
      \/ change.intent = AnIntent("patch", local[r].rv, edits + 1)
      \/ change.intent = AnIntent("del", local[r].rv, edits + 1)
      \/ change.intent = AnIntent("put", 0, edits + 1)
  BY <1>1 DEF AnIntent, Put, Patch, Del
<1>3. QED  BY <1>2 DEF NewIntent

\* An intent of the edits made so far is queued, and the older one of its record
\* leaves with an outcome.
LEMMA EnqueueKeeps ==
  ASSUME IsQueue(pending), EditsKept, NEW r \in Records, NEW i, EnqueueIntent(r, i),
         edits \in Nat, edits' \in Nat, edits' >= edits, IsIntent(i)',
         \A e \in 1..edits' : e \in 1..edits \/ e = i.edit,
         \A e : Waits(e) => e = i.edit \/ Waits(e)'
  PROVE  IsQueue(pending)' /\ EditsKept'
<1>1. /\ settled' = settled \cup {pending[x].edit : x \in Queued \cap {r}}
      /\ pending' = [pending EXCEPT ![r] = i] /\ undone' = undone
  BY DEF EnqueueIntent
<1>2. /\ pending' = [x \in Records |-> pending'[x]] /\ pending'[r] = i
      /\ \A x \in Records \ {r} : pending'[x] = pending[x]
  BY <1>1 DEF IsQueue
<1>3. i # None
  BY DEF IsIntent, AnIntent, None
<1>4. IsQueue(pending)'
  <2>1. \A j : IsIntent(j) => IsIntent(j)'
    BY QueueStays
  <2>2. ASSUME NEW x \in Records  PROVE (pending[x] = None \/ IsIntent(pending[x]))'
    <3>1. CASE x = r
      BY <1>2, <3>1 DEF IsIntent
    <3>2. CASE x # r /\ pending[x] = None
      BY <1>2, <3>2
    <3>3. CASE x # r /\ pending[x] # None
      <4>1. IsIntent(pending[x])
        BY <3>3 DEF IsQueue
      <4>2. 1..edits \subseteq 1..edits'
        OBVIOUS
      <4>3. QED  BY <1>2, <3>3, <4>1, <4>2 DEF IsIntent
    <3>4. QED  BY <3>1, <3>2, <3>3
  <2>3. QED  BY <1>2, <2>2 DEF IsQueue
<1>5. ASSUME NEW e \in 1..edits'  PROVE Kept(e)'
  <2>1. CASE e = i.edit
    BY <1>2, <1>3, <2>1 DEF Kept, Carries
  <2>2. CASE e # i.edit
    <3>1. e \in settled \/ e \in undone \/ Carries(pending, e) \/ Waits(e)
      BY <2>2 DEF EditsKept, Kept
    <3>2. CASE Carries(pending, e)
      <4>1. PICK x \in Records : pending[x] # None /\ pending[x].edit = e
        BY <3>2 DEF Carries
      <4>2. CASE x = r
        BY <1>1, <4>1, <4>2 DEF Queued, Kept
      <4>3. CASE x # r
        BY <1>2, <4>1, <4>3 DEF Kept, Carries
      <4>4. QED  BY <4>2, <4>3
    <3>3. CASE Waits(e)
      BY <2>2, <3>3 DEF Kept
    <3>4. QED  BY <1>1, <3>1, <3>2, <3>3 DEF Kept
  <2>3. QED  BY <2>1, <2>2
<1>6. QED  BY <1>4, <1>5 DEF EditsKept

\* A mutation takes its checkpoint.
LEMMA PausedShape ==
  ASSUME Accounted, NEW st, st # "none", NEW r \in Records, NEW change, NewIntent(change.intent),
         NEW scope, mutation' = Paused(st, r, change, scope), edits' = edits + 1, edits < MaxEdits
  PROVE  /\ MutationShape' /\ Begins /\ mutation'.intent = change.intent
         /\ mutation'.st = st /\ mutation'.rec = r
         /\ edits' \in 0..MaxEdits /\ edits' \in Nat /\ edits \in Nat
         /\ IsIntent(change.intent)' /\ change.intent.edit = edits + 1
<1>1. edits \in Nat /\ edits' \in Nat /\ edits' \in 0..MaxEdits /\ edits + 1 \in 1..edits'
  BY SyncAssumption DEF SyncAssumption, Accounted, Shape, QueueShape
<1>2. PICK kind \in {"put", "patch", "del"} : \E exp : change.intent = AnIntent(kind, exp, edits + 1)
  BY DEF NewIntent
<1>3. change.intent.edit = edits + 1
  BY <1>2 DEF AnIntent
<1>4. ASSUME NEW i, i = change.intent  PROVE IsIntent(i)'
  BY <1>1, <1>2, <1>4 DEF IsIntent
<1>5. /\ mutation' = Fields(mutation') /\ mutation'.intent = change.intent
      /\ mutation'.st = st /\ mutation'.rec = r /\ mutation'.queue = pending
      /\ mutation'.base = base /\ mutation'.key = key
  BY DEF Paused, Fields
<1>6. mutation' # None
  BY <1>5 DEF None
<1>7. IsQueue(pending) /\ key \in Keys
  BY DEF Accounted, Shape, QueueShape, KeysShape
<1>8. PICK queue : queue = pending
  OBVIOUS
<1>9. IsQueue(queue)'
  BY <1>1, <1>7, <1>8, QueueStays
<1>10. IsQueue(mutation.queue)'
  BY <1>5, <1>8, <1>9 DEF IsQueue
<1>11. IsIntent(mutation.intent)'
  BY <1>4, <1>5 DEF IsIntent
<1>12. MutationShape'
  BY <1>5, <1>7, <1>10, <1>11 DEF MutationShape
<1>13. QED  BY <1>1, <1>3, <1>4, <1>5, <1>6, <1>12 DEF Begins, IsIntent

\* The user saves, drafts or imports: outbox and replica at once.
LEMMA StageKeeps ==
  ASSUME Accounted, NEW r \in Records, NEW change, NewIntent(change.intent),
         StageNow(r, change), Touch,
         mutation' = mutation \/ (mutation = None /\ mutation' = Paused("awaiting", r, change, {r}))
  PROVE  Accounted'
<1>1. /\ EnqueueIntent(r, change.intent) /\ edits < MaxEdits /\ edits' = edits + 1
      /\ UNCHANGED <<push, late, faults>>
  BY DEF StageNow, NextEdit, network
<1>2. edits \in Nat /\ edits' \in Nat /\ edits' \in 0..MaxEdits /\ edits + 1 \in 1..edits'
  BY <1>1, SyncAssumption DEF SyncAssumption, Accounted, Shape, QueueShape
<1>3. PICK i : i = change.intent
  OBVIOUS
<1>4. i.edit = edits + 1 /\ IsIntent(i)'
  <2>1. PICK kind \in {"put", "patch", "del"} : \E exp : i = AnIntent(kind, exp, edits + 1)
    BY <1>3 DEF NewIntent
  <2>2. i.edit = edits + 1
    BY <2>1 DEF AnIntent
  <2>3. QED  BY <1>2, <2>1, <2>2 DEF IsIntent
<1>5. MutationShape' /\ Checkpointed /\ \A e : Waits(e) => Waits(e)'
  <2>1. CASE mutation' = mutation
    <3>1. Checkpointed /\ \A e : Waits(e) => Waits(e)'
      BY <2>1 DEF Checkpointed, Continues, Waits, Unstored
    <3>2. ASSUME mutation # None
          PROVE  IsQueue(mutation.queue)' /\ IsIntent(mutation.intent)'
      <4>1. PICK queue, j : queue = mutation.queue /\ j = mutation.intent
        OBVIOUS
      <4>2. IsQueue(queue)' /\ IsIntent(j)'
        BY <1>1, <1>2, <3>2, <4>1, QueueStays DEF Accounted, Shape, MutationShape
      <4>3. QED  BY <2>1, <4>1, <4>2 DEF IsQueue, IsIntent
    <3>3. MutationShape'
      BY <2>1, <3>2 DEF MutationShape, Accounted, Shape
    <3>4. QED  BY <3>1, <3>3
  <2>2. CASE mutation = None /\ mutation' = Paused("awaiting", r, change, {r})
    <3>1. MutationShape' /\ Begins
      BY <1>1, <2>2, PausedShape
    <3>2. \A e : ~Waits(e)
      BY <2>2 DEF Waits, Unstored, None
    <3>3. QED  BY <3>1, <3>2 DEF Checkpointed
  <2>3. QED  BY <2>1, <2>2
<1>6. IsQueue(pending)' /\ EditsKept'
  <2>1. \A e \in 1..edits' : e \in 1..edits \/ e = i.edit
    BY <1>1, <1>2, <1>4
  <2>2. IsQueue(pending) /\ EditsKept /\ edits' >= edits /\ EnqueueIntent(r, i)
    BY <1>1, <1>2, <1>3 DEF Accounted, Shape, QueueShape
  <2>3. QED  BY <1>2, <1>4, <1>5, <2>1, <2>2, EnqueueKeeps
<1>7. Named'
  <2>1. Covered
    BY <1>1 DEF Covered, Requests
  <2>2. QED  BY <1>5, <2>1, TouchedNames DEF Accounted
<1>8. FlightShape' /\ KeysShape'
  BY <1>1, TouchIsFresh DEF Accounted, Shape, FlightShape, KeysShape
<1>9. QED  BY <1>2, <1>5, <1>6, <1>7, <1>8 DEF Accounted, Shape, QueueShape

\* A record or a batch is to be stored: its edit waits.
LEMMA BeginKeeps ==
  ASSUME Accounted, mutation = None, NextEdit, NEW st \in {"record", "batch"}, NEW r \in Records,
         NEW change, NewIntent(change.intent), NEW scope, mutation' = Paused(st, r, change, scope),
         OnlyMutation
  PROVE  Accounted'
<1>1. /\ edits < MaxEdits /\ edits' = edits + 1
      /\ UNCHANGED <<pending, base, key, recorded, push, late, faults, settled, undone>>
  BY DEF NextEdit, OnlyMutation, server, mutationQueue, network
<1>2. /\ MutationShape' /\ Begins /\ mutation'.intent = change.intent /\ mutation'.st = st
      /\ edits' \in 0..MaxEdits /\ edits' \in Nat /\ edits \in Nat
      /\ change.intent.edit = edits + 1
  <2>1. st # "none"
    OBVIOUS
  <2>2. QED  BY <1>1, <2>1, PausedShape
<1>3. IsQueue(pending)'
  <2>1. PICK queue : queue = pending
    OBVIOUS
  <2>2. IsQueue(queue)'
    BY <1>1, <1>2, <2>1, QueueStays DEF Accounted, Shape, QueueShape
  <2>3. QED  BY <1>1, <2>1, <2>2 DEF IsQueue
<1>4. EditsKept'
  <2>1. \A e : ~Waits(e)
    BY DEF Waits, Unstored, None
  <2>2. ASSUME NEW e \in 1..edits'  PROVE Kept(e)'
    <3>1. CASE e = edits + 1
      BY <1>2, <3>1 DEF Kept, Waits, Unstored
    <3>2. CASE e # edits + 1
      <4>1. e \in 1..edits
        BY <1>1, <1>2, <3>2
      <4>2. QED  BY <1>1, <2>1, <4>1 DEF Accounted, EditsKept, Kept, Carries
    <3>3. QED  BY <3>1, <3>2
  <2>3. QED  BY <2>2 DEF EditsKept
<1>5. Named'
  <2>1. Covered /\ Checkpointed /\ OutboxRests
    BY <1>1, <1>2 DEF Covered, Requests, Checkpointed, OutboxRests
  <2>2. QED  BY <2>1, RestingNames DEF Accounted
<1>6. FlightShape' /\ KeysShape'
  BY <1>1 DEF Accounted, Shape, FlightShape, KeysShape
<1>7. QED  BY <1>2, <1>3, <1>4, <1>5, <1>6 DEF Accounted, Shape, QueueShape

\* It is stored, and queued.
LEMMA EndKeeps ==
  ASSUME Accounted, Unstored, EnqueueIntent(mutation.rec, mutation.intent), mutation' = None,
         UNCHANGED <<push, late, faults, edits>>, Touch
  PROVE  Accounted'
<1>1. mutation # None
  BY DEF Unstored, None
<1>2. PICK r, i : r = mutation.rec /\ i = mutation.intent
  OBVIOUS
<1>3. r \in Records /\ IsIntent(i)' /\ edits \in Nat /\ EnqueueIntent(r, i)
  BY <1>1, <1>2, SyncAssumption
     DEF Accounted, Shape, QueueShape, MutationShape, IsIntent, SyncAssumption
<1>4. IsQueue(pending)' /\ EditsKept'
  <2>1. \A e : Waits(e) => e = i.edit
    BY <1>2 DEF Waits
  <2>2. edits' \in Nat /\ edits' >= edits /\ \A e \in 1..edits' : e \in 1..edits
    BY <1>3
  <2>3. QED  BY <1>3, <2>1, <2>2, EnqueueKeeps DEF Accounted, Shape, QueueShape
<1>5. Named'
  <2>1. Covered /\ Checkpointed
    BY DEF Covered, Requests, Checkpointed
  <2>2. QED  BY <2>1, TouchedNames DEF Accounted
<1>6. FlightShape' /\ KeysShape' /\ MutationShape'
  BY TouchIsFresh DEF Accounted, Shape, FlightShape, KeysShape, MutationShape
<1>7. QED  BY <1>4, <1>5, <1>6 DEF Accounted, Shape, QueueShape

\* outbox.restore: what is queued since the checkpoint, and the edit itself, is undone.
LEMMA RestoreKeeps ==
  ASSUME Accounted, mutation # None, RestoreOutbox, Lost, late' = late,
         UNCHANGED <<recorded, edits, settled>>
  PROVE  Accounted'
<1>1. /\ pending' = mutation.queue /\ base' = mutation.base /\ key' = mutation.key
      /\ mutation' = None
      /\ undone' = undone \cup ((EditsOf(pending) \cup {mutation.intent.edit})
                                \ EditsOf(mutation.queue))
  BY DEF RestoreOutbox
<1>2. Flies
  BY DEF RestoreOutbox, Flies, Unanswerable
<1>3. key' \in Keys /\ recorded' = [k \in Keys |-> recorded'[k]]
  BY <1>1 DEF Accounted, Shape, MutationShape, KeysShape
<1>4. FlightShape' /\ KeysShape' /\ Covered
  BY <1>2, <1>3, LostKeeps DEF Accounted, Shape
<1>5. Named'
  BY <1>1, <1>4, RestoredNames DEF Accounted
<1>6. IsQueue(pending)'
  BY <1>1 DEF Accounted, Shape, MutationShape, IsQueue, IsIntent
<1>7. EditsKept'
  <2>1. \A e : e \in EditsOf(mutation.queue) => Carries(pending, e)'
    BY <1>1 DEF EditsOf, Carries
  <2>2. \A e : Carries(pending, e) => e \in EditsOf(pending)
    BY DEF EditsOf, Carries
  <2>3. \A e : Carries(pending, e) \/ Waits(e) => Kept(e)'
    BY <1>1, <2>1, <2>2 DEF Kept, Waits
  <2>4. undone \subseteq undone'
    BY <1>1
  <2>5. QED  BY <2>3, <2>4, EditsStay DEF Accounted
<1>8. MutationShape' /\ QueueShape'
  BY <1>1, <1>6 DEF Accounted, Shape, MutationShape, QueueShape
<1>9. QED  BY <1>4, <1>5, <1>7, <1>8 DEF Accounted, Shape

-----------------------------------------------------------------------------
(***************************************************************************)
(* The theorems.                                                           *)
(***************************************************************************)
LEMMA AccountedInit ==
  ASSUME Init
  PROVE  Accounted
<1>1. MaxEdits \in Nat /\ MaxFaults \in Nat /\ Requests = {} /\ edits = 0 /\ mutation = None
  BY SyncAssumption DEF SyncAssumption, Init, Requests
<1>2. QueueShape /\ MutationShape /\ FlightShape
  BY <1>1 DEF Init, QueueShape, MutationShape, FlightShape, IsQueue, Nothing
<1>3. KeysShape
  <2>1. IsFiniteSet(late) /\ Cardinality(late) = 0
    BY FS_EmptySet DEF Init
  <2>2. QED  BY <1>1, <2>1 DEF Init, KeysShape, Keys
<1>4. EditsKept
  BY <1>1 DEF EditsKept
<1>5. Named
  BY <1>1, <1>3 DEF Named, OutboxIsNamed, CheckpointIsNamed, Names, Init, KeysShape
<1>6. QED  BY <1>2, <1>3, <1>4, <1>5 DEF Accounted, Shape

LEMMA BrowserKeeps ==
  ASSUME Accounted, BrowserStep
  PROVE  Accounted'
<1>1. CASE Push
  BY <1>1, PushKeeps
<1>2. CASE PushSucceeds
  BY <1>2, PushSucceedsKeeps
<1>3. CASE PushConflicts
  BY <1>3, PushConflictsKeeps
<1>4. CASE PushRejected
  BY <1>4, PushRejectedKeeps
<1>5. CASE PushReused
  BY <1>5, PushReusedKeeps
<1>6. CASE ApplyDelta
  BY <1>6, ApplyDeltaKeeps
<1>7. CASE ApplyFull
  BY <1>7, ApplyFullKeeps
<1>8. CASE StoreRecord
  BY <1>8, QuietKeeps DEF StoreRecord, server, mutationQueue, network, history
<1>9. CASE EndRecord \/ EndBatch
  BY <1>9, EndKeeps DEF EndRecord, EndBatch, Unstored, network
<1>10. CASE ImportRefused
  <2>1. /\ UNCHANGED <<edits, pending, base, key, recorded, settled, undone, push, late>>
        /\ mutation.st = "awaiting" /\ mutation' = [mutation EXCEPT !.st = "refused"]
        /\ faults' = faults \/ (faults < MaxFaults /\ faults' = faults + 1)
    BY <1>10 DEF ImportRefused, server, browser, mutationQueue, history
  <2>2. mutation # None /\ ~Unstored
    BY <2>1 DEF None, Unstored
  <2>3. Lost /\ Flies /\ Informed
    BY <2>1, <2>2 DEF Lost, Flies, Informed
  <2>4. QED  BY <2>1, <2>3, FaultKeeps
<1>11. CASE PutBack
  <2>1. /\ UNCHANGED <<edits, pending, base, key, recorded, settled, undone, push, late, faults>>
        /\ mutation.st = "refused" /\ mutation' = [mutation EXCEPT !.st = "putback"]
    BY <1>11 DEF PutBack, server, mutationQueue, network, history
  <2>2. mutation # None /\ ~Unstored
    BY <2>1 DEF None, Unstored
  <2>3. Lost /\ Flies /\ Informed
    BY <2>1, <2>2 DEF Lost, Flies, Informed
  <2>4. QED  BY <2>1, <2>3, FaultKeeps
<1>12. CASE RollBack
  <2>1. mutation # None /\ RestoreOutbox /\ UNCHANGED <<recorded, edits, settled, late, faults>>
    BY <1>12 DEF RollBack, server, None
  <2>2. QED  BY <2>1, RestoreKeeps DEF Lost
<1>13. CASE \E r \in Records : Restore(r)
  BY <1>13, QuietKeeps DEF Restore, server, mutationQueue, network, pausing, history
<1>14. QED  BY <1>1, <1>2, <1>3, <1>4, <1>5, <1>6, <1>7, <1>8, <1>9, <1>10, <1>11, <1>12, <1>13
            DEF BrowserStep

LEMMA OtherKeeps ==
  ASSUME Accounted, ServerStep \/ FaultStep \/ StartPull \/ ManualRetry
  PROVE  Accounted'
<1>1. CASE ServePush
  BY <1>1, ServePushKeeps
<1>2. CASE RemoteCommit
  BY <1>2, QuietKeeps DEF RemoteCommit, browser, mutationQueue, network, pausing, history
<1>3. CASE ReadPage \/ ReadFull
  BY <1>3, QuietKeeps DEF ReadPage, ReadFull, server, browser, mutationQueue, pausing, history
<1>4. CASE \E q \in late : ServeLate(q)
  BY <1>4, ServeLateKeeps
<1>5. CASE PushLost
  <2>1. /\ UNCHANGED <<edits, pending, base, key, recorded, settled, undone>>
        /\ faults < MaxFaults /\ faults' = faults + 1 /\ late' = Abandoned /\ push' = None
    BY <1>5 DEF PushLost, server, browser, mutationQueue, history
  <2>2. Lost /\ Flies
    BY <2>1 DEF Lost, Flies, Abandoned
  <2>3. Informed
    BY <1>5 DEF PushLost, Told, Informed, Awaiting, Unstored, None
  <2>4. QED  BY <2>1, <2>2, <2>3, FaultKeeps
<1>6. CASE PullFails
  <2>1. /\ UNCHANGED <<edits, pending, base, key, recorded, settled, undone, late, mutation>>
        /\ faults < MaxFaults /\ faults' = faults + 1 /\ push' \in {None, push}
    BY <1>6 DEF PullFails, server, mutationQueue, history, pausing
  <2>2. Lost /\ Flies /\ Informed
    BY <2>1 DEF Lost, Flies, Informed
  <2>3. QED  BY <2>1, <2>2, FaultKeeps
<1>7. CASE DropStray
  BY <1>7, QuietKeeps DEF DropStray, server, browser, mutationQueue, pausing, history
<1>8. CASE StoreFails
  <2>1. /\ mutation # None /\ RestoreOutbox /\ UNCHANGED <<recorded, edits, settled, late>>
        /\ faults < MaxFaults /\ faults' = faults + 1
    BY <1>8 DEF StoreFails, server, None
  <2>2. QED  BY <2>1, RestoreKeeps DEF Lost
<1>9. CASE Reenter
  BY <1>9, ReenterKeeps
<1>10. CASE StartPull \/ ManualRetry
  BY <1>10, QuietKeeps DEF StartPull, ManualRetry, server, browser, mutationQueue, pausing, history
<1>11. QED  BY <1>1, <1>2, <1>3, <1>4, <1>5, <1>6, <1>7, <1>8, <1>9, <1>10 DEF ServerStep, FaultStep

LEMMA RecordKeeps ==
  ASSUME Accounted, NEW r \in Records,
         RecordStep(r) \/ RemoteBegin(r) \/ AskRecord(r)
           \/ BeginImport(r) \/ BeginRecord(r) \/ BeginBatch(r)
  PROVE  Accounted'
<1>1. CASE Save(r)
  <2>1. PICK change \in Changes(r) : StageNow(r, change)
    BY <1>1 DEF Save
  <2>2. QED  BY <1>1, <2>1, ChangeIsNew, StageKeeps DEF Save
<1>2. CASE PatchDraft(r)
  <2>1. PICK change : change = PatchOf(r)
    OBVIOUS
  <2>2. NewIntent(change.intent) /\ StageNow(r, change)
    BY <1>2, <2>1, ChangeIsNew DEF PatchDraft
  <2>3. QED  BY <1>2, <2>2, StageKeeps DEF PatchDraft
<1>3. CASE ListPage(r)
  BY <1>3, QuietKeeps DEF ListPage, server, mutationQueue, network, pausing, history
<1>4. CASE StartRoutePull(r)
  BY <1>4, QuietKeeps DEF StartRoutePull, server, browser, mutationQueue, pausing, history
<1>5. CASE PurgeTombstone(r)
  BY <1>5, QuietKeeps DEF PurgeTombstone, browser, mutationQueue, network, pausing, history
<1>6. CASE RemoteBegin(r)
  BY <1>6, QuietKeeps DEF RemoteBegin, browser, mutationQueue, network, pausing, history
<1>7. CASE AskRecord(r)
  BY <1>7, QuietKeeps DEF AskRecord, server, browser, mutationQueue, network, history
<1>8. CASE BeginImport(r)
  <2>1. PICK change \in Changes(r) : /\ StageNow(r, change) /\ Touch
                                    /\ mutation' = Paused("awaiting", r, change, {r})
    BY <1>8 DEF BeginImport
  <2>2. mutation = None
    BY <1>8 DEF BeginImport
  <2>3. QED  BY <2>1, <2>2, ChangeIsNew, StageKeeps
<1>9. CASE BeginRecord(r)
  <2>1. PICK change \in Changes(r) : mutation' = Paused("record", r, change, {r})
    BY <1>9 DEF BeginRecord
  <2>2. mutation = None /\ NextEdit /\ OnlyMutation
    BY <1>9 DEF BeginRecord
  <2>3. QED  BY <2>1, <2>2, ChangeIsNew, BeginKeeps
<1>10. CASE BeginBatch(r)
  <2>1. PICK change \in {Deletion(r), Creation} : mutation' = Paused("batch", r, change, Light)
    BY <1>10 DEF BeginBatch
  <2>2. mutation = None /\ NextEdit /\ OnlyMutation
    BY <1>10 DEF BeginBatch
  <2>3. QED  BY <2>1, <2>2, ChangeIsNew, BeginKeeps
<1>11. QED  BY <1>1, <1>2, <1>3, <1>4, <1>5, <1>6, <1>7, <1>8, <1>9, <1>10 DEF RecordStep

LEMMA AccountedStep ==
  ASSUME Accounted, [Next]_vars
  PROVE  Accounted'
<1>1. CASE UNCHANGED vars
  BY <1>1, QuietKeeps DEF vars, server, browser, mutationQueue, network, pausing, history
<1>2. CASE Next
  BY <1>2, BrowserKeeps, OtherKeeps, RecordKeeps DEF Next
<1>3. QED  BY <1>1, <1>2

\* The outbox accounts for every edit and keeps its identities apart throughout.
THEOREM OutboxIsAccounted == Spec => []Accounted
<1>1. Init => Accounted
  BY AccountedInit
<1>2. Accounted /\ [Next]_vars => Accounted'
  BY AccountedStep
<1>3. QED  BY <1>1, <1>2, PTL DEF Spec

\* A clientMutationId that is presented again stands for the payload it was given for
\* as long as no patch is queued, whose payload is made when it is sent
\* (IDEMPOTENCY_KEY_REUSED is due for patches only).
THEOREM IdentitiesKeepTheirPayload == Spec => []KeyNamesOnePayload
<1>1. Accounted => KeyNamesOnePayload
  BY DEF Accounted, Named, OutboxIsNamed, Names, KeyNamesOnePayload
<1>2. QED  BY <1>1, OutboxIsAccounted, PTL

\* A local edit leaves the outbox when the user supersedes it or the server commits,
\* refuses or voids it, not with the receipt of an older edit (pushLifecycle.js); only the
\* rollback of a failed mutation takes along what was queued since its checkpoint.
THEOREM EditsAreAccountedFor == Spec => []NoEditIsLost
<1>1. Accounted => NoEditIsLost
  <2>1. \A e : Carries(pending, e) => e \in EditsOf(pending)
    BY DEF Carries, EditsOf
  <2>2. \A e : Waits(e) => mutation # None /\ mutation.intent.edit = e
    BY DEF Waits, Unstored, None
  <2>3. QED  BY <2>1, <2>2 DEF Accounted, EditsKept, Kept, NoEditIsLost
<1>2. QED  BY <1>1, OutboxIsAccounted, PTL
=============================================================================
