-------------------------------- MODULE Sync --------------------------------
(***************************************************************************)
(* Offline-first synchronisation of one workspace: the organization's rows *)
(* and tombstones on the server, the browser's replica of them with its    *)
(* pull cursor, and the outbox of local edits it pushes in batches.        *)
(*                                                                         *)
(* The unit of the model is a record of one of two tables.  The table the  *)
(* server pages (Heavy) is not part of a full snapshot: the browser keeps  *)
(* what it has and learns only which ids still exist.  Every other edit of *)
(* the same organization, by whatever route, is a Remote write.            *)
(*                                                                         *)
(* The user's edits take three ways to the outbox: at once with the change *)
(* of the replica, after it (a record is stored in between), or with it    *)
(* after a pause (a batch is stored first).  What fails on the way is      *)
(* undone from a checkpoint of the whole outbox.                           *)
(***************************************************************************)
EXTENDS Integers, FiniteSets, FiniteSetsExt

CONSTANTS Records,     \* record ids, naturals: pages are ordered by them
          Heavy,       \* records of the tables read page by page
          PageSize,    \* items of one delta page
          MaxVersion,  \* model bound: sync versions
          MaxEdits,    \* model bound: local edits
          MaxFaults    \* model bound: lost answers, aborted pulls, restarts

ASSUME SyncAssumption == /\ Records \subseteq Nat /\ IsFiniteSet(Records) /\ Heavy \subseteq Records
                         /\ PageSize \in Nat \ {0}
                         /\ {MaxVersion, MaxEdits, MaxFaults} \subseteq Nat

VARIABLES version,   \* sync_metadata.current_version
          minAvail,  \* sync_metadata.min_available_version
          row,       \* a record's row, or its tombstone in deleted_records
          open,      \* the record another transaction is writing, holding the counter's row lock
          recorded,  \* sync_mutations: the outcome of a clientMutationId
          local,     \* the browser's replica
          cursor,    \* bf_last_sync_version; 0 asks for everything
          pending,   \* the outbox: one intent per record
          base,      \* the outbox's baseSyncVersion
          key,       \* the outbox's clientMutationId
          push,      \* the push in flight
          late,      \* pushes the browser gave up on and the network still has
          pull,      \* the pull in flight
          stray,     \* an answer to a pull that was superseded
          blocked,   \* _syncConflict: no push before a manual retry
          restoring, \* rejected records whose server state is to be fetched
          owed,      \* history: records shown by other means than a pull
          faults,
          mutation,  \* an edit that awaits IndexedDB or its push, with its checkpoint
          lookup,    \* the answer of a record lookup under way
          edits, settled, undone, revived, applied  \* history of the local edits
server == <<version, minAvail, row, open, recorded>>
mutationQueue == <<pending, base, key>>
browser == <<local, cursor, mutationQueue, blocked, restoring, owed>>
network == <<push, late, pull, stray, faults>>
pausing == <<mutation, lookup>>
history == <<edits, settled, undone, revived, applied>>
vars == <<server, browser, network, pausing, history>>

None == [st |-> "none"]
Nothing == [r \in Records |-> None]
Light == Records \ Heavy
TableOf(r) == IF r \in Heavy THEN Heavy ELSE Light
Edits == 1..MaxEdits
\* Identities are fresh; one nobody can present again is free for reuse.
Keys == 1..(MaxFaults + 4)

Row(st, rv, sv, val) == [st |-> st, rv |-> rv, sv |-> sv, val |-> val]
Shown(rv, val) == [st |-> "shown", rv |-> rv, val |-> val]
Put(rv, e) == [st |-> "put", exp |-> rv, edit |-> e]
Patch(rv, e) == [st |-> "patch", exp |-> rv, edit |-> e]
Del(rv, e) == [st |-> "del", exp |-> rv, edit |-> e]

Init == /\ version = 1 /\ minAvail = 0 /\ open = 0
        /\ row \in [Records -> {Row("live", 1, 1, 0), Row("new", 0, 0, 0)}]
        /\ \A r \in Heavy : row[r].st = "live"
        /\ recorded = [k \in Keys |-> None]
        /\ local = [r \in Records |-> IF row[r].st = "live" THEN Shown(1, 0) ELSE None]
        /\ cursor = 1 /\ pending = Nothing /\ base = 1 /\ key = 1
        /\ push = None /\ late = {} /\ pull = None /\ stray = None
        /\ blocked = FALSE /\ restoring = {} /\ owed = {} /\ mutation = None /\ lookup = None
        /\ faults = 0 /\ edits = 0 /\ settled = {} /\ undone = {} /\ revived = {}
        /\ applied = [e \in Edits |-> 0]

-----------------------------------------------------------------------------
Queued == {r \in Records : pending[r] # None}
Requests == late \cup (IF push # None THEN {push} ELSE {})
KeysInUse == {key} \cup {q.key : q \in Requests} \cup (IF mutation # None THEN {mutation.key} ELSE {})
\* _touchForNewPayload: a changed payload gets a new identity.  The outcomes of
\* identities nobody holds any more are forgotten.
Touch == /\ key' = CHOOSE k \in Keys \ KeysInUse : TRUE
         /\ LET held == KeysInUse' \ {key'}
            IN recorded' = [k \in Keys |-> IF k \in held THEN recorded[k] ELSE None]
\* An outbox that runs empty starts over from the cursor.
Holds(queue) == /\ pending' = queue
                /\ base' = IF queue = Nothing THEN cursor ELSE base
Renew == IF base' # base \/ pending' # pending THEN Touch ELSE UNCHANGED <<key, recorded>>
-----------------------------------------------------------------------------
\* The user changes a record, creates one under an id no one has used, or deletes
\* one.  A patch carries some fields of a record; over a queued record it is
\* merged into it.
Unused(r) == /\ row[r].st = "new" /\ open # r /\ local[r] = None /\ pending[r] = None
             /\ mutation # None => mutation.rec # r /\ mutation.queue[r] = None
             /\ \A q \in Requests : q.ops[r] = None
Change(intent, shown) == [intent |-> intent, shown |-> shown]
Deletion(r) == Change(Del(local[r].rv, edits + 1), None)
Creation == Change(Put(0, edits + 1), Shown(0, edits + 1))
Changes(r) ==
  IF local[r] # None
  THEN {Change(Put(local[r].rv, edits + 1), Shown(local[r].rv, edits + 1)), Deletion(r)}
  ELSE IF Unused(r) THEN {Creation} ELSE {}
PatchOf(r) ==
  Change(IF pending[r].st = "put" THEN Put(local[r].rv, edits + 1) ELSE Patch(local[r].rv, edits + 1),
         Shown(local[r].rv, edits + 1))
NextEdit == edits < MaxEdits /\ edits' = edits + 1

\* An intent replaces the older one of the same record.
EnqueueIntent(r, intent) ==
  /\ settled' = settled \cup {pending[x].edit : x \in Queued \cap {r}}
  /\ pending' = [pending EXCEPT ![r] = intent]
  /\ UNCHANGED <<base, undone, revived, applied>>
\* mutatePersistAndSync and the draft workflow: replica and outbox at once.
StageNow(r, change) ==
  /\ NextEdit /\ EnqueueIntent(r, change.intent)
  /\ local' = [local EXCEPT ![r] = change.shown]
  /\ UNCHANGED <<network, version, minAvail, row, open, cursor, blocked, restoring, owed, lookup>>
Save(r) == (\E change \in Changes(r) : StageNow(r, change)) /\ UNCHANGED mutation /\ Touch
PatchDraft(r) == local[r] # None /\ StageNow(r, PatchOf(r)) /\ UNCHANGED mutation /\ Touch

\* A mutation that pauses takes a checkpoint of the outbox and the records to put
\* back first.
Paused(st, r, change, scope) ==
  [st |-> st, rec |-> r, intent |-> change.intent, shown |-> change.shown,
   before |-> [x \in Records |-> IF x \in scope THEN local[x] ELSE None], scope |-> scope,
   queue |-> pending, base |-> base, key |-> key]
OnlyMutation == UNCHANGED <<server, cursor, mutationQueue, blocked, restoring, owed, network, lookup,
                            settled, undone, revived, applied>>

\* WorkspaceDataStore.patch: staged at once, then it awaits the push.
BeginImport(r) == /\ mutation = None /\ ~blocked
                  /\ \E change \in Changes(r) :
                       /\ StageNow(r, change)
                       /\ mutation' = Paused("awaiting", r, change, {r})
                       /\ Touch
\* addRecord, updateRecord, deleteRecord: the replica at once, the outbox when the
\* record is stored.
BeginRecord(r) == /\ mutation = None /\ NextEdit
                  /\ \E change \in Changes(r) :
                       /\ mutation' = Paused("record", r, change, {r})
                       /\ local' = [local EXCEPT ![r] = change.shown]
                  /\ OnlyMutation
EndRecord == /\ mutation.st = "record"
             /\ EnqueueIntent(mutation.rec, mutation.intent)
             /\ mutation' = None
             /\ owed' = IF mutation.shown = None /\ local[mutation.rec] # None
                        THEN owed \cup {mutation.rec} ELSE owed
             /\ UNCHANGED <<version, minAvail, row, open, local, cursor, blocked, restoring,
                            network, lookup, edits>>
             /\ Touch
\* applyAssignmentBatch: the table it will set is computed before it is stored.
BeginBatch(r) == /\ mutation = None /\ NextEdit
                 /\ r \in Light
                 /\ mutation' = Paused("batch", r, IF local[r] # None THEN Deletion(r) ELSE Creation, Light)
                 /\ local[r] # None \/ Unused(r)
                 /\ UNCHANGED local
                 /\ OnlyMutation
TableAfter == [mutation.before EXCEPT ![mutation.rec] = mutation.shown]
Rewritten(table) == {r \in mutation.scope \cap Light : local[r] # table[r]}
Reset(table) == [r \in Records |-> IF r \in mutation.scope THEN table[r] ELSE local[r]]
EndBatch == /\ mutation.st = "batch"
            /\ EnqueueIntent(mutation.rec, mutation.intent)
            /\ local' = Reset(TableAfter)
            /\ owed' = owed \cup (Rewritten(TableAfter) \ {mutation.rec})
            /\ mutation' = None
            /\ UNCHANGED <<version, minAvail, row, open, cursor, blocked, restoring, network, lookup,
                           edits>>
            /\ Touch

\* outbox.restore: the queue of the checkpoint with its identity.  The generations
\* are counted anew, so the receipt of a push in flight matches nothing any more.
EditsOf(queue) == {queue[r].edit : r \in {x \in Records : queue[x] # None}}
RestoreOutbox ==
  /\ pending' = mutation.queue /\ base' = mutation.base /\ key' = mutation.key
  /\ undone' = undone \cup ((EditsOf(pending) \cup {mutation.intent.edit}) \ EditsOf(mutation.queue))
  /\ revived' = revived \cup (IF push = None THEN {} ELSE EditsOf(mutation.queue))
  /\ push' = IF push = None THEN None ELSE [push EXCEPT !.void = TRUE]
  /\ mutation' = None
Unqueued == {r \in Light : pending[r] # mutation.queue[r]}
\* IndexedDB fails: the record, or the whole table of a batch, is put back.
StoreFails == /\ mutation.st \in {"record", "batch"}
              /\ faults < MaxFaults /\ faults' = faults + 1
              /\ local' = Reset(mutation.before)
              /\ owed' = owed \cup Rewritten(mutation.before) \cup Unqueued
              /\ RestoreOutbox
              /\ UNCHANGED <<server, cursor, blocked, restoring, late, pull, stray, lookup,
                             edits, settled, applied>>
\* The import is told of a rejection: its own, that of a push it joined, or one
\* that is still being restored; or it could not be stored.
ImportRefused == /\ mutation.st = "awaiting"
                 /\ \/ restoring # {} /\ UNCHANGED faults
                    \/ faults < MaxFaults /\ faults' = faults + 1
                 /\ mutation' = [mutation EXCEPT !.st = "refused"]
                 /\ UNCHANGED <<server, browser, push, late, pull, stray, lookup, history>>
\* #rollbackPatch: the records first, the outbox when they are stored.
PutBack == /\ mutation.st = "refused"
           /\ local' = Reset(mutation.before)
           /\ owed' = owed \cup Rewritten(mutation.before)
           /\ mutation' = [mutation EXCEPT !.st = "putback"]
           /\ UNCHANGED <<server, cursor, mutationQueue, blocked, restoring, network, lookup, history>>
RollBack == /\ mutation.st = "putback"
            /\ owed' = owed \cup Unqueued
            /\ RestoreOutbox
            /\ UNCHANGED <<server, local, cursor, blocked, restoring, late, pull, stray, faults, lookup,
                           edits, settled, applied>>
\* What an answer to the push means to an import that awaits one.
Awaiting == mutation.st = "awaiting"
Told(ended, refused) ==
  mutation' = IF Awaiting /\ ended THEN None
              ELSE IF Awaiting /\ refused THEN [mutation EXCEPT !.st = "refused"] ELSE mutation
-----------------------------------------------------------------------------
\* Another transaction of the organization takes the next version with the lock
\* on the counter's row and commits it with its rows: a write, an insertion, a
\* deletion (the trigger writes the tombstone) or a restoration.
RemoteBegin(r) == /\ open = 0 /\ version < MaxVersion
                  /\ row[r].st \in {"new", "live", "deleted"}
                  /\ row[r].st = "new" => Unused(r)
                  /\ open' = r
                  /\ UNCHANGED <<version, minAvail, row, recorded, browser, network, pausing, history>>
RemoteCommit ==
  /\ open # 0
  /\ \E st \in {"live", "deleted"} :
       /\ st = "deleted" => row[open].st = "live"
       /\ row' = [row EXCEPT ![open] =
                    Row(st, IF st = "live" THEN @.rv + 1 ELSE @.rv, version + 1, 0)]
  /\ version' = version + 1
  /\ open' = 0
  /\ UNCHANGED <<minAvail, recorded, browser, network, pausing, history>>

Creating(r) ==
  \E intent \in {pending[r]} \cup {q.ops[r] : q \in Requests}
              \cup (IF mutation = None THEN {}
                    ELSE {mutation.queue[r]} \cup (IF mutation.rec = r THEN {mutation.intent} ELSE {})) :
    intent.st \in {"put", "patch"} /\ intent.exp = 0
\* Mutant: nobody is told what can no longer be read.
PurgeQuietly(r) ==
  /\ row[r].st = "deleted" /\ open # r
  /\ ~Creating(r)
  /\ row' = [row EXCEPT ![r].st = "purged"]
  /\ UNCHANGED <<version, minAvail, open, recorded, browser, network, pausing, history>>
\* The lifecycle sweep drops old tombstones and raises min_available_version.  A
\* tombstone outlives the insertion of its record.
PurgeTombstone(r) ==
  /\ row[r].st = "deleted" /\ open # r
  /\ ~Creating(r)
  /\ row' = [row EXCEPT ![r].st = "purged"]
  /\ minAvail' = IF row[r].sv > minAvail THEN row[r].sv ELSE minAvail
  /\ UNCHANGED <<version, open, recorded, browser, network, pausing, history>>
-----------------------------------------------------------------------------
\* autoSync: one push at a time, never beside a pull, an unresolved conflict or a
\* pending restoration.  A patch becomes the whole record it is a patch of, as the
\* replica has it now, and is left out when the replica has none.
Materialised(r) ==
  IF pending[r].st # "patch" THEN pending[r]
  ELSE IF local[r] = None THEN None ELSE [pending[r] EXCEPT !.exp = local[r].rv]
Payload == [r \in Records |-> Materialised(r)]
Push == /\ Payload # Nothing /\ push = None /\ pull = None /\ ~blocked /\ restoring = {}
        /\ push' = [st |-> "sent", key |-> key, base |-> base, ops |-> Payload, void |-> FALSE]
        /\ UNCHANGED <<server, browser, late, pull, stray, faults, pausing, history>>

Writes(intent) == intent.st \in {"put", "patch"}
\* Mutant: the row's version is not compared.
FitsAnyVersion(r, intent) ==
  CASE Writes(intent) -> row[r].st \in IF intent.exp = 0 THEN {"new", "live", "purged"} ELSE {"live"}
    [] OTHER -> TRUE
Fits(r, intent) ==
  CASE Writes(intent) -> \/ row[r].st = "live" /\ intent.exp = row[r].rv
                         \/ row[r].st \in {"new", "purged"} /\ intent.exp = 0
    [] intent.st = "del" -> row[r].st = "live" => intent.exp = row[r].rv
    [] OTHER -> TRUE
Misfits(ops) == {r \in Records : ~Fits(r, ops[r])}
Conflicts(ops) == {r \in Misfits(ops) : row[r].st = "live"}

Written(r, intent) ==
  CASE Writes(intent) -> Row("live", row[r].rv + 1, version + 1, intent.edit)
    [] intent.st = "del" /\ row[r].st = "live" -> Row("deleted", row[r].rv, version + 1, 0)
    [] OTHER -> row[r]
Outcome(ops) == [st |-> "ok", ops |-> ops,
                 rv |-> [r \in Records |-> IF Writes(ops[r]) THEN row[r].rv + 1 ELSE 0]]
\* An error rolls the whole batch back; a row-version conflict makes it a 409 and
\* carries the server's record.
Refusal(ops) == [st |-> IF Conflicts(ops) # {} THEN "conflict" ELSE "rejected",
                 bad |-> Misfits(ops),
                 rows |-> [r \in Records |-> IF r \in Conflicts(ops)
                                             THEN Shown(row[r].rv, row[r].val) ELSE None]]
\* IDEMPOTENCY_KEY_REUSED: the identity is recorded with another payload.
Reused == [st |-> "reused"]

\* execute_sync_mutation under the locks on the identity and on the counter: a
\* recorded identity is replayed, else the batch is checked, written and recorded
\* in one transaction.
Serve(q) ==
  IF recorded[q.key] # None
    THEN UNCHANGED <<version, row, recorded, applied>>
  ELSE IF Misfits(q.ops) # {}
    THEN UNCHANGED <<version, row, recorded, applied>>
  ELSE /\ version' = version + 1
       /\ row' = [r \in Records |-> Written(r, q.ops[r])]
       /\ recorded' = [recorded EXCEPT ![q.key] = Outcome(q.ops)]
       /\ applied' = [e \in Edits |->
            IF \E r \in Records : q.ops[r].st = "put" /\ q.ops[r].edit = e
              THEN applied[e] + 1 ELSE applied[e]]
Answer(q) == IF recorded[q.key] # None
             THEN IF recorded[q.key].ops = q.ops THEN recorded[q.key] ELSE Reused
             ELSE IF Misfits(q.ops) # {} THEN Refusal(q.ops) ELSE Outcome(q.ops)

ServePush == /\ push # None /\ push.st = "sent" /\ open = 0
             /\ Serve(push)
             /\ push' = [st |-> "answered", key |-> push.key, base |-> push.base,
                         ops |-> push.ops, void |-> push.void, answer |-> Answer(push)]
             /\ UNCHANGED <<minAvail, open, browser, late, pull, stray, faults, pausing,
                            edits, settled, undone, revived>>
ServeLate(q) == /\ q \in late /\ open = 0
                /\ Serve(q)
                /\ late' = late \ {q}
                /\ UNCHANGED <<minAvail, open, browser, push, pull, stray, faults, pausing,
                               edits, settled, undone, revived>>

\* The transport fails: the batch and its identity are kept for the next push.
Abandoned == IF push # None /\ push.st = "sent" THEN late \cup {[push EXCEPT !.void = TRUE]} ELSE late
PushLost == /\ push # None /\ push.st \in {"sent", "answered"} /\ faults < MaxFaults
            /\ faults' = faults + 1
            /\ late' = Abandoned
            /\ push' = None
            /\ Told(TRUE, FALSE)
            /\ UNCHANGED <<server, browser, pull, stray, lookup, history>>
-----------------------------------------------------------------------------
Answered(st) == push # None /\ push.st = "answered" /\ push.answer.st = st
\* The receipt of a push names an intent by its generation: a newer edit of the
\* same record is not the one that was sent.
\* Mutant: by its record.
SentRecords == {r \in Queued : push.ops[r] # None}
Sent == {r \in Queued : /\ ~push.void /\ push.ops[r] # None
                        /\ push.ops[r].edit = pending[r].edit}
\* The edits a receipt settles for these records.
Settle(rs) == /\ settled' = settled \cup {push.ops[r].edit : r \in rs}
              /\ UNCHANGED <<edits, undone, revived, applied>>
Without(dropped) == [r \in Records |-> IF r \in dropped THEN None ELSE pending[r]]
AtVersion(records, rv) == [r \in Records |->
  IF records[r].st \in {"put", "patch", "del"} /\ rv[r] # 0 THEN [records[r] EXCEPT !.exp = rv[r]]
  ELSE IF records[r].st = "shown" /\ rv[r] # 0 THEN [records[r] EXCEPT !.rv = rv[r]] ELSE records[r]]
AfterPush == UNCHANGED <<version, minAvail, row, open, cursor, late, stray, faults, lookup>>

\* Mutant: a rest of the batch keeps the identity.
PushSucceedsKeepingKey ==
  /\ Answered("ok")
  /\ Holds(AtVersion(Without(Sent), push.answer.rv))
  /\ local' = AtVersion(local, push.answer.rv)
  /\ Settle(Sent)
  /\ Told(mutation # None /\ mutation.intent.edit \in EditsOf(push.ops), FALSE)
  /\ push' = None
  /\ UNCHANGED <<pull, blocked, restoring, owed, key, recorded>> /\ AfterPush
\* applySuccessfulPush: acknowledge the receipt, then give the new row versions to
\* the replica and to what is still queued.  The cursor is left alone.
PushSucceeds ==
  /\ Answered("ok")
  /\ Holds(AtVersion(Without(Sent), push.answer.rv))
  /\ local' = AtVersion(local, push.answer.rv)
  /\ Settle(Sent)
  /\ Told(mutation # None /\ mutation.intent.edit \in EditsOf(push.ops), FALSE)
  /\ push' = None
  /\ UNCHANGED <<pull, blocked, restoring, owed>> /\ AfterPush
  /\ Renew

\* A 409: the conflicting intents of the receipt are dropped and their records
\* replaced by the server's, the others are queued again, and a full pull inside
\* this push replaces the rest.
PushConflicts ==
  /\ Answered("conflict")
  /\ LET dropped == Sent \cap push.answer.bad
         kept == Without(dropped)
     IN /\ Holds(kept)
        /\ local' = [r \in Records |-> IF push.answer.rows[r] # None
                                       THEN push.answer.rows[r] ELSE local[r]]
        /\ owed' = owed \cup {r \in push.answer.bad :
                                push.answer.rows[r] = None \/ kept[r] # None}
        /\ Settle(dropped)
  /\ Told(TRUE, FALSE)
  /\ push' = [st |-> "reloading", key |-> push.key, base |-> push.base, ops |-> Nothing, void |-> TRUE]
  /\ pull' = [st |-> "full", for |-> "push"]
  /\ UNCHANGED <<blocked, restoring>> /\ AfterPush
  /\ Renew

\* Mutant: the rejected intents stay in the outbox.
PushRejectedForever ==
  /\ Answered("rejected")
  /\ restoring' = restoring \cup (Sent \cap push.answer.bad)
  /\ Told(FALSE, TRUE)
  /\ push' = None
  /\ UNCHANGED <<local, mutationQueue, recorded, blocked, owed, pull, history>> /\ AfterPush
\* Any other error: the rejected intents, and those of the receipt that depend on
\* one of them as their parent, are dropped and their records restored.
PushRejected ==
  /\ Answered("rejected")
  /\ \E dropped \in SUBSET Sent :
        /\ Sent \cap push.answer.bad \subseteq dropped
        /\ Holds(Without(dropped))
        /\ restoring' = restoring \cup dropped
        /\ owed' = owed \cup dropped
        /\ Settle(dropped)
  /\ Told(FALSE, TRUE)
  /\ push' = None
  /\ UNCHANGED <<local, blocked, pull>> /\ AfterPush
  /\ Renew

\* renewMutationBatchIdentity; persistAndSync pulls in full before it tries again.
PushReused ==
  /\ Answered("reused")
  /\ push' = None /\ blocked' = FALSE
  /\ pull' \in {None, [st |-> "full", for |-> "all"]}
  /\ UNCHANGED <<local, pending, base, restoring, owed, mutation, history>> /\ AfterPush
  /\ IF Queued # {} THEN Touch ELSE UNCHANGED <<key, recorded>>

\* restoreRejectedRecords: the server's record, under a newer intent.
Overlaid(r, shown) ==
  CASE pending[r].st = "put" -> Shown(pending[r].exp, pending[r].edit)
    [] pending[r].st = "patch" -> IF shown = None THEN None ELSE Shown(shown.rv, pending[r].edit)
    [] pending[r].st = "del" -> None
    [] OTHER -> shown
Current(r) == IF row[r].st = "live" THEN Shown(row[r].rv, row[r].val) ELSE None
Restored(r) == IF Current(r) = None /\ ~(pending[r].st = "put" /\ pending[r].exp = 0)
               THEN None ELSE Overlaid(r, Current(r))
Restore(r) == /\ r \in restoring
              /\ restoring' = restoring \ {r}
              /\ local' = [local EXCEPT ![r] = Restored(r)]
              /\ owed' = IF pull = None THEN owed ELSE owed \cup {r}
              /\ UNCHANGED <<server, cursor, mutationQueue, blocked, network, pausing, history>>
-----------------------------------------------------------------------------
NewPull(for) == IF cursor = 0 THEN [st |-> "full", for |-> for]
                ELSE [st |-> "delta", after |-> cursor, through |-> 0, mark |-> 0, got |-> Nothing]
\* A background pull waits for the push; a pull of one route's tables is never a
\* delta and never commits the cursor.
StartPull == /\ pull = None /\ push = None
             /\ pull' = NewPull("all")
             /\ UNCHANGED <<server, browser, push, late, stray, faults, pausing, history>>
StartRoutePull(r) == /\ pull = None /\ push = None
                     /\ pull' = [st |-> "full", for |-> "route", table |-> TableOf(r)]
                     /\ UNCHANGED <<server, browser, push, late, stray, faults, pausing, history>>
\* A manual retry resolves the conflict with a full pull.
ManualRetry == /\ blocked /\ pull = None /\ push = None
               /\ pull' = [st |-> "full", for |-> "retry"]
               /\ UNCHANGED <<server, browser, push, late, stray, faults, pausing, history>>

\* Delta items in the order (version, id), a page at a time; the first page fixes
\* the version read through.
Place(r) == row[r].sv * (Max(Records) + 1) + r
Items(through) == {r \in Records : /\ row[r].st \in {"live", "deleted"}
                                   /\ pull.after < row[r].sv /\ row[r].sv <= through
                                   /\ Place(r) > pull.mark}
Page(items) == {r \in items : Cardinality({x \in items : Place(x) < Place(r)}) < PageSize}
ReadPage ==
  /\ pull # None /\ pull.st = "delta"
  /\ LET through == IF pull.through = 0 THEN version ELSE pull.through
         items == Items(through)
         page == Page(items)
     IN IF pull.after < minAvail
          THEN \* FULL_SYNC_REQUIRED: the cursor is reset and a full pull follows.
               /\ pull' = [st |-> "full", for |-> "all"]
               /\ cursor' = 0
          ELSE /\ pull' = [pull EXCEPT
                    !.st = IF page = items THEN "read" ELSE "delta",
                    !.through = through,
                    !.mark = IF page = {} THEN @ ELSE Max({Place(r) : r \in page}),
                    !.got = [r \in Records |-> IF r \in page THEN row[r] ELSE @[r]]]
               /\ UNCHANGED cursor
  /\ UNCHANGED <<server, local, mutationQueue, blocked, restoring, owed, push, late, stray, faults,
                 pausing, history>>

\* One snapshot; the heavy tables contribute their ids only.
ReadFull ==
  /\ pull # None /\ pull.st = "full"
  /\ pull' = [st |-> "snapshot", for |-> pull.for, through |-> version, rows |-> row,
              tables |-> IF pull.for = "route" THEN pull.table ELSE Records]
  /\ UNCHANGED <<server, browser, push, late, stray, faults, pausing, history>>

\* acknowledgeServerDeletions, then the commit of the cursor and the rebase of the
\* outbox: a new base version is a new payload.
Acknowledged(gone) == [r \in Records |-> IF r \in gone THEN None ELSE pending[r]]
Acknowledge(gone) == settled' = settled \cup {pending[r].edit : r \in Queued \cap gone}
Commit(through, queue) ==
  /\ cursor' = through
  /\ pending' = queue
  /\ base' = IF queue = Nothing THEN IF Queued = {} THEN base ELSE cursor ELSE through

\* applyServerSnapshot on a delta: rows and tombstones.  The outbox is laid over
\* the tables that have a row in the delta, and its deletions over all; a tombstone
\* acknowledges a deletion and takes a patch along, but no queued record.
Gone(got) == {r \in Records : got[r].st = "deleted" /\ pending[r].st # "put"}
Touched(got, r) == \E x \in TableOf(r) : got[x].st = "live"
Merged(got) == [r \in Records |->
  CASE pending[r].st = "del" \/ r \in Gone(got) -> None
    [] got[r].st = "live" -> Overlaid(r, Shown(got[r].rv, got[r].val))
    [] OTHER -> IF Touched(got, r) THEN Overlaid(r, local[r]) ELSE local[r]]
ApplyDelta ==
  /\ pull # None /\ pull.st = "read"
  /\ local' = Merged(pull.got)
  /\ Commit(pull.through, Acknowledged(Gone(pull.got)))
  /\ Acknowledge(Gone(pull.got))
  /\ pull' = None
  /\ UNCHANGED <<version, minAvail, row, open, blocked, restoring, owed, push, late, stray,
                 faults, pausing, edits, undone, revived, applied>>
  /\ Renew

\* On a snapshot: light tables are replaced, records of heavy tables only removed
\* when their id is gone; with one goes the intent, if it is no queued record.
Lives(snap, r) == snap.rows[r].st = "live"
Vanished(snap) == {r \in snap.tables \cap Heavy :
                     local[r] # None /\ ~Lives(snap, r) /\ pending[r].st # "put"}
Replaced(snap) == [r \in Records |->
  IF r \notin snap.tables THEN local[r]
  ELSE IF r \in Light THEN Overlaid(r, IF Lives(snap, r)
                                      THEN Shown(snap.rows[r].rv, snap.rows[r].val) ELSE None)
  ELSE IF pending[r].st = "del" \/ r \in Vanished(snap) THEN None ELSE local[r]]
ApplyFull ==
  /\ pull # None /\ pull.st = "snapshot"
  /\ local' = Replaced(pull)
  /\ owed' = owed \ ((pull.tables \cap Light) \ Queued)
  /\ blocked' = (blocked /\ pull.for \notin {"retry", "push"})
  /\ push' = IF pull.for = "push" THEN None ELSE push
  /\ pull' = None
  /\ IF pull.for = "route" THEN Holds(Acknowledged(Vanished(pull))) /\ UNCHANGED cursor
                            ELSE Commit(pull.through, Acknowledged(Vanished(pull)))
  /\ Acknowledge(Vanished(pull))
  /\ UNCHANGED <<version, minAvail, row, open, restoring, late, stray, faults, pausing, edits,
                 undone, revived, applied>>
  /\ Renew

\* The list page of a heavy table is read; the outbox is laid over what it lists,
\* its deletions are not.
ListPage(r) == /\ r \in Heavy /\ row[r].st = "live"
               /\ local' = [local EXCEPT ![r] = IF pending[r].st = "del" THEN Current(r)
                                                ELSE Overlaid(r, Current(r))]
               /\ local' # local
               /\ UNCHANGED <<server, cursor, mutationQueue, blocked, restoring, owed, network, pausing, history>>
\* fetchRecordByLookup: a record is opened, or refreshed before it is changed or
\* deleted.  The answer is stored as it is, whatever is queued for the record and
\* whatever a pull has brought since.
AskRecord(r) == /\ lookup = None /\ row[r].st = "live"
                /\ lookup' = [st |-> "answered", rec |-> r, shown |-> Current(r)]
                /\ UNCHANGED <<server, browser, network, mutation, history>>
StoreRecord ==
  /\ lookup # None
  /\ LET r == lookup.rec IN
       /\ local' = [local EXCEPT ![r] = lookup.shown]
       /\ owed' = IF lookup.shown = Current(r) /\ pull = None /\ push = None THEN owed
                  ELSE owed \cup {r}
  /\ lookup' = None
  /\ UNCHANGED <<server, cursor, mutationQueue, blocked, restoring, network, mutation, history>>
-----------------------------------------------------------------------------
\* A pull fails, is aborted by its timeout, or is superseded by a pull of another
\* kind; the answer it already has is late.  The reload of a conflict that fails
\* leaves the conflict to a manual retry.
Stranded == IF pull # None /\ pull.st \in {"read", "snapshot"} THEN pull ELSE stray
PullFails == /\ pull # None /\ faults < MaxFaults
             /\ faults' = faults + 1
             /\ stray' = Stranded
             /\ pull' = None
             /\ push' = IF push # None /\ push.st = "reloading" THEN None ELSE push
             /\ blocked' = (blocked \/ (push # None /\ push.st = "reloading"))
             /\ UNCHANGED <<server, local, cursor, mutationQueue, restoring, owed, late, pausing, history>>
\* Mutant: a late answer is applied like any other.
ApplyStray == /\ stray # None
              /\ stray' = None
              /\ local' = IF stray.st = "read" THEN Merged(stray.got) ELSE Replaced(stray)
              /\ UNCHANGED <<server, cursor, mutationQueue, blocked, restoring, owed,
                             push, late, pull, faults, pausing, history>>
\* The generation and the lease of its pull are not the current ones.
DropStray == /\ stray # None
             /\ stray' = None
             /\ UNCHANGED <<server, browser, push, late, pull, faults, pausing, history>>

\* The workspace is left and entered again, or the page reloaded: replica, cursor,
\* outbox and the archive of rejected intents are stored, requests go on without
\* their callbacks, and the conflict guard is forgotten.  A mutation stops where it
\* is: what it has stored of its record stays, and what it has not queued is lost.
Unstored == mutation.st \in {"record", "batch"}
Reenter == /\ faults < MaxFaults
           /\ faults' = faults + 1
           /\ late' = Abandoned
           /\ push' = None
           /\ stray' = Stranded
           /\ pull' = None
           /\ blocked' = FALSE
           /\ mutation' = None /\ lookup' = None
           /\ IF Unstored
              THEN /\ \E shown \in {mutation.before[mutation.rec], mutation.shown} :
                        local' = [local EXCEPT ![mutation.rec] = shown]
                   /\ owed' = owed \cup {mutation.rec}
                   /\ undone' = undone \cup {mutation.intent.edit}
              ELSE UNCHANGED <<local, owed, undone>>
           /\ UNCHANGED <<server, cursor, mutationQueue, restoring, edits, settled, revived, applied>>
-----------------------------------------------------------------------------
BrowserStep == \/ Push \/ PushSucceeds \/ PushConflicts \/ PushRejected \/ PushReused
               \/ ApplyDelta \/ ApplyFull \/ StoreRecord
               \/ EndRecord \/ EndBatch \/ ImportRefused \/ PutBack \/ RollBack
               \/ \E r \in Records : Restore(r)
ServerStep == \/ ServePush \/ RemoteCommit \/ ReadPage \/ ReadFull
              \/ \E q \in late : ServeLate(q)
FaultStep == PushLost \/ PullFails \/ DropStray \/ StoreFails \/ Reenter
RecordStep(r) == \/ Save(r) \/ PatchDraft(r) \/ ListPage(r) \/ StartRoutePull(r)
                 \/ PurgeTombstone(r)
Next == \/ BrowserStep \/ ServerStep \/ FaultStep \/ StartPull \/ ManualRetry
        \/ \E r \in Records : \/ RecordStep(r) \/ RemoteBegin(r) \/ AskRecord(r)
                              \/ BeginImport(r) \/ BeginRecord(r) \/ BeginBatch(r)
Spec == Init /\ [][Next]_vars

\* Transactions end, requests are answered, the poll and the focus of the window
\* pull again and again, and a push that waits for a pull runs after it.
Fairness == /\ WF_vars(ServePush) /\ WF_vars(RemoteCommit) /\ WF_vars(ReadPage)
            /\ WF_vars(ReadFull) /\ WF_vars(StartPull) /\ SF_vars(Push)
            /\ WF_vars(PushSucceeds) /\ WF_vars(PushConflicts) /\ WF_vars(PushRejected)
            /\ WF_vars(PushReused) /\ WF_vars(ApplyDelta) /\ WF_vars(ApplyFull)
            /\ WF_vars(StoreRecord) /\ WF_vars(EndRecord \/ EndBatch) /\ WF_vars(PutBack \/ RollBack)
            /\ \A r \in Records : WF_vars(Restore(r))
FairSpec == Spec /\ Fairness
-----------------------------------------------------------------------------
Intent == [st: {"put", "patch", "del"}, exp: 0..(MaxVersion + MaxEdits), edit: Edits] \cup {None}
\* The shape of the state; the outbox is pushed by one request at a time.
SyncTypeOK ==
  /\ minAvail <= version
  /\ \A r \in Records : row[r].sv <= version /\ row[r].val \in 0..edits
  /\ open \in Records \cup {0}
  /\ pending \in [Records -> Intent] /\ key \in Keys
  /\ cursor \in 0..version /\ base \in 0..version
  /\ restoring \cup owed \subseteq Records /\ blocked \in BOOLEAN
  /\ push # None => push.st \in {"sent", "answered", "reloading"}
  /\ push # None /\ pull # None => push.st = "reloading" /\ pull.for = "push"
  /\ settled \cup undone \cup revived \subseteq 1..edits

\* The cursor never runs ahead of the replica: a light record without an unsent
\* intent shows exactly the server's row, or its absence, when the cursor covers
\* its last version (delta pages of several snapshots, purged tombstones,
\* transactions still open, own pushes).  What a stale lookup, a table set from an
\* older copy or a rollback wrote over a pull is owed to the next full pull.
ReplicaIsCurrent == \A r \in Light \ owed :
  /\ pending[r] = None /\ row[r].sv <= cursor
  /\ mutation.st = "record" => mutation.rec # r
  => local[r] = Current(r)

\* An edit leaves the outbox with an outcome: another edit of the record replaces
\* it, or it is committed, refused, or made void by a deletion; the answer to an
\* older intent of the same record never takes it along.  Only the rollback of a
\* failed mutation drops what was queued since its checkpoint.
NoEditIsLost == \A e \in (1..edits) \ (settled \cup undone) :
  e \in EditsOf(pending) \/ (mutation # None /\ mutation.intent.edit = e)

\* One identity names one payload while no patch is queued: what was sent or
\* recorded under the outbox's identity is what the outbox holds, so the server
\* does not refuse a repetition with IDEMPOTENCY_KEY_REUSED.
Patched(ops) == \E r \in Records : ops[r].st = "patch"
KeyNamesOnePayload ==
  ~Patched(pending) =>
    /\ \A q \in Requests : q.key = key /\ q.ops # Nothing => q.ops = pending /\ q.base = base
    /\ recorded[key] # None => recorded[key].ops = pending

\* However often a push is repeated, late or replayed, a queued record is written
\* once.  Not so a patch, which takes the newest version of its record with every
\* push, nor what a rollback queues again while it is being pushed.
AppliedOnce == \A e \in Edits \ revived : applied[e] <= 1

\* The version of a light record the user sees never goes back.  A record fetched
\* on its own, after a refusal, may: a snapshot read earlier replaces it.
ReadsAreMonotonic == [][\A r \in Light \ (owed \cup owed') :
  local[r] # None /\ local'[r] # None /\ pending'[r] = None =>
    local'[r].rv >= local[r].rv]_vars

\* Once the writes stop, either a conflict waits for the user or the light records
\* are the server's and the outbox holds nothing but patches of records that are
\* gone, which are never sent.
Dangling == {r \in Queued : pending[r].st = "patch" /\ local[r] = None}
Settled == /\ Queued = Dangling
           /\ \A r \in Light \ (owed \cup Queued) : local[r] = Current(r)
Converges == <>[](blocked \/ Settled)
=============================================================================
