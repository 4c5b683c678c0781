---------------------------- MODULE DocumentJobs ----------------------------
(***************************************************************************)
(* The durable document queue: one row of document_jobs and one exchange   *)
(* directory per job, worker processes that claim rows under a lease and   *)
(* render in a subprocess, the web requests that create, cancel, retry and *)
(* download exports or wait for an internal job, and the retention sweep.  *)
(*                                                                         *)
(* A job in Exports (kind = "export") belongs to a user and is bound to a  *)
(* policy snapshot (account, role, record revision, source digest) with an *)
(* artifact provenance; the other jobs are internal and consumed by the    *)
(* request that created them.  A result is named by the claim that         *)
(* rendered it: two renderings of one input need not be byte-identical.    *)
(***************************************************************************)
EXTENDS Integers, FiniteSets

CONSTANTS Jobs, Workers,
          MaxAttempts,   \* DOCUMENT_JOB_MAX_ATTEMPTS
          Capacity,      \* instances * (concurrency + queue), external mode
          External,      \* DOCUMENT_WORKER_EXECUTION_MODE = external
          MaxClaims      \* model bound: claims of one job

ASSUME JobsAssumption == /\ MaxAttempts \in Nat \ {0}
                         /\ Capacity \in Nat \ {0}
                         /\ MaxClaims \in Nat \ {0}
                         /\ External \in BOOLEAN

VARIABLES kind,      \* "export" (owner-scoped) or "internal"
          row,       \* document_jobs
          store,     \* the exchange directory of a job
          prov,      \* generated_document_provenance of artifact document-job:<id>
          may,       \* what the policy of an export is checked against
          request,   \* the web request that creates (and, internally, awaits) a job
          reader,    \* exports whose download passed _job_access
          doomed,    \* directories a live process (a purge, a consumer, a start-up) will remove
          worker,    \* worker threads
          claims,    \* lock tokens handed out per job
          published, \* history: the result a job was completed with
          served     \* history: the results handed to the user or the caller
vars == <<kind, row, store, prov, may, request, reader, doomed, worker, claims,
          published, served>>

NoRow == [status |-> "none"]
Status == {"pending", "processing", "retry", "completed", "failed"}
Active == {"pending", "processing", "retry"}
Row == [status: Status, attempts: 0..MaxAttempts, holder: 0..MaxClaims,
        age: 0..2, expired: BOOLEAN, cancelled: BOOLEAN, late: BOOLEAN,
        unsure: BOOLEAN]
Idle == [step |-> "idle"]
Steps == {"claimed", "prepared", "rendering", "written", "rendered", "verified",
          "failing", "failed"}

Exports == {j \in Jobs : kind[j] = "export"}

Init == /\ kind \in [Jobs -> {"export", "internal"}]
        /\ row = [j \in Jobs |-> NoRow]
        /\ store = [j \in Jobs |-> [dir |-> FALSE, result |-> 0, aged |-> FALSE]]
        /\ prov = [j \in Jobs |-> 0]
        /\ may = [j \in Jobs |-> [permitted |-> TRUE, row |-> TRUE, dep |-> TRUE]]
        /\ request = [j \in Jobs |-> "none"]
        /\ reader = {}
        /\ doomed = {}
        /\ worker = [w \in Workers |-> Idle]
        /\ claims = [j \in Jobs |-> 0]
        /\ published = [j \in Jobs |-> 0]
        /\ served = [j \in Jobs |-> {}]

-----------------------------------------------------------------------------
Exists(j) == row[j] # NoRow
Is(j, S) == Exists(j) /\ row[j].status \in S
ActiveJobs == {j \in Jobs : Is(j, Active) /\ ~row[j].expired}
Live(j) == {w \in Workers : worker[w] # Idle /\ worker[w].job = j}

\* verify_document_job_policy: account, role and grants, and the record's revision.
Verified(j) == j \in Exports => may[j].permitted /\ may[j].row
\* verify_document_job_source_authority: the digest of everything rendered.
Authentic(j) == j \in Exports => may[j].dep
RemoveTree(j) == store' = [store EXCEPT ![j] = [dir |-> FALSE, result |-> 0, aged |-> FALSE]]
WriteDir(j, r) == store' = [store EXCEPT ![j].result = r, ![j].aged = FALSE]

\* Everything the pinned policy is compared with may change under a job.
Revoke(j) == /\ may[j].permitted
             /\ may' = [may EXCEPT ![j].permitted = FALSE]
Regrant(j) == /\ ~may[j].permitted
              /\ may' = [may EXCEPT ![j].permitted = TRUE]
EditRecord(j) == /\ may[j].row
                 /\ may' = [may EXCEPT ![j].row = FALSE, ![j].dep = FALSE]
EditDependency(j) == /\ may[j].dep
                     /\ may' = [may EXCEPT ![j].dep = FALSE]
World(j) == /\ j \in Exports
            /\ \/ Revoke(j) \/ Regrant(j) \/ EditRecord(j) \/ EditDependency(j)
            /\ UNCHANGED <<row, store, prov, request, reader, doomed, worker,
                           claims, published, served>>
-----------------------------------------------------------------------------
\* A request renders the context, finds the snapshot unchanged, and stages the
\* directory with the input manifest.
Stage(j) == /\ request[j] = "none"
            /\ j \in Exports => may[j] = [permitted |-> TRUE, row |-> TRUE, dep |-> TRUE]
            /\ request' = [request EXCEPT ![j] = "staged"]
            /\ store' = [store EXCEPT ![j].dir = TRUE]
            /\ UNCHANGED <<row, prov, may, reader, doomed, worker, claims, published, served>>

Admitted == External => Cardinality(ActiveJobs) < Capacity

\* The row is inserted under the admission lock.
Enqueue(j) == /\ request[j] = "staged"
              /\ Admitted
              /\ row' = [row EXCEPT ![j] =
                   [status |-> "pending", attempts |-> 0, holder |-> 0, age |-> 0,
                    expired |-> FALSE, cancelled |-> FALSE, late |-> FALSE, unsure |-> FALSE]]
              /\ request' = [request EXCEPT ![j] = IF j \in Exports THEN "done" ELSE "waiting"]
              /\ UNCHANGED <<store, prov, may, reader, doomed, worker, claims, published, served>>

\* The queue is full, or the insert fails: the directory goes too.
RejectEnqueue(j) == /\ request[j] = "staged"
                    /\ request' = [request EXCEPT ![j] = "done"]
                    /\ RemoveTree(j)
                    /\ UNCHANGED <<row, prov, may, reader, doomed, worker, claims, published, served>>

\* The web process is killed: before the insert commits, while it waits for an
\* internal job, or before it removes a directory it means to remove.
WebDies(j) == /\ request[j] \in {"staged", "waiting", "retiring"} \/ j \in doomed
              /\ request' = [request EXCEPT ![j] = "done"]
              /\ doomed' = doomed \ {j}
              /\ UNCHANGED <<row, store, prov, may, reader, worker, claims, published, served>>
-----------------------------------------------------------------------------
\* One SELECT ... FOR UPDATE SKIP LOCKED and UPDATE: a queued job, or one whose
\* lease ran out, with attempts left and not expired.
Claim(w, j) ==
  /\ worker[w] = Idle
  /\ Is(j, {"pending", "retry", "processing"})
  /\ row[j].attempts < MaxAttempts /\ ~row[j].expired
  /\ row[j].status = "processing" => row[j].age >= 1
  /\ claims[j] < MaxClaims
  /\ claims' = [claims EXCEPT ![j] = @ + 1]
  /\ row' = [row EXCEPT ![j].status = "processing", ![j].attempts = @ + 1,
                        ![j].holder = claims[j] + 1, ![j].age = 0]
  /\ worker' = [worker EXCEPT ![w] =
       [step |-> "claimed", job |-> j, token |-> claims[j] + 1,
        attempts |-> row[j].attempts + 1, result |-> 0, fatal |-> FALSE]]
  /\ UNCHANGED <<store, prov, may, request, reader, doomed, published, served>>

At(w, step) == worker[w].step = step
Goto(w, step) == worker' = [worker EXCEPT ![w].step = step]
\* An exception: fatal for an input or authorization error, and on the last attempt.
Abort(w, fatal) ==
  worker' = [worker EXCEPT ![w].step = "failing", ![w].result = 0,
                           ![w].fatal = fatal \/ worker[w].attempts >= MaxAttempts]
Holds(w) == /\ Is(worker[w].job, {"processing"})
            /\ row[worker[w].job].holder = worker[w].token

\* Reauthorize, then read the manifest (a missing one is a retryable failure).
Prepare(w) == /\ At(w, "claimed")
              /\ LET j == worker[w].job
                 IN \/ /\ ~Verified(j) /\ Abort(w, TRUE)
                    \/ /\ Verified(j) /\ ~store[j].dir /\ Abort(w, FALSE)
                    \/ /\ Verified(j) /\ store[j].dir /\ Goto(w, "prepared")
              /\ UNCHANGED <<row, store, prov, may, request, reader, doomed, claims,
                             published, served>>

\* result.json and result.bin of an earlier attempt are unlinked.
ClearResult(w) == /\ At(w, "prepared")
                  /\ IF store[worker[w].job].dir THEN WriteDir(worker[w].job, 0)
                                                 ELSE UNCHANGED store
                  /\ Goto(w, "rendering")
                  /\ UNCHANGED <<row, prov, may, request, reader, doomed, claims, published, served>>

\* The subprocess writes its result into the directory.
Render(w) == /\ At(w, "rendering")
             /\ \/ /\ store[worker[w].job].dir
                   /\ WriteDir(worker[w].job, worker[w].token)
                   /\ Goto(w, "written")
                \/ /\ ~store[worker[w].job].dir
                   /\ Abort(w, FALSE)
                   /\ UNCHANGED store
             /\ UNCHANGED <<row, prov, may, request, reader, doomed, claims, published, served>>

\* An exception anywhere before the row is completed: a busy semaphore, a timeout
\* or crash of the subprocess, a failed query or a finish that is rolled back is
\* retryable, an input or authorization error is not.
StepFails(w) == /\ worker[w].step \in Steps \ {"failing", "failed"}
                /\ \E fatal \in BOOLEAN : Abort(w, fatal)
                /\ UNCHANGED <<row, store, prov, may, request, reader, doomed, claims,
                               published, served>>

\* The parent reads whatever result the directory holds now.
ReadResult(w) ==
  /\ At(w, "written")
  /\ LET found == store[worker[w].job].result
     IN IF found = 0 THEN Abort(w, FALSE)
        ELSE worker' = [worker EXCEPT ![w].step = "rendered", ![w].result = found]
  /\ UNCHANGED <<row, store, prov, may, request, reader, doomed, claims, published, served>>

\* Mutant: no second authorization after rendering.
SkipReverify(w) == /\ At(w, "rendered")
                   /\ Goto(w, "verified")
                   /\ UNCHANGED <<row, store, prov, may, request, reader, doomed, claims,
                                  published, served>>
\* The policy and the source digest are checked again before publication.
Reverify(w) == /\ At(w, "rendered")
               /\ IF Verified(worker[w].job) /\ Authentic(worker[w].job)
                    THEN Goto(w, "verified") ELSE Abort(w, TRUE)
               /\ UNCHANGED <<row, store, prov, may, request, reader, doomed, claims,
                              published, served>>

Complete(j, r, unsure) ==
  /\ row' = [row EXCEPT ![j].status = "completed", ![j].holder = 0, ![j].age = 0,
                        ![j].unsure = unsure]
  /\ published' = [published EXCEPT ![j] = r]

\* Mutant: the completing UPDATE is not fenced by the lock token.
UnfencedFinish(w) ==
  /\ At(w, "verified")
  /\ LET j == worker[w].job r == worker[w].result
     IN /\ Exists(j)
        /\ prov' = [prov EXCEPT ![j] = IF @ = 0 /\ j \in Exports THEN r ELSE @]
        /\ Complete(j, r, FALSE)
  /\ worker' = [worker EXCEPT ![w] = Idle]
  /\ UNCHANGED <<store, may, request, reader, doomed, claims, served>>

\* One transaction: the provenance is inserted (or must equal the one there),
\* and the row completes if this worker still holds it.  When the commit took
\* effect but its answer was lost the worker goes on as if it had failed; a row
\* completed that way is unsure.
Finish(w) ==
  /\ At(w, "verified")
  /\ LET j == worker[w].job r == worker[w].result
     IN \/ /\ j \in Exports /\ prov[j] \notin {0, r}
           /\ Abort(w, FALSE)
           /\ UNCHANGED <<row, prov, published>>
        \/ /\ j \in Exports => prov[j] \in {0, r}
           /\ prov' = [prov EXCEPT ![j] = IF j \in Exports THEN r ELSE @]
           /\ \E answered \in BOOLEAN :
                /\ IF Holds(w) THEN Complete(j, r, ~answered) ELSE UNCHANGED <<row, published>>
                /\ IF answered THEN worker' = [worker EXCEPT ![w] = Idle] ELSE Abort(w, FALSE)
  /\ UNCHANGED <<store, may, request, reader, doomed, claims, served>>

\* The failure path unlinks the result files, whoever wrote them and whether or
\* not they were published ...
UnlinkFailed(w) == /\ At(w, "failing")
                   /\ IF store[worker[w].job].dir THEN WriteDir(worker[w].job, 0)
                                                  ELSE UNCHANGED store
                   /\ Goto(w, "failed")
                   /\ UNCHANGED <<row, prov, may, request, reader, doomed, claims,
                                  published, served>>

\* ... and records a retry or the failure if the worker still holds the job.
FinishError(w) ==
  /\ At(w, "failed")
  /\ LET j == worker[w].job
     IN row' = IF Holds(w)
               THEN [row EXCEPT ![j].status = IF worker[w].fatal THEN "failed" ELSE "retry",
                                ![j].holder = 0, ![j].age = 0]
               ELSE row
  /\ worker' = [worker EXCEPT ![w] = Idle]
  /\ UNCHANGED <<store, prov, may, request, reader, doomed, claims, published, served>>

\* The worker process dies, or it cannot record its failure.
WorkerDies(w) == /\ worker[w] # Idle
                 /\ worker' = [worker EXCEPT ![w] = Idle]
                 /\ UNCHANGED <<row, store, prov, may, request, reader, doomed, claims,
                                published, served>>
-----------------------------------------------------------------------------
\* The request that awaits an internal job reads its result once it completed;
\* a bad or missing result is retired just the same.
ConsumeResult(j) ==
  /\ request[j] = "waiting" /\ Is(j, {"completed"})
  /\ served' = [served EXCEPT ![j] = IF store[j].result = 0 THEN @
                                     ELSE @ \cup {store[j].result}]
  /\ request' = [request EXCEPT ![j] = "retiring"]
  /\ UNCHANGED <<row, store, prov, may, reader, doomed, worker, claims, published>>

\* It stops at a failed job, at a missing row, or at its own deadline.
ConsumeStops(j) == /\ request[j] = "waiting"
                   /\ request' = [request EXCEPT ![j] = "done"]
                   /\ UNCHANGED <<row, store, prov, may, reader, doomed, worker, claims,
                                  published, served>>

\* The consumed row is deleted, then its directory.
RetireConsumed(j) ==
  /\ request[j] = "retiring"
  /\ IF Is(j, {"completed"})
       THEN row' = [row EXCEPT ![j] = NoRow] /\ doomed' = doomed \cup {j}
       ELSE UNCHANGED <<row, doomed>>
  /\ request' = [request EXCEPT ![j] = "done"]
  /\ UNCHANGED <<store, prov, may, reader, worker, claims, published, served>>

RemoveDir(j) == /\ j \in doomed
                /\ doomed' = doomed \ {j}
                /\ RemoveTree(j)
                /\ UNCHANGED <<row, prov, may, request, reader, worker, claims, published, served>>
-----------------------------------------------------------------------------
\* Every route first re-verifies the policy, and the source of a finished job.
JobAccess(j) == /\ j \in Exports /\ Exists(j) /\ Verified(j)
                /\ row[j].status = "completed" => Authentic(j)

\* DELETE /api/document-jobs/{job_id}: only a job no worker has is cancelled.
Cancel(j) == /\ JobAccess(j)
             /\ Is(j, {"pending", "retry"})
             /\ row' = [row EXCEPT ![j].status = "failed", ![j].cancelled = TRUE, ![j].age = 0]
             /\ UNCHANGED <<store, prov, may, request, reader, doomed, worker, claims,
                            published, served>>

\* POST .../retry: a failed, uncancelled job with its input starts afresh and
\* its retention is renewed.  An internal job has no policy and cannot.
Retry(j) == /\ JobAccess(j) /\ store[j].dir
            /\ Is(j, {"failed"}) /\ ~row[j].cancelled
            /\ row' = [row EXCEPT ![j].status = "retry", ![j].attempts = 0, ![j].holder = 0,
                                  ![j].age = 0, ![j].expired = FALSE]
            /\ UNCHANGED <<store, prov, may, request, reader, doomed, worker, claims,
                           published, served>>

\* GET .../download and .../preview pass the access check ...
DownloadAccess(j) == /\ JobAccess(j) /\ ~row[j].expired /\ j \notin reader
                     /\ reader' = reader \cup {j}
                     /\ UNCHANGED <<row, store, prov, may, request, doomed, worker, claims,
                                    published, served>>
\* Mutant: the transaction does not look at the job's status.
ReadUnfinished(j) ==
  /\ j \in reader
  /\ reader' = reader \ {j}
  /\ served' = IF Exists(j) /\ Verified(j) /\ store[j].result # 0
               THEN [served EXCEPT ![j] = @ \cup {store[j].result}] ELSE served
  /\ UNCHANGED <<row, store, prov, may, request, doomed, worker, claims, published>>
\* ... and read the row, the policy and the files in one transaction.
ReadExport(j) == /\ j \in reader
                 /\ reader' = reader \ {j}
                 /\ served' = IF Is(j, {"completed"}) /\ Verified(j) /\ store[j].result # 0
                              THEN [served EXCEPT ![j] = @ \cup {store[j].result}] ELSE served
                 /\ UNCHANGED <<row, store, prov, may, request, doomed, worker, claims, published>>
-----------------------------------------------------------------------------
\* Time: a lease (or the last update of a queued row) grows old, first past the
\* claim's stale_seconds, then past the purge's limits; a row reaches expires_at;
\* a directory grows old.  The row remembers (late) that a lease ran out under a
\* worker still running: the wait for the semaphore (30 s at most) and the timeout
\* of the subprocess (180 s at most) fit in stale_seconds (240 s by default, but
\* 60 s can be configured), so that takes such a setting or a stalled machine.
PassTime(j) == /\ Is(j, Active) /\ row[j].age < 2
               /\ row' = [row EXCEPT ![j].age = @ + 1, ![j].late = @ \/ Live(j) # {}]
               /\ UNCHANGED <<store, prov, may, request, reader, doomed, worker, claims,
                              published, served>>
Expire(j) == /\ Exists(j) /\ ~row[j].expired
             /\ row' = [row EXCEPT ![j].expired = TRUE]
             /\ UNCHANGED <<store, prov, may, request, reader, doomed, worker, claims,
                            published, served>>
AgeDir(j) == /\ store[j].dir /\ ~store[j].aged
             /\ request[j] # "staged"
             /\ store' = [store EXCEPT ![j].aged = TRUE]
             /\ UNCHANGED <<row, prov, may, request, reader, doomed, worker, claims,
                            published, served>>

\* Mutant: the sweep does not know abandoned claims.
SweepableButProcessing(j) == /\ Exists(j) /\ row[j].expired
                             /\ \/ row[j].status \in {"completed", "failed"}
                                \/ row[j].status \in {"pending", "retry"} /\ row[j].age >= 1
\* Expired, and terminal, idle in the queue, or claimed long ago.
Sweepable(j) == /\ Exists(j) /\ row[j].expired
                /\ \/ row[j].status \in {"completed", "failed"}
                   \/ row[j].status \in {"pending", "retry"} /\ row[j].age >= 1
                   \/ row[j].status = "processing" /\ row[j].age = 2
Purge(j) == /\ Sweepable(j)
            /\ row' = [row EXCEPT ![j] = NoRow]
            /\ doomed' = doomed \cup {j}
            /\ UNCHANGED <<store, prov, may, request, reader, worker, claims, published, served>>

\* Mutant: the external start-up sweep goes by age alone.
CleanedByAge(j) == store[j].aged
\* At start-up: external mode looks for old directories without a row, embedded
\* mode for every old directory; what was found is then removed one by one.
Cleaned(j) == store[j].aged /\ (External => ~Exists(j))
StartupScan(j) == /\ Cleaned(j)
                  /\ doomed' = doomed \cup {j}
                  /\ UNCHANGED <<row, store, prov, may, request, reader, worker, claims,
                                 published, served>>
-----------------------------------------------------------------------------
WorkerStep(w) == \/ Prepare(w) \/ ClearResult(w) \/ Render(w) \/ StepFails(w)
                 \/ ReadResult(w) \/ Reverify(w) \/ Finish(w) \/ UnlinkFailed(w)
                 \/ FinishError(w)
Step == \/ \E w \in Workers : WorkerStep(w) \/ WorkerDies(w) \/ \E j \in Jobs : Claim(w, j)
        \/ \E j \in Jobs : \/ World(j) \/ Stage(j) \/ Enqueue(j) \/ RejectEnqueue(j) \/ WebDies(j)
                           \/ ConsumeResult(j) \/ ConsumeStops(j) \/ RetireConsumed(j)
                           \/ RemoveDir(j) \/ Cancel(j) \/ Retry(j) \/ DownloadAccess(j)
                           \/ ReadExport(j) \/ PassTime(j) \/ Expire(j) \/ AgeDir(j)
                           \/ Purge(j) \/ StartupScan(j)
Next == Step /\ UNCHANGED kind
Spec == Init /\ [][Next]_vars

\* Live workers keep stepping, time passes, and the hourly sweep runs.
Fairness == /\ \A w \in Workers : WF_vars(WorkerStep(w) /\ UNCHANGED kind)
            /\ \A j \in Jobs : /\ WF_vars(PassTime(j) /\ UNCHANGED kind)
                               /\ WF_vars(Expire(j) /\ UNCHANGED kind)
                               /\ WF_vars(Purge(j) /\ UNCHANGED kind)
FairSpec == Spec /\ Fairness
-----------------------------------------------------------------------------
\* The shape of the state: a row is locked exactly while it is processed, and a
\* directory that is gone holds no result.
RowsOK ==
  /\ row \in [Jobs -> Row \cup {NoRow}]
  /\ \A j \in Jobs : Exists(j) => (row[j].holder # 0 <=> row[j].status = "processing")
DirectoriesOK ==
  /\ store \in [Jobs -> [dir: BOOLEAN, result: 0..MaxClaims, aged: BOOLEAN]]
  /\ \A j \in Jobs : ~store[j].dir => store[j].result = 0
WorkerRow == [step: Steps, job: Jobs, token: 1..MaxClaims, attempts: 1..MaxAttempts,
              result: 0..MaxClaims, fatal: BOOLEAN]
WorkersOK == worker \in [Workers -> WorkerRow \cup {Idle}]
RequestsOK ==
  /\ kind \in [Jobs -> {"export", "internal"}]
  /\ request \in [Jobs -> {"none", "staged", "waiting", "retiring", "done"}]
  /\ may \in [Jobs -> [permitted: BOOLEAN, row: BOOLEAN, dep: BOOLEAN]]
  /\ reader \subseteq Exports /\ doomed \subseteq Jobs
ResultsOK ==
  /\ prov \in [Jobs -> 0..MaxClaims] /\ published \in [Jobs -> 0..MaxClaims]
  /\ claims \in [Jobs -> 0..MaxClaims]
  /\ served \in [Jobs -> SUBSET (1..MaxClaims)]
DocTypeOK == RowsOK /\ DirectoriesOK /\ WorkersOK /\ RequestsOK /\ ResultsOK

\* While no worker outlasts its lease, the only thing that can cost a completed job
\* its result is a completing commit whose answer was lost: the unfenced unlink of
\* _process_claimed_document_job then removes the published files.  Nothing else
\* does, no other result ever takes their place, and an export's provenance names
\* the published one.
CompletedHasResult ==
  \A j \in Jobs : Is(j, {"completed"}) /\ ~row[j].late =>
    /\ published[j] # 0
    /\ store[j].result = published[j] \/ (row[j].unsure /\ store[j].result = 0)
    /\ j \in Exports => prov[j] = published[j]

\* Under the same condition, whatever a user downloads or a request consumes is
\* the published result: no two readers of one job get different documents.
ServedAsPublished ==
  \A j \in Jobs : Exists(j) /\ ~row[j].late => served[j] \subseteq {published[j]}

\* What the user is told of a job, and the document it offers.
StatusOf(j) ==
  CASE Is(j, {"completed"}) -> "done"
    [] Is(j, {"failed"}) -> IF row[j].cancelled THEN "cancelled" ELSE "failed"
    [] Is(j, Active) -> "waiting"
    [] OTHER -> IF request[j] \in {"none", "staged"} THEN "none" ELSE "gone"
DocumentOf(j) == IF Is(j, {"completed"}) THEN published[j] ELSE 0

Lifecycle == INSTANCE JobLifecycle WITH
  Documents <- 1..MaxClaims, NoDocument <- 0,
  status <- [j \in Jobs |-> StatusOf(j)], document <- [j \in Jobs |-> DocumentOf(j)]

\* The queue keeps its promise, whatever leases run out: a worker that lost its
\* lease completes, fails or reopens nothing, a cancelled job is neither claimed
\* nor retried, a finished document is never replaced, and a row that was
\* purged or consumed does not come back.
KeepsLifecycle == Lifecycle!Spec

\* Once its record was edited, an export that is not past the second check is
\* never published again: no claim, retry or late worker completes it.
Unpublishable(j) == /\ ~may[j].row /\ ~Is(j, {"completed"})
                    /\ \A w \in Live(j) : ~At(w, "verified")
EditedNeverPublished == [][\A j \in Exports : Unpublishable(j) => Unpublishable(j)']_vars

\* Every queued or claimed job is settled: it completes, fails or is purged,
\* even when its last attempt died with its worker.
EveryJobSettles == \A j \in Jobs : Is(j, Active) ~> ~Is(j, Active)
=============================================================================
