-------------------------- MODULE DocumentJobsProofs --------------------------
(***************************************************************************)
(* Proofs that the document queue implements the life cycle it promises    *)
(* (JobLifecycle), never publishes an edited export, and keeps the result  *)
(* of a finished job, for any number of jobs and workers and any limits.   *)
(***************************************************************************)
EXTENDS DocumentJobs, TLAPS

\* A row exists only after the request of its job enqueued it.
RowsWereEnqueued == \A j \in Jobs : Exists(j) => request[j] \notin {"none", "staged"}

\* A cancelled job is out of the queue for good.
CancelledIsOver == \A j \in Jobs : Is(j, Active) => ~row[j].cancelled

\* A worker that is about to publish has a document to publish.
PublishersHaveResult ==
  \A w \in Workers : worker[w].step \in {"rendered", "verified"} => worker[w].result # 0

\* The inductive invariant of the queue.
Orderly == DocTypeOK /\ RowsWereEnqueued /\ CancelledIsOver /\ PublishersHaveResult

\* The queue starts empty.
LEMMA QueueStart == Init => Orderly
<1> SUFFICES ASSUME Init  PROVE Orderly
  OBVIOUS
<1>1. DocTypeOK
  BY JobsAssumption DEF Init, JobsAssumption, DocTypeOK, RowsOK, DirectoriesOK, WorkersOK,
                        RequestsOK, ResultsOK, Exists, NoRow, Exports
<1>2. RowsWereEnqueued /\ CancelledIsOver /\ PublishersHaveResult
  BY DEF Init, RowsWereEnqueued, CancelledIsOver, PublishersHaveResult, Is, Exists, Idle
<1>3. QED  BY <1>1, <1>2 DEF Orderly

-----------------------------------------------------------------------------
(***************************************************************************)
(* Which steps change what.                                                *)
(***************************************************************************)

\* The steps that write document_jobs.
LEMMA WhoWritesRows ==
  ASSUME Next
  PROVE  \/ row' = row /\ published' = published
         \/ \E w \in Workers : Finish(w) \/ FinishError(w) \/ \E j \in Jobs : Claim(w, j)
         \/ \E j \in Jobs : \/ Enqueue(j) \/ RetireConsumed(j) \/ Cancel(j) \/ Retry(j)
                            \/ PassTime(j) \/ Expire(j) \/ Purge(j)
<1>1. ASSUME NEW w \in Workers, Prepare(w) \/ ClearResult(w) \/ Render(w) \/ StepFails(w)
                                \/ ReadResult(w) \/ Reverify(w) \/ UnlinkFailed(w)
                                \/ WorkerDies(w)
      PROVE  row' = row /\ published' = published
  BY <1>1 DEF Prepare, ClearResult, Render, StepFails, ReadResult, Reverify, UnlinkFailed,
         WorkerDies
<1>2. ASSUME NEW j \in Jobs, World(j) \/ Stage(j) \/ RejectEnqueue(j) \/ WebDies(j)
                             \/ ConsumeResult(j)
      PROVE  row' = row /\ published' = published
  BY <1>2 DEF World, Stage, RejectEnqueue, WebDies, ConsumeResult
<1>3. ASSUME NEW j \in Jobs, ConsumeStops(j) \/ RemoveDir(j) \/ DownloadAccess(j)
                             \/ ReadExport(j) \/ AgeDir(j) \/ StartupScan(j)
      PROVE  row' = row /\ published' = published
  BY <1>3 DEF ConsumeStops, RemoveDir, DownloadAccess, ReadExport, AgeDir, StartupScan
<1>4. QED  BY <1>1, <1>2, <1>3 DEF Next, Step, WorkerStep

\* The steps of a worker, each of which moves that worker alone.
LEMMA WhoMovesWorkers ==
  ASSUME Next
  PROVE  \/ worker' = worker
         \/ \E w \in Workers : \/ WorkerStep(w) \/ WorkerDies(w) \/ \E j \in Jobs : Claim(w, j)
<1>1. ASSUME NEW j \in Jobs, World(j) \/ Stage(j) \/ Enqueue(j) \/ RejectEnqueue(j)
                             \/ WebDies(j) \/ ConsumeResult(j) \/ ConsumeStops(j)
                             \/ RetireConsumed(j) \/ RemoveDir(j)
      PROVE  worker' = worker
  BY <1>1 DEF World, Stage, Enqueue, RejectEnqueue, WebDies, ConsumeResult, ConsumeStops,
         RetireConsumed, RemoveDir
<1>2. ASSUME NEW j \in Jobs, Cancel(j) \/ Retry(j) \/ DownloadAccess(j) \/ ReadExport(j)
                             \/ PassTime(j) \/ Expire(j) \/ AgeDir(j) \/ Purge(j)
                             \/ StartupScan(j)
      PROVE  worker' = worker
  BY <1>2 DEF Cancel, Retry, DownloadAccess, ReadExport, PassTime, Expire, AgeDir, Purge,
         StartupScan
<1>3. QED  BY <1>1, <1>2 DEF Next, Step

\* The steps that write an exchange directory.
LEMMA WhoWritesDirectories ==
  ASSUME Next
  PROVE  \/ store' = store
         \/ \E w \in Workers : ClearResult(w) \/ Render(w) \/ UnlinkFailed(w)
         \/ \E j \in Jobs : \/ Stage(j) \/ RejectEnqueue(j) \/ RemoveDir(j) \/ AgeDir(j)
<1>1. ASSUME NEW w \in Workers, Prepare(w) \/ StepFails(w) \/ ReadResult(w) \/ Reverify(w)
                                \/ Finish(w) \/ FinishError(w) \/ WorkerDies(w) \/ \E j \in
                                Jobs : Claim(w, j)
      PROVE  store' = store
  BY <1>1 DEF Prepare, StepFails, ReadResult, Reverify, Finish, FinishError, WorkerDies,
         Claim
<1>2. ASSUME NEW j \in Jobs, World(j) \/ Enqueue(j) \/ WebDies(j) \/ ConsumeResult(j)
                             \/ ConsumeStops(j) \/ RetireConsumed(j)
      PROVE  store' = store
  BY <1>2 DEF World, Enqueue, WebDies, ConsumeResult, ConsumeStops, RetireConsumed
<1>3. ASSUME NEW j \in Jobs, Cancel(j) \/ Retry(j) \/ DownloadAccess(j) \/ ReadExport(j)
                             \/ PassTime(j) \/ Expire(j) \/ Purge(j) \/ StartupScan(j)
      PROVE  store' = store
  BY <1>3 DEF Cancel, Retry, DownloadAccess, ReadExport, PassTime, Expire, Purge, StartupScan
<1>4. QED  BY <1>1, <1>2, <1>3 DEF Next, Step, WorkerStep

\* The steps of the requests and of the world around the queue.
LEMMA WhoWritesRequests ==
  ASSUME Next
  PROVE  \/ may' = may /\ request' = request /\ reader' = reader /\ doomed' = doomed
         \/ \E j \in Jobs : \/ World(j) \/ Stage(j) \/ Enqueue(j) \/ RejectEnqueue(j)
                            \/ WebDies(j) \/ ConsumeResult(j) \/ ConsumeStops(j)
                            \/ RetireConsumed(j) \/ RemoveDir(j) \/ DownloadAccess(j)
                            \/ ReadExport(j) \/ Purge(j) \/ StartupScan(j)
<1>1. ASSUME NEW w \in Workers, Prepare(w) \/ ClearResult(w) \/ Render(w) \/ StepFails(w)
                                \/ ReadResult(w) \/ Reverify(w) \/ Finish(w)
                                \/ UnlinkFailed(w) \/ FinishError(w) \/ WorkerDies(w) \/ \E j
                                \in Jobs : Claim(w, j)
      PROVE  may' = may /\ request' = request /\ reader' = reader /\ doomed' = doomed
  BY <1>1 DEF Prepare, ClearResult, Render, StepFails, ReadResult, Reverify, Finish,
         UnlinkFailed, FinishError, WorkerDies, Claim
<1>2. ASSUME NEW j \in Jobs, Cancel(j) \/ Retry(j) \/ PassTime(j)
      PROVE  may' = may /\ request' = request /\ reader' = reader /\ doomed' = doomed
  BY <1>2 DEF Cancel, Retry, PassTime
<1>3. ASSUME NEW j \in Jobs, Expire(j) \/ AgeDir(j)
      PROVE  may' = may /\ request' = request /\ reader' = reader /\ doomed' = doomed
  BY <1>3 DEF Expire, AgeDir
<1>4. QED  BY <1>1, <1>2, <1>3 DEF Next, Step, WorkerStep

\* The steps that hand out tokens, documents and provenance.
LEMMA WhoWritesResults ==
  ASSUME Next
  PROVE  \/ prov' = prov /\ published' = published /\ claims' = claims /\ served' = served
         \/ \E w \in Workers : Finish(w) \/ \E j \in Jobs : Claim(w, j)
         \/ \E j \in Jobs : ConsumeResult(j) \/ ReadExport(j)
<1>1. ASSUME NEW w \in Workers, Prepare(w) \/ ClearResult(w) \/ Render(w) \/ StepFails(w)
                                \/ ReadResult(w) \/ Reverify(w) \/ UnlinkFailed(w)
                                \/ FinishError(w) \/ WorkerDies(w)
      PROVE  prov' = prov /\ published' = published /\ claims' = claims /\ served' = served
  BY <1>1 DEF Prepare, ClearResult, Render, StepFails, ReadResult, Reverify, UnlinkFailed,
         FinishError, WorkerDies
<1>2. ASSUME NEW j \in Jobs, World(j) \/ Stage(j) \/ Enqueue(j) \/ RejectEnqueue(j)
                             \/ WebDies(j) \/ ConsumeStops(j) \/ RetireConsumed(j)
                             \/ RemoveDir(j)
      PROVE  prov' = prov /\ published' = published /\ claims' = claims /\ served' = served
  BY <1>2 DEF World, Stage, Enqueue, RejectEnqueue, WebDies, ConsumeStops, RetireConsumed,
         RemoveDir
<1>3. ASSUME NEW j \in Jobs, Cancel(j) \/ Retry(j) \/ DownloadAccess(j) \/ PassTime(j)
                             \/ Expire(j) \/ AgeDir(j) \/ Purge(j) \/ StartupScan(j)
      PROVE  prov' = prov /\ published' = published /\ claims' = claims /\ served' = served
  BY <1>3 DEF Cancel, Retry, DownloadAccess, PassTime, Expire, AgeDir, Purge, StartupScan
<1>4. QED  BY <1>1, <1>2, <1>3 DEF Next, Step, WorkerStep

-----------------------------------------------------------------------------
(***************************************************************************)
(* Workers.                                                                *)
(***************************************************************************)

\* A worker in the middle of a job has a row of its own.
LEMMA BusyWorker ==
  ASSUME WorkersOK, NEW w \in Workers, worker[w].step # "idle"
  PROVE  worker[w] \in WorkerRow
BY DEF WorkersOK, Idle

\* A worker that gives up keeps its job and its token.
LEMMA GivesUp ==
  ASSUME NEW w \in Workers, worker[w] \in WorkerRow, NEW fatal \in BOOLEAN, Abort(w, fatal)
  PROVE  \E m \in WorkerRow : /\ worker' = [worker EXCEPT ![w] = m]
                              /\ m.step = "failing" /\ m.job = worker[w].job
                              /\ m.token = worker[w].token
<1> DEFINE last == fatal \/ worker[w].attempts >= MaxAttempts
           m == [worker[w] EXCEPT !.step = "failing", !.result = 0, !.fatal = last]
<1>1. 0 \in 0..MaxClaims /\ last \in BOOLEAN
  BY JobsAssumption DEF JobsAssumption
<1>2. worker' = [worker EXCEPT ![w] = m]
  BY DEF Abort
<1> HIDE DEF last
<1>3. m \in WorkerRow /\ m.step = "failing" /\ m.job = worker[w].job /\ m.token = worker[w].token
  BY <1>1 DEF WorkerRow, Steps
<1>4. QED  BY <1>2, <1>3

\* A worker goes to the next step with what it has, or gives up.
LEMMA WorkerMoves ==
  ASSUME WorkersOK, NEW w \in Workers, worker[w].step # "idle", NEW step \in Steps,
         Goto(w, step) \/ (step = "failing" /\ \E fatal \in BOOLEAN : Abort(w, fatal))
  PROVE  /\ WorkersOK'
         /\ worker'[w] \in WorkerRow /\ worker'[w].step = step
         /\ worker'[w].job = worker[w].job
         /\ Goto(w, step) => worker'[w].result = worker[w].result
         /\ \A v \in Workers \ {w} : worker'[v] = worker[v]
<1>1. worker[w] \in WorkerRow
  BY BusyWorker
<1>2. PICK moved \in WorkerRow : /\ worker' = [worker EXCEPT ![w] = moved]
                                 /\ moved.step = step /\ moved.job = worker[w].job
                                 /\ Goto(w, step) => moved.result = worker[w].result
  <2>1. CASE Goto(w, step)
    <3>1. [worker[w] EXCEPT !.step = step] \in WorkerRow
      BY <1>1 DEF WorkerRow
    <3>2. QED  BY <1>1, <2>1, <3>1 DEF Goto, WorkerRow
  <2>2. ASSUME NEW fatal \in BOOLEAN, step = "failing", Abort(w, fatal)
        PROVE  \E moved \in WorkerRow : /\ worker' = [worker EXCEPT ![w] = moved]
                                        /\ moved.step = step /\ moved.job = worker[w].job
                                        /\ Goto(w, step) => moved.result = worker[w].result
    <3>1. PICK moved \in WorkerRow : worker' = [worker EXCEPT ![w] = moved]
                                     /\ moved.step = "failing" /\ moved.job = worker[w].job
      BY <1>1, <2>2, GivesUp
    <3>2. Goto(w, step) => moved.result = worker[w].result
      BY <1>1, <3>1 DEF Goto, WorkersOK, WorkerRow
    <3>3. QED  BY <2>2, <3>1, <3>2
  <2>3. QED  BY <2>1, <2>2
<1>3. QED  BY <1>2 DEF WorkersOK

\* A worker drops its job.
LEMMA WorkerRests ==
  ASSUME WorkersOK, NEW w \in Workers, worker' = [worker EXCEPT ![w] = Idle]
  PROVE  WorkersOK' /\ worker'[w].step = "idle" /\ \A v \in Workers \ {w} : worker'[v] = worker[v]
BY DEF WorkersOK, Idle

\* Workers keep their shape, and only a rendering that was read is published.
LEMMA WorkersStep ==
  ASSUME Orderly, Next
  PROVE  WorkersOK' /\ PublishersHaveResult'
<1> USE DEF Orderly, DocTypeOK
<1>a. ASSUME NEW w \in Workers, NEW step \in Steps \ {"rendered", "verified"},
             worker[w].step # "idle",
             Goto(w, step) \/ (step = "failing" /\ \E fatal \in BOOLEAN : Abort(w, fatal))
      PROVE  WorkersOK' /\ PublishersHaveResult'
  <2>1. WorkersOK' /\ worker'[w].step = step /\ \A v \in Workers \ {w} : worker'[v] = worker[v]
    BY <1>a, WorkerMoves
  <2>2. QED  BY <2>1 DEF PublishersHaveResult
<1>b. ASSUME NEW w \in Workers, worker' = [worker EXCEPT ![w] = Idle]
      PROVE  WorkersOK' /\ PublishersHaveResult'
  <2>1. WorkersOK' /\ worker'[w].step = "idle" /\ \A v \in Workers \ {w} : worker'[v] = worker[v]
    BY <1>b, WorkerRests
  <2>2. QED  BY <2>1 DEF PublishersHaveResult
<1>c. {"prepared", "rendering", "written", "failing", "failed"}
        \subseteq Steps \ {"rendered", "verified"}
  BY DEF Steps
<1>1. ASSUME NEW w \in Workers, Prepare(w) \/ ClearResult(w) \/ Render(w) \/ StepFails(w)
                                 \/ UnlinkFailed(w)
      PROVE  WorkersOK' /\ PublishersHaveResult'
  <2>1. CASE Prepare(w) \/ UnlinkFailed(w)
    BY <1>a, <1>c, <2>1 DEF Prepare, UnlinkFailed, At
  <2>2. CASE ClearResult(w) \/ Render(w)
    BY <1>a, <1>c, <2>2 DEF ClearResult, Render, At
  <2>3. CASE StepFails(w)
    BY <1>a, <1>c, <2>3 DEF StepFails, Steps
  <2>4. QED  BY <1>1, <2>1, <2>2, <2>3
<1>2. ASSUME NEW w \in Workers, ReadResult(w)
      PROVE  WorkersOK' /\ PublishersHaveResult'
  <2> DEFINE found == store[worker[w].job].result
  <2>1. CASE found = 0
    BY <1>a, <1>c, <1>2, <2>1 DEF ReadResult, At
  <2>2. CASE found # 0
    <3>1. worker[w] \in WorkerRow /\ found \in 0..MaxClaims
      BY <1>2, BusyWorker DEF ReadResult, At, WorkerRow, DirectoriesOK
    <3>2. [worker[w] EXCEPT !.step = "rendered", !.result = found] \in WorkerRow
      BY <3>1 DEF WorkerRow, Steps
    <3>3. worker' = [worker EXCEPT ![w] = [worker[w] EXCEPT !.step = "rendered",
                                                              !.result = found]]
      BY <1>2, <2>2 DEF ReadResult
    <3>4. worker'[w].result # 0
      BY <2>2, <3>1, <3>3 DEF WorkersOK, WorkerRow
    <3>5. QED  BY <3>2, <3>3, <3>4 DEF WorkersOK, PublishersHaveResult
  <2>3. QED  BY <2>1, <2>2
<1>3. ASSUME NEW w \in Workers, Reverify(w)
      PROVE  WorkersOK' /\ PublishersHaveResult'
  <2>1. CASE Goto(w, "verified")
    BY <1>3, <2>1, WorkerMoves DEF Reverify, At, Steps, PublishersHaveResult
  <2>2. CASE Abort(w, TRUE)
    BY <1>a, <1>c, <1>3, <2>2 DEF Reverify, At
  <2>3. QED  BY <1>3, <2>1, <2>2 DEF Reverify
<1>4. ASSUME NEW w \in Workers, Finish(w) \/ FinishError(w) \/ WorkerDies(w)
      PROVE  WorkersOK' /\ PublishersHaveResult'
  <2>1. CASE worker' = [worker EXCEPT ![w] = Idle]
    BY <1>b, <2>1
  <2>2. CASE Finish(w) /\ Abort(w, FALSE)
    BY <1>a, <1>c, <2>2 DEF Finish, At
  <2>3. QED  BY <1>4, <2>1, <2>2 DEF Finish, FinishError, WorkerDies
<1>5. ASSUME NEW w \in Workers, NEW j \in Jobs, Claim(w, j)
      PROVE  WorkersOK' /\ PublishersHaveResult'
  <2> DEFINE claimed == [step |-> "claimed", job |-> j, token |-> claims[j] + 1,
                         attempts |-> row[j].attempts + 1, result |-> 0, fatal |-> FALSE]
  <2>1. row[j] \in Row /\ row[j].attempts < MaxAttempts /\ claims[j] < MaxClaims
    BY <1>5 DEF Claim, Is, Exists, RowsOK
  <2>2. claims[j] + 1 \in 1..MaxClaims /\ row[j].attempts + 1 \in 1..MaxAttempts
    BY <2>1, JobsAssumption DEF JobsAssumption, Row, ResultsOK
  <2>3. claimed \in WorkerRow
    BY <2>2, JobsAssumption DEF JobsAssumption, WorkerRow, Steps
  <2>4. worker' = [worker EXCEPT ![w] = claimed]
    BY <1>5 DEF Claim
  <2>5. QED  BY <2>3, <2>4 DEF WorkersOK, PublishersHaveResult
<1>6. CASE worker' = worker
  BY <1>6 DEF WorkersOK, PublishersHaveResult
<1>7. QED  BY <1>1, <1>2, <1>3, <1>4, <1>5, <1>6, WhoMovesWorkers DEF WorkerStep

-----------------------------------------------------------------------------
(***************************************************************************)
(* Rows.                                                                   *)
(***************************************************************************)

\* A row of a job stays well-shaped, and in or out of the queue for good.
GoodRow(r) == /\ r \in Row
              /\ r.holder # 0 <=> r.status = "processing"
              /\ r.status \in Active => ~r.cancelled

\* A row stays a row when its status, holder and age change ...
LEMMA RowSettled ==
  ASSUME NEW old \in Row, NEW s \in Status, NEW h \in 0..MaxClaims, NEW a \in 0..2
  PROVE  [old EXCEPT !.status = s, !.holder = h, !.age = a] \in Row
BY DEF Row

\* ... and when its attempts are counted or start afresh.
LEMMA RowAttempted ==
  ASSUME NEW old \in Row, NEW s \in Status, NEW n \in 0..MaxAttempts,
         NEW h \in 0..MaxClaims, NEW a \in 0..2
  PROVE  /\ [old EXCEPT !.status = s, !.attempts = n, !.holder = h, !.age = a] \in Row
         /\ [old EXCEPT !.status = s, !.attempts = n, !.holder = h, !.age = a,
                        !.expired = FALSE] \in Row
BY DEF Row

\* ... and when it is completed or cancelled.
LEMMA RowEnded ==
  ASSUME NEW old \in Row, NEW s \in Status, NEW h \in 0..MaxClaims, NEW a \in 0..2,
         NEW b \in BOOLEAN
  PROVE  /\ [old EXCEPT !.status = s, !.holder = h, !.age = a, !.unsure = b] \in Row
         /\ [old EXCEPT !.status = s, !.cancelled = b, !.age = a] \in Row
BY DEF Row

\* What the invariant says of one row.
LEMMA RowIsGood ==
  ASSUME Orderly, NEW j \in Jobs, Exists(j)
  PROVE  GoodRow(row[j])
BY DEF Orderly, DocTypeOK, RowsOK, CancelledIsOver, GoodRow, Exists, Is

\* A step that writes one good row keeps the others.
LEMMA OneRowWritten ==
  ASSUME Orderly, NEW j \in Jobs, NEW r, GoodRow(r), row' = [row EXCEPT ![j] = r]
  PROVE  RowsOK' /\ CancelledIsOver'
BY DEF Orderly, DocTypeOK, RowsOK, CancelledIsOver, GoodRow, Exists, Is, NoRow, Row

\* A row that is deleted takes nothing along.
LEMMA OneRowDeleted ==
  ASSUME Orderly, NEW j \in Jobs, row' = [row EXCEPT ![j] = NoRow]
  PROVE  RowsOK' /\ CancelledIsOver'
BY DEF Orderly, DocTypeOK, RowsOK, CancelledIsOver, Exists, Is

\* Every step keeps the rows in shape and cancelled jobs out of the queue.
LEMMA RowsStep ==
  ASSUME Orderly, Next
  PROVE  RowsOK' /\ CancelledIsOver'
<1> USE DEF Active, Status
<1>1. ASSUME NEW w \in Workers, NEW j \in Jobs, Claim(w, j)
      PROVE  RowsOK' /\ CancelledIsOver'
  <2> DEFINE r == [row[j] EXCEPT !.status = "processing", !.attempts = @ + 1,
                                 !.holder = claims[j] + 1, !.age = 0]
  <2>1. Exists(j) /\ GoodRow(row[j]) /\ claims[j] + 1 \in 1..MaxClaims
    BY <1>1, RowIsGood, JobsAssumption
       DEF Claim, Is, JobsAssumption, Orderly, DocTypeOK, ResultsOK
  <2>2. row[j].status \in {"pending", "retry", "processing"} /\ row[j].attempts < MaxAttempts
    BY <1>1 DEF Claim, Is
  <2>3. row[j].attempts + 1 \in 0..MaxAttempts /\ ~row[j].cancelled /\ row[j] \in Row
    BY <2>1, <2>2, JobsAssumption DEF GoodRow, Row, JobsAssumption
  <2>4. r \in Row
    <3>1. /\ row[j] \in Row /\ "processing" \in Status /\ 0 \in 0..2
          /\ row[j].attempts + 1 \in 0..MaxAttempts /\ claims[j] + 1 \in 0..MaxClaims
      BY <2>1, <2>3
    <3> DEFINE n == row[j].attempts + 1
               h == claims[j] + 1
    <3>2. [row[j] EXCEPT !.status = "processing", !.attempts = n, !.holder = h, !.age = 0]
            \in Row
      <4> HIDE DEF n, h, Status
      <4>1. QED  BY <3>1, RowAttempted DEF n, h
    <3>3. QED  BY <3>2
  <2>5. r.holder = claims[j] + 1 /\ r.status = "processing" /\ ~r.cancelled
    BY <2>3 DEF Row
  <2>6. GoodRow(r)
    BY <2>1, <2>4, <2>5 DEF GoodRow
  <2>7. row' = [row EXCEPT ![j] = r]
    BY <1>1 DEF Claim
  <2>8. QED  BY <2>6, <2>7, OneRowWritten
<1>2. ASSUME NEW w \in Workers, Finish(w)
      PROVE  RowsOK' /\ CancelledIsOver'
  <2> DEFINE j == worker[w].job
  <2>1. CASE row' = row
    BY <2>1 DEF Orderly, DocTypeOK, RowsOK, CancelledIsOver, Exists, Is
  <2>2. ASSUME NEW unsure \in BOOLEAN, Holds(w), Complete(j, worker[w].result, unsure)
        PROVE  RowsOK' /\ CancelledIsOver'
    <3> DEFINE r == [row[j] EXCEPT !.status = "completed", !.holder = 0, !.age = 0,
                                   !.unsure = unsure]
    <3>1. j \in Jobs /\ Exists(j)
      BY <1>2, <2>2, BusyWorker DEF Finish, At, Holds, Is, WorkerRow, Orderly, DocTypeOK
    <3>2. row[j] \in Row /\ 0 \in 0..MaxClaims
      BY <3>1, RowIsGood, JobsAssumption DEF GoodRow, JobsAssumption
    <3>a. r \in Row
      <4>1. "completed" \in Status /\ 0 \in 0..2
        OBVIOUS
      <4> HIDE DEF Status
      <4>2. QED  BY <2>2, <3>2, <4>1, RowEnded
    <3>3. r.holder = 0 /\ r.status = "completed"
      BY <3>2 DEF Row
    <3>4. GoodRow(r)
      BY <3>a, <3>3 DEF GoodRow
    <3>5. row' = [row EXCEPT ![j] = r]
      BY <2>2 DEF Complete
    <3>6. QED  BY <3>1, <3>4, <3>5, OneRowWritten
  <2>3. QED  BY <1>2, <2>1, <2>2 DEF Finish
<1>3. ASSUME NEW w \in Workers, FinishError(w)
      PROVE  RowsOK' /\ CancelledIsOver'
  <2> DEFINE j == worker[w].job
             result == IF worker[w].fatal THEN "failed" ELSE "retry"
             r == [row[j] EXCEPT !.status = result, !.holder = 0, !.age = 0]
  <2>1. CASE row' = row
    BY <2>1 DEF Orderly, DocTypeOK, RowsOK, CancelledIsOver, Exists, Is
  <2>2. CASE Holds(w) /\ row' = [row EXCEPT ![j] = r]
    <3>1. j \in Jobs /\ Exists(j) /\ row[j].status = "processing"
      BY <1>3, <2>2, BusyWorker DEF FinishError, At, Holds, Is, WorkerRow, Orderly, DocTypeOK
    <3>2. row[j] \in Row /\ ~row[j].cancelled /\ 0 \in 0..MaxClaims
      BY <3>1, RowIsGood, JobsAssumption DEF GoodRow, JobsAssumption
    <3>3. result \in {"retry", "failed"}
      OBVIOUS
    <3> HIDE DEF result
    <3>4. r \in Row
      <4>1. result \in Status /\ 0 \in 0..2
        BY <3>3
      <4> HIDE DEF Status
      <4>2. QED  BY <3>2, <4>1, RowSettled
    <3>5. r.holder = 0 /\ r.status = result /\ ~r.cancelled
      BY <3>2 DEF Row
    <3>6. GoodRow(r)
      BY <3>3, <3>4, <3>5 DEF GoodRow
    <3>7. QED  BY <2>2, <3>1, <3>6, OneRowWritten
  <2>3. QED  BY <1>3, <2>1, <2>2 DEF FinishError
<1>4. ASSUME NEW j \in Jobs, Enqueue(j)
      PROVE  RowsOK' /\ CancelledIsOver'
  <2> DEFINE r == [status |-> "pending", attempts |-> 0, holder |-> 0, age |-> 0,
                   expired |-> FALSE, cancelled |-> FALSE, late |-> FALSE, unsure |-> FALSE]
  <2>1. GoodRow(r)
    BY JobsAssumption DEF GoodRow, Row, JobsAssumption
  <2>2. QED  BY <1>4, <2>1, OneRowWritten DEF Enqueue
<1>5. ASSUME NEW j \in Jobs, RetireConsumed(j) \/ Purge(j)
      PROVE  RowsOK' /\ CancelledIsOver'
  <2>1. CASE row' = row
    BY <2>1 DEF Orderly, DocTypeOK, RowsOK, CancelledIsOver, Exists, Is
  <2>2. CASE row' = [row EXCEPT ![j] = NoRow]
    BY <2>2, OneRowDeleted
  <2>3. QED  BY <1>5, <2>1, <2>2 DEF RetireConsumed, Purge
<1>6. ASSUME NEW j \in Jobs, Cancel(j)
      PROVE  RowsOK' /\ CancelledIsOver'
  <2> DEFINE r == [row[j] EXCEPT !.status = "failed", !.cancelled = TRUE, !.age = 0]
  <2>1. Exists(j) /\ row[j].status \in {"pending", "retry"}
    BY <1>6 DEF Cancel, Is
  <2>a. row[j] \in Row /\ row[j].holder = 0
    BY <2>1, RowIsGood DEF GoodRow
  <2>b. r \in Row
    <3>1. "failed" \in Status /\ 0 \in 0..2 /\ 0 \in 0..MaxClaims /\ TRUE \in BOOLEAN
      BY JobsAssumption DEF JobsAssumption
    <3> HIDE DEF Status
    <3>2. QED  BY <2>a, <3>1, RowEnded
  <2>c. r.holder = 0 /\ r.status = "failed"
    BY <2>a DEF Row
  <2>2. GoodRow(r)
    BY <2>b, <2>c DEF GoodRow
  <2>3. row' = [row EXCEPT ![j] = r]
    BY <1>6 DEF Cancel
  <2>4. QED  BY <2>2, <2>3, OneRowWritten
<1>7. ASSUME NEW j \in Jobs, Retry(j)
      PROVE  RowsOK' /\ CancelledIsOver'
  <2> DEFINE r == [row[j] EXCEPT !.status = "retry", !.attempts = 0, !.holder = 0,
                                 !.age = 0, !.expired = FALSE]
  <2>1. Exists(j) /\ ~row[j].cancelled
    BY <1>7 DEF Retry, Is
  <2>2. row[j] \in Row /\ 0 \in 0..MaxClaims /\ 0 \in 0..MaxAttempts
    BY <2>1, RowIsGood, JobsAssumption DEF GoodRow, JobsAssumption
  <2>3. r \in Row
    <3>1. "retry" \in Status /\ 0 \in 0..2
      OBVIOUS
    <3> HIDE DEF Status
    <3>2. QED  BY <2>2, <3>1, RowAttempted
  <2>4. r.holder = 0 /\ r.status = "retry" /\ ~r.cancelled
    BY <2>1, <2>2 DEF Row
  <2>5. GoodRow(r)
    BY <2>3, <2>4 DEF GoodRow
  <2>6. row' = [row EXCEPT ![j] = r]
    BY <1>7 DEF Retry
  <2>7. QED  BY <2>5, <2>6, OneRowWritten
<1>8. ASSUME NEW j \in Jobs, PassTime(j)
      PROVE  RowsOK' /\ CancelledIsOver'
  <2> DEFINE late == row[j].late \/ Live(j) # {}
             r == [row[j] EXCEPT !.age = @ + 1, !.late = late]
  <2>1. GoodRow(row[j]) /\ row[j].age < 2
    BY <1>8, RowIsGood DEF PassTime, Is
  <2>2. row[j].age + 1 \in 0..2 /\ late \in BOOLEAN /\ row[j] \in Row
    BY <2>1 DEF GoodRow, Row
  <2>3. row' = [row EXCEPT ![j] = r]
    BY <1>8 DEF PassTime
  <2> HIDE DEF late
  <2>4. r \in Row
    BY <2>2 DEF Row
  <2>5. r.holder = row[j].holder /\ r.status = row[j].status /\ r.cancelled = row[j].cancelled
    BY <2>2 DEF Row
  <2>6. GoodRow(r)
    BY <2>1, <2>4, <2>5 DEF GoodRow
  <2>7. QED  BY <2>3, <2>6, OneRowWritten
<1>9. ASSUME NEW j \in Jobs, Expire(j)
      PROVE  RowsOK' /\ CancelledIsOver'
  <2> DEFINE r == [row[j] EXCEPT !.expired = TRUE]
  <2>1. Exists(j)
    BY <1>9 DEF Expire
  <2>2. GoodRow(r)
    BY <2>1, RowIsGood DEF GoodRow, Row
  <2>3. row' = [row EXCEPT ![j] = r]
    BY <1>9 DEF Expire
  <2>4. QED  BY <2>2, <2>3, OneRowWritten
<1>10. CASE row' = row
  BY <1>10 DEF Orderly, DocTypeOK, RowsOK, CancelledIsOver, Exists, Is
<1>11. QED
  BY <1>1, <1>2, <1>3, <1>4, <1>5, <1>6, <1>7, <1>8, <1>9, <1>10, WhoWritesRows

-----------------------------------------------------------------------------
(***************************************************************************)
(* Requests, directories and results.                                      *)
(***************************************************************************)

\* Requests keep their shape; a row is there only after its request passed.
LEMMA RequestsStep ==
  ASSUME Orderly, Next
  PROVE  RequestsOK' /\ RowsWereEnqueued'
<1> USE DEF Orderly, DocTypeOK
<1>1. kind' = kind /\ Exports' = Exports
  BY DEF Next, Exports
<1>2. may' \in [Jobs -> [permitted: BOOLEAN, row: BOOLEAN, dep: BOOLEAN]]
  <2>1. ASSUME NEW j \in Jobs, World(j)
        PROVE  may' \in [Jobs -> [permitted: BOOLEAN, row: BOOLEAN, dep: BOOLEAN]]
    <3>1. CASE Revoke(j)          BY <3>1 DEF Revoke, RequestsOK
    <3>2. CASE Regrant(j)         BY <3>2 DEF Regrant, RequestsOK
    <3>3. CASE EditRecord(j)
      <4>1. may' = [may EXCEPT ![j] = [@ EXCEPT !.row = FALSE, !.dep = FALSE]]
        BY <3>3 DEF EditRecord
      <4>2. [may[j] EXCEPT !.row = FALSE, !.dep = FALSE]
              \in [permitted: BOOLEAN, row: BOOLEAN, dep: BOOLEAN]
        BY DEF RequestsOK
      <4>3. QED  BY <4>1, <4>2 DEF RequestsOK
    <3>4. CASE EditDependency(j)  BY <3>4 DEF EditDependency, RequestsOK
    <3>5. QED  BY <2>1, <3>1, <3>2, <3>3, <3>4 DEF World
  <2>2. CASE may' = may
    BY <2>2 DEF RequestsOK
  <2>3. QED
    BY <2>1, <2>2, WhoWritesRequests
       DEF Stage, Enqueue, RejectEnqueue, WebDies, ConsumeResult, ConsumeStops, RetireConsumed,
           RemoveDir, DownloadAccess, ReadExport, Purge, StartupScan
<1>3. /\ request' \in [Jobs -> {"none", "staged", "waiting", "retiring", "done"}]
      /\ \A j \in Jobs : request'[j] # request[j] =>
           /\ request'[j] = "staged" => request[j] = "none" /\ row' = row
           /\ request'[j] # "none"
  BY WhoWritesRequests
     DEF World, Stage, Enqueue, RejectEnqueue, WebDies, ConsumeResult, ConsumeStops,
         RetireConsumed, RemoveDir, DownloadAccess, ReadExport, Purge, StartupScan, RequestsOK
<1>4. reader' \subseteq Exports /\ doomed' \subseteq Jobs
  BY WhoWritesRequests
     DEF World, Stage, Enqueue, RejectEnqueue, WebDies, ConsumeResult, ConsumeStops,
         RetireConsumed, RemoveDir, DownloadAccess, ReadExport, Purge, StartupScan, RequestsOK, JobAccess
<1>5. \A j \in Jobs : Exists(j)' => Exists(j) \/ request'[j] \notin {"none", "staged"}
  <2>1. ASSUME NEW i \in Jobs, Enqueue(i), NEW j \in Jobs
        PROVE  Exists(j)' => Exists(j) \/ request'[j] \notin {"none", "staged"}
    BY <2>1 DEF Enqueue, Exists, RowsOK, RequestsOK
  <2>2. ASSUME NEW j \in Jobs, \A i \in Jobs : ~Enqueue(i)
        PROVE  Exists(j)' => Exists(j)
    <3>1. CASE \E w \in Workers : Finish(w) \/ FinishError(w)
      BY <3>1 DEF Finish, FinishError, Complete, Holds, Is, Exists, RowsOK
    <3>2. CASE \E w \in Workers, i \in Jobs : Claim(w, i)
      BY <3>2 DEF Claim, Is, Exists, RowsOK
    <3>3. CASE \E i \in Jobs : RetireConsumed(i) \/ Cancel(i) \/ Retry(i)
                                \/ PassTime(i) \/ Expire(i) \/ Purge(i)
      BY <3>3 DEF RetireConsumed, Cancel, Retry, PassTime, Expire, Purge, Is, Exists, RowsOK
    <3>4. QED  BY <2>2, <3>1, <3>2, <3>3, WhoWritesRows DEF Exists
  <2>3. QED  BY <2>1, <2>2
<1>6. RowsWereEnqueued'
  BY <1>3, <1>5 DEF RowsWereEnqueued, Exists, RequestsOK
<1>7. QED  BY <1>1, <1>2, <1>3, <1>4, <1>6 DEF RequestsOK

\* A directory that is gone holds no result.
LEMMA DirectoriesStep ==
  ASSUME Orderly, Next
  PROVE  DirectoriesOK'
<1> USE DEF Orderly, DocTypeOK
<1>1. ASSUME NEW j \in Jobs, NEW r \in 0..MaxClaims, store[j].dir, WriteDir(j, r)
      PROVE  DirectoriesOK'
  <2>1. store'[j].dir
    BY <1>1 DEF WriteDir, DirectoriesOK
  <2>2. store' \in [Jobs -> [dir: BOOLEAN, result: 0..MaxClaims, aged: BOOLEAN]]
    BY <1>1 DEF WriteDir, DirectoriesOK
  <2>3. \A i \in Jobs \ {j} : store'[i] = store[i]
    BY <1>1 DEF WriteDir, DirectoriesOK
  <2>4. QED  BY <2>1, <2>2, <2>3 DEF DirectoriesOK
<1>2. ASSUME NEW j \in Jobs, RemoveTree(j)
      PROVE  DirectoriesOK'
  BY <1>2, JobsAssumption DEF RemoveTree, DirectoriesOK, JobsAssumption
<1>3. CASE store' = store
  BY <1>3 DEF DirectoriesOK
<1>4. ASSUME NEW w \in Workers, ClearResult(w) \/ Render(w) \/ UnlinkFailed(w)
      PROVE  DirectoriesOK'
  <2>1. worker[w] \in WorkerRow
    BY <1>4, BusyWorker DEF ClearResult, Render, UnlinkFailed, At
  <2>2. worker[w].job \in Jobs /\ {0, worker[w].token} \subseteq 0..MaxClaims
    BY <2>1, JobsAssumption DEF WorkerRow, JobsAssumption
  <2>3. QED  BY <1>1, <1>3, <1>4, <2>2 DEF ClearResult, Render, UnlinkFailed
<1>5. ASSUME NEW j \in Jobs, RejectEnqueue(j) \/ RemoveDir(j)
      PROVE  DirectoriesOK'
  BY <1>2, <1>5 DEF RejectEnqueue, RemoveDir
<1>6. ASSUME NEW j \in Jobs, Stage(j) \/ AgeDir(j)
      PROVE  DirectoriesOK'
  <2>1. CASE Stage(j)   BY <2>1 DEF Stage, DirectoriesOK
  <2>2. CASE AgeDir(j)  BY <2>2 DEF AgeDir, DirectoriesOK
  <2>3. QED  BY <1>6, <2>1, <2>2
<1>7. QED  BY <1>3, <1>4, <1>5, <1>6, WhoWritesDirectories

\* Tokens, documents and provenance stay within the claims that were made.
LEMMA ResultsStep ==
  ASSUME Orderly, Next
  PROVE  ResultsOK'
<1> USE DEF Orderly, DocTypeOK
<1>1. ASSUME NEW w \in Workers, Finish(w)
      PROVE  ResultsOK'
  <2>1. worker[w].job \in Jobs /\ worker[w].result \in 0..MaxClaims
    BY <1>1, BusyWorker DEF Finish, At, WorkerRow
  <2>2. prov' \in [Jobs -> 0..MaxClaims] /\ published' \in [Jobs -> 0..MaxClaims]
    BY <1>1, <2>1 DEF Finish, Complete, ResultsOK
  <2>3. QED  BY <1>1, <2>2 DEF Finish, ResultsOK
<1>2. ASSUME NEW w \in Workers, NEW j \in Jobs, Claim(w, j)
      PROVE  ResultsOK'
  BY <1>2, JobsAssumption DEF Claim, ResultsOK, JobsAssumption
<1>3. ASSUME NEW j \in Jobs, ConsumeResult(j) \/ ReadExport(j)
      PROVE  ResultsOK'
  <2>1. store[j].result # 0 => store[j].result \in 1..MaxClaims
    BY JobsAssumption DEF DirectoriesOK, JobsAssumption
  <2>2. QED  BY <1>3, <2>1 DEF ConsumeResult, ReadExport, ResultsOK
<1>4. CASE prov' = prov /\ published' = published /\ claims' = claims /\ served' = served
  BY <1>4 DEF ResultsOK
<1>5. QED  BY <1>1, <1>2, <1>3, <1>4, WhoWritesResults

\* The queue stays orderly.
LEMMA QueueStep == Orderly /\ [Next]_vars => Orderly'
<1> SUFFICES ASSUME Orderly, [Next]_vars  PROVE Orderly'
  OBVIOUS
<1>1. CASE Next
  BY <1>1, WorkersStep, RowsStep, RequestsStep, DirectoriesStep, ResultsStep
     DEF Orderly, DocTypeOK
<1>2. CASE UNCHANGED vars
  BY <1>2 DEF vars, Orderly, DocTypeOK, RowsOK, DirectoriesOK, WorkersOK, RequestsOK, ResultsOK,
              RowsWereEnqueued, CancelledIsOver, PublishersHaveResult, Exists, Is, Exports
<1>3. QED  BY <1>1, <1>2

\* Rows, directories, workers and results keep their shape for any limits
\* (document_jobs of schema.py and its CHECK constraints among them).
THEOREM QueueIsOrderly == Spec => []Orderly
<1>1. QED  BY QueueStart, QueueStep, PTL DEF Spec
-----------------------------------------------------------------------------
(***************************************************************************)
(* The queue implements JobLifecycle.                                      *)
(***************************************************************************)

\* What the rows tell of a job, and the documents they offer.
told == [j \in Jobs |-> StatusOf(j)]
offered == [j \in Jobs |-> DocumentOf(j)]

\* How a row reads: its status says all but whether a failure was a cancellation.
Reads(j) ==
  /\ Is(j, {"completed"}) => StatusOf(j) = "done" /\ DocumentOf(j) = published[j]
  /\ Is(j, {"failed"}) => /\ StatusOf(j) = IF row[j].cancelled THEN "cancelled" ELSE "failed"
                          /\ DocumentOf(j) = 0
  /\ Is(j, Active) => StatusOf(j) = "waiting" /\ DocumentOf(j) = 0
  /\ ~Exists(j) => /\ StatusOf(j) = IF request[j] \in {"none", "staged"} THEN "none" ELSE "gone"
                   /\ DocumentOf(j) = 0

\* Every row reads so, before a step and after it.
LEMMA RowsRead == \A j \in Jobs : Reads(j)
BY DEF Reads, StatusOf, DocumentOf, Is, Active

LEMMA RowsReadNext == (\A j \in Jobs : Reads(j))'
BY RowsRead, PTL

\* Nothing is told of a job whose row, request and document stay.
LEMMA OthersStay ==
  ASSUME RowsOK, NEW i \in Jobs, row'[i] = row[i], published'[i] = published[i],
         Exists(i) \/ (request[i] \in {"none", "staged"} <=> request'[i] \in {"none", "staged"})
  PROVE  StatusOf(i)' = StatusOf(i) /\ DocumentOf(i)' = DocumentOf(i)
<1>1. Reads(i) /\ Reads(i)'
  BY RowsRead, RowsReadNext
<1>2. CASE ~Exists(i)
  BY <1>1, <1>2 DEF Reads, Exists
<1>3. CASE Exists(i)
  <2>1. Is(i, {"completed"}) \/ Is(i, {"failed"}) \/ Is(i, Active)
    BY <1>3 DEF RowsOK, Is, Exists, Row, Status, Active
  <2>2. QED  BY <1>1, <2>1 DEF Reads, Is, Exists
<1>4. QED  BY <1>2, <1>3

\* A step after which every job reads as before is a stutter ...
LEMMA NothingTold ==
  ASSUME \A i \in Jobs : StatusOf(i)' = StatusOf(i) /\ DocumentOf(i)' = DocumentOf(i)
  PROVE  UNCHANGED <<told, offered>>
BY DEF told, offered

\* ... and one after which a single job reads differently moves that job alone.
LEMMA OneJobMoves ==
  ASSUME NEW j \in Jobs,
         \A i \in Jobs \ {j} : StatusOf(i)' = StatusOf(i) /\ DocumentOf(i)' = DocumentOf(i)
  PROVE  /\ told[j] = StatusOf(j) /\ told' = [told EXCEPT ![j] = StatusOf(j)']
         /\ offered[j] = DocumentOf(j) /\ offered' = [offered EXCEPT ![j] = DocumentOf(j)']
         /\ DocumentOf(j)' = DocumentOf(j) => offered' = offered
BY DEF told, offered

\* The other jobs read as before when only the row of one is written.
LEMMA OtherRowsStay ==
  ASSUME RowsOK, NEW j \in Jobs,
         \A i \in Jobs \ {j} : /\ row'[i] = row[i] /\ published'[i] = published[i]
                               /\ request'[i] = request[i]
  PROVE  \A i \in Jobs \ {j} : StatusOf(i)' = StatusOf(i) /\ DocumentOf(i)' = DocumentOf(i)
BY OthersStay

\* Every step of the queue is one of the life cycle, or tells nothing.
LEMMA QueueRefines ==
  ASSUME Orderly, Next
  PROVE  [Lifecycle!Next]_<<told, offered>>
<1> USE DEF Orderly, DocTypeOK
<1> DEFINE Stays(i) == StatusOf(i)' = StatusOf(i) /\ DocumentOf(i)' = DocumentOf(i)
<1>r. \A j \in Jobs : Reads(j) /\ Reads(j)'
  BY RowsRead, RowsReadNext
<1>s. (\A i \in Jobs : Stays(i)) => [Lifecycle!Next]_<<told, offered>>
  BY NothingTold
<1>1. ASSUME NEW w \in Workers, NEW j \in Jobs, Claim(w, j)
      PROVE  \A i \in Jobs : Stays(i)
  <2>1. \A i \in Jobs \ {j} : Stays(i)
    <3>1. \A i \in Jobs \ {j} : /\ row'[i] = row[i] /\ published'[i] = published[i]
                                  /\ request'[i] = request[i]
      BY <1>1 DEF Claim, RowsOK, RequestsOK, ResultsOK
    <3>2. QED  BY <3>1, OtherRowsStay
  <2>2. Is(j, Active) /\ Is(j, Active)'
    BY <1>1 DEF Claim, Is, Exists, Active, RowsOK, Row, NoRow
  <2>3. Stays(j)
    BY <1>r, <2>2 DEF Reads
  <2>4. QED  BY <2>1, <2>3
<1>2. ASSUME NEW w \in Workers, Finish(w)
      PROVE  [Lifecycle!Next]_<<told, offered>>
  <2>1. PICK j \in Jobs, d \in 1..MaxClaims : j = worker[w].job /\ d = worker[w].result
    BY <1>2, BusyWorker DEF Finish, At, PublishersHaveResult, WorkerRow
  <2>2. CASE row' = row /\ published' = published
    BY <1>s, <1>2, <2>2, OthersStay DEF Finish
  <2>3. ASSUME NEW unsure \in BOOLEAN, Holds(w), Complete(j, d, unsure)
        PROVE  [Lifecycle!Next]_<<told, offered>>
    <3>1. Is(j, Active) /\ Is(j, {"completed"})' /\ published'[j] = d
      BY <2>1, <2>3 DEF Complete, Holds, Is, Exists, Active, RowsOK, Row, NoRow, ResultsOK
    <3>2. StatusOf(j) \in {"waiting"} /\ StatusOf(j)' = "done" /\ DocumentOf(j)' = d
      BY <1>r, <3>1 DEF Reads
    <3>3. \A i \in Jobs \ {j} : Stays(i)
      <4>1. \A i \in Jobs \ {j} : /\ row'[i] = row[i] /\ published'[i] = published[i]
                                  /\ request'[i] = request[i]
        BY <1>2, <2>3 DEF Finish, Complete, RowsOK, RequestsOK, ResultsOK
      <4>2. QED  BY <4>1, OtherRowsStay
    <3>4. Lifecycle!Finish(j, d)
      BY <3>2, <3>3, OneJobMoves DEF Lifecycle!Finish, Lifecycle!Becomes, told, offered
    <3>5. QED  BY <3>4 DEF Lifecycle!Next
  <2>4. QED  BY <1>2, <2>1, <2>2, <2>3 DEF Finish
<1>3. ASSUME NEW w \in Workers, FinishError(w)
      PROVE  [Lifecycle!Next]_<<told, offered>>
  <2>1. PICK j \in Jobs : j = worker[w].job
    BY <1>3, BusyWorker DEF FinishError, At, WorkerRow
  <2>2. CASE row' = row
    BY <1>s, <1>3, <2>2, OthersStay DEF FinishError
  <2>3. CASE Holds(w) /\ row' # row
    <3>1. Is(j, Active) /\ ~row[j].cancelled /\ row[j] \in Row
      BY <2>1, <2>3 DEF Holds, Is, Exists, Active, RowsOK, CancelledIsOver
    <3>2. StatusOf(j) \in {"waiting"} /\ DocumentOf(j) = 0
      BY <1>r, <3>1 DEF Reads
    <3>3. \A i \in Jobs \ {j} : Stays(i)
      <4>1. \A i \in Jobs \ {j} : /\ row'[i] = row[i] /\ published'[i] = published[i]
                                  /\ request'[i] = request[i]
        BY <1>3, <2>1, <2>3 DEF FinishError, RowsOK, RequestsOK, ResultsOK
      <4>2. QED  BY <4>1, OtherRowsStay
    <3>4. PICK status \in {"retry", "failed"} :
            row'[j] = [row[j] EXCEPT !.status = status, !.holder = 0, !.age = 0]
      BY <1>3, <2>1, <2>3 DEF FinishError, RowsOK
    <3>5. Exists(j)' /\ row'[j].status = status /\ ~row'[j].cancelled
      BY <3>1, <3>4 DEF Exists, NoRow, Row
    <3>6. CASE status = "retry"
      <4>1. Is(j, Active)'
        BY <3>5, <3>6 DEF Is, Active
      <4>2. Stays(j)
        BY <1>r, <3>2, <4>1 DEF Reads
      <4>3. QED  BY <1>s, <3>3, <4>2
    <3>7. CASE status = "failed"
      <4>1. StatusOf(j)' = "failed" /\ DocumentOf(j)' = 0
        BY <1>r, <3>5, <3>7 DEF Reads, Is
      <4>2. Lifecycle!Fail(j)
        BY <3>2, <3>3, <4>1, OneJobMoves
           DEF Lifecycle!Fail, Lifecycle!Becomes, told, offered
      <4>3. QED  BY <4>2 DEF Lifecycle!Next
    <3>8. QED  BY <3>6, <3>7
  <2>4. QED  BY <1>3, <2>2, <2>3 DEF FinishError
<1>4. ASSUME NEW j \in Jobs, Enqueue(j)
      PROVE  Lifecycle!Submit(j)
  <2>1. ~Exists(j) /\ Is(j, Active)'
    BY <1>4 DEF Enqueue, RowsWereEnqueued, Is, Exists, Active, RowsOK, NoRow
  <2>2. StatusOf(j) \in {"none"} /\ StatusOf(j)' = "waiting" /\ DocumentOf(j)' = DocumentOf(j)
    BY <1>r, <1>4, <2>1 DEF Reads, Enqueue
  <2>3. \A i \in Jobs \ {j} : Stays(i)
    <3>1. \A i \in Jobs \ {j} : /\ row'[i] = row[i] /\ published'[i] = published[i]
                                  /\ request'[i] = request[i]
      BY <1>4 DEF Enqueue, RowsOK, RequestsOK, ResultsOK
    <3>2. QED  BY <3>1, OtherRowsStay
  <2>4. QED
    BY <2>2, <2>3, OneJobMoves DEF Lifecycle!Submit, Lifecycle!Becomes, told, offered
<1>5. ASSUME NEW j \in Jobs, RejectEnqueue(j) \/ WebDies(j)
      PROVE  [Lifecycle!Next]_<<told, offered>>
  <2>1. row' = row /\ published' = published /\ request' = [request EXCEPT ![j] = "done"]
    BY <1>5 DEF RejectEnqueue, WebDies
  <2>2. ASSUME NEW i \in Jobs \ {j}  PROVE Stays(i)
    BY <2>1, <2>2, OthersStay DEF RequestsOK
  <2>3. CASE Exists(j) \/ request[j] \notin {"none", "staged"}
    BY <1>s, <2>1, <2>2, <2>3, OthersStay DEF RequestsOK
  <2>4. CASE ~Exists(j) /\ request[j] \in {"none", "staged"}
    <3>1. ~Exists(j)' /\ request'[j] = "done"
      BY <2>1, <2>4 DEF Exists, RequestsOK
    <3>2. StatusOf(j) \in {"none"} /\ StatusOf(j)' = "gone" /\ DocumentOf(j)' = DocumentOf(j)
      BY <1>r, <2>4, <3>1 DEF Reads
    <3>3. Lifecycle!Refuse(j)
      BY <2>2, <3>2, OneJobMoves DEF Lifecycle!Refuse, Lifecycle!Becomes, told, offered
    <3>4. QED  BY <3>3 DEF Lifecycle!Next
  <2>5. QED  BY <2>3, <2>4
<1>6. ASSUME NEW j \in Jobs, RetireConsumed(j) \/ Purge(j)
      PROVE  [Lifecycle!Next]_<<told, offered>>
  <2>1. /\ published' = published
        /\ \A i \in Jobs : request'[i] = request[i]
                             \/ {request[i], request'[i]} \cap {"none", "staged"} = {}
    BY <1>6 DEF RetireConsumed, Purge, RequestsOK
  <2>2. CASE row' = row
    BY <1>s, <2>1, <2>2, OthersStay
  <2>3. CASE Exists(j) /\ row' = [row EXCEPT ![j] = NoRow]
    <3>1. ASSUME NEW i \in Jobs \ {j}  PROVE Stays(i)
      BY <2>1, <2>3, <3>1, OthersStay DEF RowsOK
    <3>2. StatusOf(j) \in {"waiting", "done", "failed", "cancelled"}
      BY <1>r, <2>3 DEF Reads, RowsOK, Is, Exists, Row, Status, Active
    <3>3. ~Exists(j)' /\ request'[j] \notin {"none", "staged"}
      BY <2>1, <2>3 DEF Exists, RowsOK, RowsWereEnqueued
    <3>4. StatusOf(j)' = "gone" /\ DocumentOf(j)' = 0
      BY <1>r, <3>3 DEF Reads
    <3>5. Lifecycle!Drop(j)
      BY <3>1, <3>2, <3>4, OneJobMoves
         DEF Lifecycle!Drop, Lifecycle!Becomes, told, offered
    <3>6. QED  BY <3>5 DEF Lifecycle!Next
  <2>4. QED  BY <1>6, <2>2, <2>3 DEF RetireConsumed, Purge, Sweepable, Is
<1>7. ASSUME NEW j \in Jobs, Cancel(j)
      PROVE  Lifecycle!Cancel(j)
  <2>1. Is(j, Active) /\ Is(j, {"failed"})' /\ row'[j].cancelled
    BY <1>7 DEF Cancel, Is, Exists, Active, RowsOK, Row, NoRow
  <2>2. StatusOf(j) \in {"waiting"} /\ StatusOf(j)' = "cancelled"
        /\ DocumentOf(j)' = DocumentOf(j)
    BY <1>r, <2>1 DEF Reads
  <2>3. \A i \in Jobs \ {j} : Stays(i)
    <3>1. \A i \in Jobs \ {j} : /\ row'[i] = row[i] /\ published'[i] = published[i]
                                  /\ request'[i] = request[i]
      BY <1>7 DEF Cancel, RowsOK, RequestsOK, ResultsOK
    <3>2. QED  BY <3>1, OtherRowsStay
  <2>4. QED
    BY <2>2, <2>3, OneJobMoves DEF Lifecycle!Cancel, Lifecycle!Becomes, told, offered
<1>8. ASSUME NEW j \in Jobs, Retry(j)
      PROVE  Lifecycle!Retry(j)
  <2>1. Is(j, {"failed"}) /\ ~row[j].cancelled /\ Is(j, Active)'
    BY <1>8 DEF Retry, Is, Exists, Active, RowsOK, Row, NoRow
  <2>2. StatusOf(j) \in {"failed"} /\ StatusOf(j)' = "waiting"
        /\ DocumentOf(j)' = DocumentOf(j)
    BY <1>r, <2>1 DEF Reads
  <2>3. \A i \in Jobs \ {j} : Stays(i)
    <3>1. \A i \in Jobs \ {j} : /\ row'[i] = row[i] /\ published'[i] = published[i]
                                  /\ request'[i] = request[i]
      BY <1>8 DEF Retry, RowsOK, RequestsOK, ResultsOK
    <3>2. QED  BY <3>1, OtherRowsStay
  <2>4. QED
    BY <2>2, <2>3, OneJobMoves DEF Lifecycle!Retry, Lifecycle!Becomes, told, offered
<1>9. ASSUME NEW j \in Jobs, PassTime(j) \/ Expire(j)
      PROVE  \A i \in Jobs : Stays(i)
  <2>1. \A i \in Jobs \ {j} : Stays(i)
    <3>1. \A i \in Jobs \ {j} : /\ row'[i] = row[i] /\ published'[i] = published[i]
                                  /\ request'[i] = request[i]
      BY <1>9 DEF PassTime, Expire, RowsOK, RequestsOK, ResultsOK
    <3>2. QED  BY <3>1, OtherRowsStay
  <2>2. /\ Exists(j) /\ Exists(j)' /\ published' = published
        /\ row'[j].status = row[j].status /\ row'[j].cancelled = row[j].cancelled
    BY <1>9 DEF PassTime, Expire, Is, Exists, RowsOK, Row, NoRow
  <2>3. Is(j, {"completed"}) \/ Is(j, {"failed"}) \/ Is(j, Active)
    BY <2>2 DEF RowsOK, Is, Exists, Row, Status, Active
  <2>4. Stays(j)
    BY <1>r, <2>2, <2>3 DEF Reads, Is, Active
  <2>5. QED  BY <2>1, <2>4
<1>10. CASE /\ row' = row /\ published' = published
            /\ ~\E j \in Jobs : RejectEnqueue(j) \/ WebDies(j)
  <2>1. \A i \in Jobs : request[i] \in {"none", "staged"} <=> request'[i] \in {"none", "staged"}
    BY <1>10, WhoWritesRequests
       DEF World, Stage, Enqueue, ConsumeResult, ConsumeStops, RetireConsumed, RemoveDir,
           DownloadAccess, ReadExport, Purge, StartupScan, RequestsOK, RowsOK, Exists, NoRow, RowsWereEnqueued
  <2>2. QED  BY <1>s, <1>10, <2>1, OthersStay
<1>11. (\E j \in Jobs : Lifecycle!Submit(j) \/ Lifecycle!Cancel(j) \/ Lifecycle!Retry(j))
         => Lifecycle!Next
  BY DEF Lifecycle!Next
<1>12. QED
  BY <1>s, <1>1, <1>2, <1>3, <1>4, <1>5, <1>6, <1>7, <1>8, <1>9, <1>10, <1>11, WhoWritesRows

\* Whatever leases run out, a worker that lost its job completes, fails or reopens
\* nothing, a cancelled job is neither claimed nor retried, a finished document is
\* never replaced, and what was purged or consumed does not come back
\* (document_worker.py: the fences of claim, finish, retry, cancel and purge).
THEOREM QueueKeepsLifecycle == Spec => KeepsLifecycle
<1>1. Init => Lifecycle!Init
  BY RowsRead DEF Init, Lifecycle!Init, Reads, Exists, told, offered
<1>2. Orderly /\ [Next]_vars => [Lifecycle!Next]_<<told, offered>>
  <2>1. ASSUME Orderly, UNCHANGED vars  PROVE UNCHANGED <<told, offered>>
    BY <2>1, NothingTold, OthersStay DEF vars, Orderly, DocTypeOK
  <2>2. QED  BY <2>1, QueueRefines
<1>3. QED
  BY <1>1, <1>2, QueueIsOrderly, PTL DEF Spec, KeepsLifecycle, Lifecycle!Spec, told, offered

-----------------------------------------------------------------------------
(***************************************************************************)
(* An edited export is not published again.                                *)
(***************************************************************************)

\* An edit is not undone.
LEMMA EditsStay ==
  ASSUME Orderly, Next, NEW j \in Jobs, ~may[j].row
  PROVE  ~may'[j].row
<1> USE DEF Orderly, DocTypeOK, RequestsOK
<1>1. ASSUME NEW i \in Jobs, World(i)  PROVE ~may'[j].row
  BY <1>1 DEF World, Revoke, Regrant, EditRecord, EditDependency
<1>2. QED
  BY <1>1, WhoWritesRequests
     DEF Stage, Enqueue, RejectEnqueue, WebDies, ConsumeResult, ConsumeStops, RetireConsumed,
         RemoveDir, DownloadAccess, ReadExport, Purge, StartupScan

\* A job is completed by a worker past the second check, and by no other step.
LEMMA OnlyVerifiedComplete ==
  ASSUME Orderly, Next, NEW j \in Jobs, ~Is(j, {"completed"}), Is(j, {"completed"})'
  PROVE  \E w \in Live(j) : At(w, "verified")
<1> USE DEF Orderly, DocTypeOK
<1>1. ASSUME NEW w \in Workers, Finish(w)
      PROVE  \E v \in Live(j) : At(v, "verified")
  <2>1. At(w, "verified") /\ worker[w] # Idle
    BY <1>1 DEF Finish, At, Idle
  <2>2. row' # row
    BY DEF Is, Exists
  <2>3. worker[w].job = j
    BY <1>1, <2>2 DEF Finish, Complete, Is, Exists, RowsOK
  <2>4. QED  BY <2>1, <2>3 DEF Live
<1>2. ASSUME NEW w \in Workers, FinishError(w), row' # row
      PROVE  ~Is(j, {"completed"})'
  <2>1. PICK i \in Jobs : i = worker[w].job
    BY <1>2, BusyWorker DEF FinishError, At, WorkerRow
  <2>2. row[i] \in Row
    BY <1>2, <2>1 DEF FinishError, Holds, Is, Exists, RowsOK
  <2>3. PICK status \in {"retry", "failed"} :
          row' = [row EXCEPT ![i] = [row[i] EXCEPT !.status = status, !.holder = 0, !.age = 0]]
    BY <1>2, <2>1 DEF FinishError
  <2>4. row'[i].status = status /\ \A k \in Jobs \ {i} : row'[k] = row[k]
    BY <2>2, <2>3 DEF RowsOK, Row
  <2>5. QED  BY <2>4 DEF Is, Exists
<1>3. ASSUME NEW w \in Workers, NEW i \in Jobs, Claim(w, i)
      PROVE  ~Is(j, {"completed"})'
  <2>1. row[i] \in Row
    BY <1>3 DEF Claim, Is, Exists, RowsOK
  <2>2. row'[i].status = "processing" /\ \A k \in Jobs \ {i} : row'[k] = row[k]
    BY <1>3, <2>1 DEF Claim, RowsOK, Row
  <2>3. QED  BY <2>2 DEF Is, Exists
<1>4. ASSUME NEW i \in Jobs, \/ Enqueue(i) \/ RetireConsumed(i) \/ Cancel(i) \/ Retry(i)
                              \/ PassTime(i) \/ Expire(i) \/ Purge(i)
      PROVE  ~Is(j, {"completed"})'
  BY <1>4 DEF Enqueue, RetireConsumed, Cancel, Retry, PassTime, Expire, Purge, Is, Exists,
              RowsOK, Row, NoRow
<1>5. CASE row' = row
  BY <1>5 DEF Is, Exists
<1>6. QED  BY <1>1, <1>2, <1>3, <1>4, <1>5, WhoWritesRows

\* No worker passes the second check for an edited record.
LEMMA NoneVerifiesEdited ==
  ASSUME Orderly, Next, NEW j \in Exports, ~may[j].row, NEW w \in Workers,
         w \in Live(j)', At(w, "verified")'
  PROVE  w \in Live(j) /\ At(w, "verified")
<1> USE DEF Orderly, DocTypeOK
<1>1. ASSUME NEW v \in Workers, Reverify(v)
      PROVE  w \in Live(j) /\ At(w, "verified")
  <2>1. CASE w = v
    <3>1. worker[w] \in WorkerRow
      BY <1>1, <2>1, BusyWorker DEF Reverify, At
    <3>2. worker'[w].job = worker[w].job
      BY <1>1, <2>1, <3>1 DEF Reverify, Goto, Abort, WorkersOK, WorkerRow
    <3>3. ~Verified(worker[w].job)
      BY <3>2 DEF Live, Verified, Exports
    <3>4. worker'[w].step = "failing"
      BY <1>1, <2>1, <3>1, <3>3 DEF Reverify, Abort, WorkersOK, WorkerRow
    <3>5. QED  BY <3>4 DEF At
  <2>2. CASE w # v
    BY <1>1, <2>2 DEF Reverify, Goto, Abort, Live, At, WorkersOK
  <2>3. QED  BY <2>1, <2>2
<1>2. ASSUME NEW v \in Workers, \/ Prepare(v) \/ ClearResult(v) \/ Render(v) \/ StepFails(v)
                                 \/ ReadResult(v) \/ UnlinkFailed(v)
      PROVE  w \in Live(j) /\ At(w, "verified")
  <2>1. worker[v] \in WorkerRow
    BY <1>2, BusyWorker DEF Prepare, ClearResult, Render, StepFails, ReadResult, UnlinkFailed, At,
                                  Steps
  <2>2. worker'[v].step # "verified" /\ (w # v => worker'[w] = worker[w])
    BY <1>2, <2>1 DEF Prepare, ClearResult, Render, StepFails, ReadResult, UnlinkFailed, At,
                      Goto, Abort, WorkersOK, WorkerRow
  <2>3. QED  BY <2>2 DEF Live, At
<1>3. ASSUME NEW v \in Workers, Finish(v) \/ FinishError(v) \/ WorkerDies(v)
      PROVE  w \in Live(j) /\ At(w, "verified")
  <2>1. worker' = [worker EXCEPT ![v] = Idle] \/ (Finish(v) /\ Abort(v, FALSE))
    BY <1>3 DEF Finish, FinishError, WorkerDies
  <2>2. w # v => worker'[w] = worker[w]
    BY <2>1 DEF Abort, WorkersOK
  <2>3. worker'[v] = Idle \/ worker'[v].step = "failing"
    <3>1. Finish(v) => worker[v] \in WorkerRow
      BY BusyWorker DEF Finish, At
    <3>2. QED  BY <2>1, <3>1 DEF Abort, WorkersOK, WorkerRow
  <2>4. QED  BY <2>2, <2>3 DEF Live, At, Idle
<1>4. ASSUME NEW v \in Workers, NEW i \in Jobs, Claim(v, i)
      PROVE  w \in Live(j) /\ At(w, "verified")
  BY <1>4 DEF Claim, Live, At, WorkersOK
<1>5. CASE worker' = worker
  BY <1>5 DEF Live, At
<1>6. QED  BY <1>1, <1>2, <1>3, <1>4, <1>5, WhoMovesWorkers DEF WorkerStep

\* After an edit of its record no claim, retry or late worker publishes an export
\* that was not past the second check (_process_claimed_document_job verifies the
\* policy again after rendering and completes under the lock token).
THEOREM EditedStaysUnpublished == Spec => EditedNeverPublished
<1>1. Orderly /\ [Next]_vars => [\A j \in Exports : Unpublishable(j) => Unpublishable(j)']_vars
  <2> SUFFICES ASSUME Orderly, Next, NEW j \in Exports, Unpublishable(j)
               PROVE  Unpublishable(j)'
    OBVIOUS
  <2>1. j \in Jobs /\ ~may[j].row /\ ~Is(j, {"completed"})
    BY DEF Exports, Unpublishable
  <2>2. ~may'[j].row
    BY <2>1, EditsStay
  <2>3. ~Is(j, {"completed"})'
    BY <2>1, OnlyVerifiedComplete DEF Unpublishable
  <2>4. \A w \in Live(j)' : ~At(w, "verified")'
    BY <2>1, NoneVerifiesEdited DEF Unpublishable, Live
  <2>5. QED  BY <2>2, <2>3, <2>4 DEF Unpublishable
<1>2. QED  BY <1>1, QueueIsOrderly, PTL DEF Spec, EditedNeverPublished

-----------------------------------------------------------------------------
(***************************************************************************)
(* A finished job keeps and serves the result it was completed with, as    *)
(* long as no worker of the job has outlasted its lease.                   *)
(***************************************************************************)

\* The directory holds result r.  The start-up sweep of embedded mode goes by
\* age alone and may have removed the directory of any job.
Stored(j, r) == store[j].result = r \/ (~External /\ store[j].result = 0)

\* The worker holds the row under a lease that has not grown old, or it completed
\* the row, was told that it did not, and is giving up.
OnItsRow(j, w) ==
  \/ row[j].status = "processing" /\ row[j].holder = worker[w].token /\ row[j].age = 0
  \/ row[j].status = "completed" /\ row[j].unsure /\ worker[w].step \in {"failing", "failed"}

\* A worker on a job is the only one, is on its row, and finds its own rendering
\* in the directory.
HeldByOne(j) ==
  \A w \in Live(j) :
    /\ \A v \in Live(j) : v = w
    /\ OnItsRow(j, w)
    /\ At(w, "written") => Stored(j, worker[w].token)
    /\ worker[w].step \in {"rendered", "verified"} => Stored(j, worker[w].result)

\* The published result is where it was, or went with a commit's lost answer.
Kept(j) == Stored(j, published[j]) \/ (row[j].unsure /\ store[j].result = 0)

\* What a job was completed with is in its directory, in its provenance and in
\* the hands of its readers; before, there is none of it.
OneResult(j) ==
  IF row[j].status = "completed"
  THEN /\ published[j] # 0 /\ Kept(j)
       /\ j \in Exports => prov[j] = published[j]
       /\ served[j] \subseteq {published[j]}
  ELSE published[j] = 0 /\ prov[j] = 0 /\ served[j] = {}

\* A job that is not enqueued yet.
Untouched(j) ==
  /\ Live(j) = {} /\ published[j] = 0 /\ prov[j] = 0 /\ served[j] = {} /\ j \notin doomed
  /\ ~store[j].aged /\ (request[j] = "none" => ~store[j].dir)

\* The invariant of one job, while no worker outlasts its lease on it.
Settled(j) ==
  /\ request[j] \in {"none", "staged"} => Untouched(j)
  /\ External /\ j \in doomed => ~Exists(j)
  /\ Exists(j) /\ ~row[j].late => HeldByOne(j) /\ OneResult(j)

AllSettled == \A j \in Jobs : Settled(j)

\* Nothing happened that the invariant of job j is about.
Undisturbed(j) ==
  /\ row'[j] = row[j] /\ store'[j] = store[j] /\ request'[j] = request[j]
  /\ prov'[j] = prov[j] /\ published'[j] = published[j] /\ served'[j] = served[j]
  /\ j \in doomed' <=> j \in doomed
  /\ \A w \in Workers : worker'[w] = worker[w] \/ (w \notin Live(j) /\ w \notin Live(j)')

\* No job is touched before it is staged.
LEMMA SettledStart == Init => AllSettled
BY DEF Init, AllSettled, Settled, Untouched, Live, Exists, NoRow, Idle

-----------------------------------------------------------------------------
(***************************************************************************)
(* Framing.                                                                *)
(***************************************************************************)

\* A job that nothing happens to stays settled.
LEMMA UndisturbedStays ==
  ASSUME kind' = kind, NEW j \in Jobs, Settled(j), Undisturbed(j)
  PROVE  Settled(j)'
<1>1. Live(j)' = Live(j) /\ \A w \in Live(j) : worker'[w] = worker[w]
  BY DEF Undisturbed, Live
<1>2. \A r : Stored(j, r)' <=> Stored(j, r)
  BY DEF Undisturbed, Stored
<1>3. (j \in Exports)' <=> j \in Exports
  BY DEF Exports
<1>4. Exists(j)' <=> Exists(j)
  BY DEF Undisturbed, Exists
<1>5. request'[j] \in {"none", "staged"} => Untouched(j)'
  BY <1>1 DEF Settled, Undisturbed, Untouched
<1>6. ASSUME HeldByOne(j)  PROVE HeldByOne(j)'
  <2>1. \A w \in Live(j) : Stored(j, worker[w].token)' <=> Stored(j, worker[w].token)
    BY <1>1, <1>2 DEF Undisturbed, Stored
  <2>2. \A w \in Live(j) : Stored(j, worker[w].result)' <=> Stored(j, worker[w].result)
    BY <1>1, <1>2 DEF Undisturbed, Stored
  <2>3. \A w \in Live(j) : OnItsRow(j, w)' <=> OnItsRow(j, w)
    BY <1>1 DEF OnItsRow, Undisturbed
  <2>4. QED  BY <1>1, <1>6, <2>1, <2>2, <2>3 DEF HeldByOne, Undisturbed, At
<1>7. ASSUME OneResult(j)  PROVE OneResult(j)'
  <2>1. Kept(j)' <=> Kept(j)
    BY DEF Undisturbed, Stored, Kept
  <2>2. QED  BY <1>3, <1>7, <2>1 DEF OneResult, Undisturbed
<1>8. QED  BY <1>4, <1>5, <1>6, <1>7 DEF Settled, Undisturbed

\* It is enough to look at the job that a step is about.
LEMMA OneJobSettles ==
  ASSUME AllSettled, kind' = kind, NEW i \in Jobs, Settled(i)',
         \A j \in Jobs \ {i} : Undisturbed(j)
  PROVE  AllSettled'
BY UndisturbedStays DEF AllSettled

\* The workers of the other jobs, when one worker moves on, rests or claims.
LEMMA OtherWorkersStay ==
  ASSUME WorkersOK, NEW w \in Workers, NEW m, NEW i \in Jobs,
         worker' = [worker EXCEPT ![w] = m],
         worker[w] = Idle \/ worker[w].job = i, m = Idle \/ m.job = i
  PROVE  /\ worker'[w] = m /\ \A v \in Workers \ {w} : worker'[v] = worker[v]
         /\ \A j \in Jobs \ {i}, v \in Workers :
              worker'[v] = worker[v] \/ (v \notin Live(j) /\ v \notin Live(j)')
BY DEF WorkersOK, Live

-----------------------------------------------------------------------------
(***************************************************************************)
(* The steps of a worker.                                                  *)
(***************************************************************************)

\* A worker that moves on keeps its job settled, whatever it does to the
\* directory, if the directory then holds what the next step needs.
LEMMA MoverKeeps ==
  ASSUME Orderly, AllSettled, kind' = kind,
         NEW w \in Workers, worker[w] \in WorkerRow, NEW i \in Jobs, worker[w].job = i,
         NEW m \in WorkerRow,
         worker' = [worker EXCEPT ![w] = m],
         m.job = i, m.token = worker[w].token,
         UNCHANGED <<row, prov, published, served, request, doomed>>,
         \A j \in Jobs \ {i} : store'[j] = store[j],
         worker[w].step \in {"failing", "failed"} =>
           m.step \in {"failing", "failed"} /\ store'[i].result \in {0, store[i].result},
         m.step = "written" => store'[i].result = m.token,
         m.step \in {"rendered", "verified"} =>
           \/ store'[i].result = m.result
           \/ /\ worker[w].step = "rendered" /\ m.result = worker[w].result
              /\ store'[i] = store[i]
  PROVE  AllSettled'
<1>1. WorkersOK /\ worker[w] # Idle /\ m # Idle
  BY DEF WorkerRow, Idle, Orderly, DocTypeOK, Steps
<1>2. /\ worker'[w] = m /\ \A v \in Workers \ {w} : worker'[v] = worker[v]
      /\ \A j \in Jobs \ {i}, v \in Workers :
           worker'[v] = worker[v] \/ (v \notin Live(j) /\ v \notin Live(j)')
  BY <1>1, OtherWorkersStay
<1>3. \A j \in Jobs \ {i} : Undisturbed(j)
  BY <1>2 DEF Undisturbed
<1>4. w \in Live(i) /\ Live(i)' = Live(i)
  BY <1>1, <1>2 DEF Live
<1>5. Settled(i)
  BY <1>1 DEF AllSettled
<1>6. Exists(i)' <=> Exists(i)
  BY DEF Exists
<1>7. request[i] \notin {"none", "staged"}
  BY <1>4, <1>5 DEF Settled, Untouched
<1>8. ASSUME Exists(i), ~row[i].late
      PROVE  HeldByOne(i)' /\ OneResult(i)'
  <2>1. HeldByOne(i) /\ OneResult(i)
    BY <1>5, <1>8 DEF Settled
  <2>2. Live(i) = {w} /\ OnItsRow(i, w)
    BY <1>4, <2>1 DEF HeldByOne
  <2>3. OneResult(i)'
    <3>1. CASE row[i].status = "processing"
      BY <2>1, <3>1 DEF OneResult
    <3>2. CASE /\ row[i].status = "completed" /\ row[i].unsure
               /\ worker[w].step \in {"failing", "failed"}
      <4>1. Kept(i)'
        BY <2>1, <3>2 DEF OneResult, Kept, Stored
      <4>2. QED  BY <2>1, <3>2, <4>1 DEF OneResult, Exports
    <3>3. QED  BY <2>2, <3>1, <3>2 DEF OnItsRow
  <2>4. m.step = "written" => Stored(i, m.token)'
    BY DEF Stored
  <2>5. m.step \in {"rendered", "verified"} => Stored(i, m.result)'
    <3>1. worker[w].step = "rendered" => Stored(i, worker[w].result)
      BY <1>4, <2>1 DEF HeldByOne
    <3>2. QED  BY <3>1 DEF Stored
  <2>6. \A v \in Live(i)' : v = w /\ worker'[v] = m
    BY <1>2, <1>4, <2>2
  <2>7. row'[i] = row[i]
    OBVIOUS
  <2>8. HeldByOne(i)'
    <3> SUFFICES ASSUME NEW v \in Live(i)'
                 PROVE  /\ \A u \in Live(i)' : u = v
                        /\ OnItsRow(i, v)'
                        /\ At(v, "written")' => Stored(i, worker[v].token)'
                        /\ worker'[v].step \in {"rendered", "verified"}
                             => Stored(i, worker[v].result)'
      BY DEF HeldByOne
    <3>1. v = w /\ worker'[v] = m
      BY <2>6
    <3>2. Stored(i, worker[v].token)' <=> Stored(i, m.token)'
      BY <3>1 DEF Stored
    <3>3. Stored(i, worker[v].result)' <=> Stored(i, m.result)'
      BY <3>1 DEF Stored
    <3>4. OnItsRow(i, v)'
      BY <2>2, <2>7, <3>1 DEF OnItsRow
    <3>5. QED  BY <2>4, <2>5, <2>6, <3>1, <3>2, <3>3, <3>4 DEF At
  <2>9. QED  BY <2>3, <2>8
<1>9. Settled(i)'
  BY <1>5, <1>6, <1>7, <1>8 DEF Settled
<1>10. QED  BY <1>1, <1>3, <1>9, OneJobSettles

\* A worker that goes away leaves the job to its lease.
LEMMA LeaverKeeps ==
  ASSUME Orderly, AllSettled, kind' = kind,
         NEW w \in Workers, worker[w] \in WorkerRow, NEW i \in Jobs, worker[w].job = i,
         worker' = [worker EXCEPT ![w] = Idle],
         UNCHANGED <<row, prov, published, served, request, doomed, store>>
  PROVE  AllSettled'
<1>1. WorkersOK
  BY DEF WorkerRow, Orderly, DocTypeOK
<1>2. /\ worker'[w] = Idle /\ \A v \in Workers \ {w} : worker'[v] = worker[v]
      /\ \A j \in Jobs \ {i}, v \in Workers :
           worker'[v] = worker[v] \/ (v \notin Live(j) /\ v \notin Live(j)')
  BY <1>1, OtherWorkersStay
<1>3. \A j \in Jobs \ {i} : Undisturbed(j)
  BY <1>2 DEF Undisturbed
<1>4. Live(i)' = Live(i) \ {w}
  BY <1>1, <1>2 DEF Live
<1>5. Settled(i)
  BY <1>1 DEF AllSettled
<1>6. w \in Live(i)
  BY DEF Live, WorkerRow, Idle, Steps
<1>7. request[i] \notin {"none", "staged"}
  BY <1>5, <1>6 DEF Settled, Untouched
<1>8. ASSUME Exists(i), ~row[i].late
      PROVE  HeldByOne(i)' /\ OneResult(i)'
  <2>1. HeldByOne(i) /\ OneResult(i)
    BY <1>5, <1>8 DEF Settled
  <2>2. Live(i)' = {}
    BY <1>4, <1>6, <2>1 DEF HeldByOne
  <2>3. OneResult(i)'
    BY <2>1 DEF OneResult, Kept, Stored, Exports
  <2>4. QED  BY <2>2, <2>3 DEF HeldByOne
<1>9. Settled(i)'
  BY <1>5, <1>7, <1>8 DEF Settled, Exists
<1>10. QED  BY <1>1, <1>3, <1>9, OneJobSettles

\* The steps that prepare, render, read and check a document, and that give up.
LEMMA ProgressKeeps ==
  ASSUME Orderly, AllSettled, kind' = kind, NEW w \in Workers,
         \/ Prepare(w) \/ ClearResult(w) \/ Render(w) \/ StepFails(w) \/ ReadResult(w)
         \/ Reverify(w) \/ UnlinkFailed(w)
  PROVE  AllSettled'
<1>1. worker[w] \in WorkerRow
  BY BusyWorker DEF Orderly, DocTypeOK, Prepare, ClearResult, Render, StepFails, ReadResult,
                    Reverify, UnlinkFailed, At, Steps
<1>2. PICK i \in Jobs : worker[w].job = i
  BY <1>1 DEF WorkerRow
<1>3. UNCHANGED <<row, prov, published, served, request, doomed>>
  BY DEF Prepare, ClearResult, Render, StepFails, ReadResult, Reverify, UnlinkFailed
<1>4. \A j \in Jobs \ {i} : store'[j] = store[j]
  BY <1>2 DEF Prepare, ClearResult, Render, StepFails, ReadResult, Reverify, UnlinkFailed,
              WriteDir, Orderly, DocTypeOK, DirectoriesOK
<1>c. worker[w].step \in {"failing", "failed"} =>
        UnlinkFailed(w) /\ store'[i].result \in {0, store[i].result}
  <2>1. UnlinkFailed(w) => store'[i].result \in {0, store[i].result}
    BY <1>2 DEF UnlinkFailed, WriteDir, Orderly, DocTypeOK, DirectoriesOK
  <2>2. worker[w].step \in {"failing", "failed"} => UnlinkFailed(w)
    BY DEF Prepare, ClearResult, Render, StepFails, ReadResult, Reverify, At
  <2>3. QED  BY <2>1, <2>2
<1>d. ASSUME UnlinkFailed(w)  PROVE worker'[w].step = "failed"
  BY <1>1, <1>d DEF UnlinkFailed, Goto, Orderly, DocTypeOK, WorkersOK, WorkerRow
<1>5. ASSUME NEW step \in {"prepared", "rendering", "failed"}, Goto(w, step)
      PROVE  AllSettled'
  <2> DEFINE m == [worker[w] EXCEPT !.step = step]
  <2>1. m \in WorkerRow /\ m.job = i /\ m.token = worker[w].token /\ m.step = step
    BY <1>1, <1>2 DEF WorkerRow, Steps
  <2>2. worker' = [worker EXCEPT ![w] = m]
    BY <1>5 DEF Goto
  <2> HIDE DEF m
  <2>3. worker'[w] = m
    BY <2>2 DEF Orderly, DocTypeOK, WorkersOK
  <2>4. worker[w].step \in {"failing", "failed"} =>
          m.step \in {"failing", "failed"} /\ store'[i].result \in {0, store[i].result}
    BY <1>c, <1>d, <2>3
  <2>5. QED  BY <1>1, <1>2, <1>3, <1>4, <2>1, <2>2, <2>4, MoverKeeps
<1>6. ASSUME NEW fatal \in BOOLEAN, Abort(w, fatal)
      PROVE  AllSettled'
  <2>1. PICK m \in WorkerRow : /\ worker' = [worker EXCEPT ![w] = m]
                               /\ m.step = "failing" /\ m.job = worker[w].job
                               /\ m.token = worker[w].token
    BY <1>1, <1>6, GivesUp
  <2>2. worker[w].step \in {"failing", "failed"} => store'[i].result \in {0, store[i].result}
    BY <1>c
  <2>3. QED  BY <1>1, <1>2, <1>3, <1>4, <2>1, <2>2, MoverKeeps
<1>7. CASE Render(w) /\ Goto(w, "written")
  <2> DEFINE m == [worker[w] EXCEPT !.step = "written"]
  <2>1. m \in WorkerRow /\ m.job = i /\ m.token = worker[w].token /\ m.step = "written"
    BY <1>1, <1>2 DEF WorkerRow, Steps
  <2>2. worker' = [worker EXCEPT ![w] = m]
    BY <1>7 DEF Goto
  <2>3. store'[i].result = worker[w].token
    <3>1. worker'[w].step = "written"
      BY <2>1, <2>2 DEF Orderly, DocTypeOK, WorkersOK
    <3>2. ASSUME Abort(w, FALSE)  PROVE FALSE
      <4>1. worker'[w].step = "failing"
        BY <1>1, <3>2, GivesUp DEF Orderly, DocTypeOK, WorkersOK
      <4>2. QED  BY <3>1, <4>1
    <3>3. WriteDir(i, worker[w].token)
      BY <1>2, <1>7, <3>2 DEF Render
    <3>4. QED  BY <3>3 DEF WriteDir, Orderly, DocTypeOK, DirectoriesOK
  <2> HIDE DEF m
  <2>4. /\ store'[i].result = m.token /\ m.step \notin {"rendered", "verified"}
        /\ worker[w].step \notin {"failing", "failed"}
    BY <1>7, <2>1, <2>3 DEF Render, At
  <2>5. QED  BY <1>1, <1>2, <1>3, <1>4, <2>1, <2>2, <2>4, MoverKeeps
<1>8. CASE ReadResult(w) /\ store[i].result # 0
  <2> DEFINE m == [worker[w] EXCEPT !.step = "rendered", !.result = store[i].result]
  <2>1. store[i].result \in 0..MaxClaims /\ store' = store
    BY <1>8 DEF ReadResult, Orderly, DocTypeOK, DirectoriesOK
  <2>2. m \in WorkerRow /\ m.job = i /\ m.token = worker[w].token /\ m.step = "rendered"
        /\ m.result = store[i].result
    BY <1>1, <1>2, <2>1 DEF WorkerRow, Steps
  <2>3. worker' = [worker EXCEPT ![w] = m]
    BY <1>2, <1>8 DEF ReadResult
  <2> HIDE DEF m
  <2>4. worker[w].step \notin {"failing", "failed"}
    BY <1>8 DEF ReadResult, At
  <2>5. QED  BY <1>1, <1>2, <1>3, <1>4, <2>1, <2>2, <2>3, <2>4, MoverKeeps
<1>9. CASE Reverify(w) /\ Goto(w, "verified")
  <2> DEFINE m == [worker[w] EXCEPT !.step = "verified"]
  <2>1. m \in WorkerRow /\ m.job = i /\ m.token = worker[w].token /\ m.step = "verified"
        /\ m.result = worker[w].result
    BY <1>1, <1>2 DEF WorkerRow, Steps
  <2>2. worker' = [worker EXCEPT ![w] = m]
    BY <1>9 DEF Goto
  <2>3. worker[w].step = "rendered" /\ store'[i] = store[i]
    BY <1>9 DEF Reverify, At
  <2> HIDE DEF m
  <2>4. /\ m.step = "written" => store'[i].result = m.token
        /\ \/ store'[i].result = m.result
           \/ /\ worker[w].step = "rendered" /\ m.result = worker[w].result
              /\ store'[i] = store[i]
    BY <2>1, <2>3
  <2>5. QED  BY <1>1, <1>2, <1>3, <1>4, <2>1, <2>2, <2>3, <2>4, MoverKeeps
<1>10. QED
  BY <1>2, <1>5, <1>6, <1>7, <1>8, <1>9
  DEF Prepare, ClearResult, Render, StepFails, ReadResult, Reverify, UnlinkFailed

\* A worker that claims a job is alone on it, unless a lease ran out.
LEMMA ClaimKeeps ==
  ASSUME Orderly, AllSettled, kind' = kind, NEW w \in Workers, NEW i \in Jobs, Claim(w, i)
  PROVE  AllSettled'
<1> DEFINE m == [step |-> "claimed", job |-> i, token |-> claims[i] + 1,
                 attempts |-> row[i].attempts + 1, result |-> 0, fatal |-> FALSE]
<1>1. worker' = [worker EXCEPT ![w] = m] /\ worker[w] = Idle /\ WorkersOK
  BY DEF Claim, Orderly, DocTypeOK
<1>2. m # Idle /\ m.job = i /\ m.step = "claimed" /\ m.token = claims[i] + 1
  BY DEF Idle
<1> HIDE DEF m
<1>3. /\ worker'[w] = m /\ \A v \in Workers \ {w} : worker'[v] = worker[v]
      /\ \A j \in Jobs \ {i}, v \in Workers :
           worker'[v] = worker[v] \/ (v \notin Live(j) /\ v \notin Live(j)')
  BY <1>1, <1>2, OtherWorkersStay
<1>4. /\ Exists(i) /\ row[i] \in Row /\ row'[i] \in Row
      /\ row'[i].status = "processing" /\ row'[i].holder = claims[i] + 1
      /\ row'[i].age = 0 /\ row'[i].late = row[i].late
      /\ \A j \in Jobs \ {i} : row'[j] = row[j]
  BY DEF Claim, Is, Exists, Orderly, DocTypeOK, RowsOK, Row, NoRow
<1>5. UNCHANGED <<store, prov, request, doomed, published, served>>
  BY DEF Claim
<1>6. \A j \in Jobs \ {i} : Undisturbed(j)
  BY <1>3, <1>4, <1>5 DEF Undisturbed
<1>7. Settled(i) /\ request[i] \notin {"none", "staged"}
  BY <1>4 DEF AllSettled, Orderly, RowsWereEnqueued
<1>8. ASSUME ~row[i].late
      PROVE  HeldByOne(i)' /\ OneResult(i)'
  <2>1. HeldByOne(i) /\ OneResult(i)
    BY <1>4, <1>7, <1>8 DEF Settled
  <2>2. Live(i) = {}
    BY <2>1, <1>4 DEF HeldByOne, OnItsRow, Claim, Is, Row
  <2>3. Live(i)' = {w}
    BY <1>1, <1>2, <1>3, <2>2 DEF Live
  <2>4. HeldByOne(i)'
    BY <1>2, <1>3, <1>4, <2>3 DEF HeldByOne, OnItsRow, At
  <2>5. OneResult(i)'
    BY <1>4, <1>5, <2>1 DEF OneResult, Claim, Is
  <2>6. QED  BY <2>4, <2>5
<1>9. Settled(i)'
  BY <1>4, <1>5, <1>7, <1>8 DEF Settled
<1>10. QED  BY <1>6, <1>9, OneJobSettles

\* The one worker that holds a job completes it with what the directory holds.
LEMMA FinishKeeps ==
  ASSUME Orderly, AllSettled, kind' = kind, NEW w \in Workers, Finish(w)
  PROVE  AllSettled'
<1>1. worker[w] \in WorkerRow /\ worker[w].step = "verified" /\ worker[w].result # 0
  BY BusyWorker DEF Orderly, DocTypeOK, PublishersHaveResult, Finish, At
<1>2. PICK i \in Jobs : worker[w].job = i
  BY <1>1 DEF WorkerRow
<1>3. UNCHANGED <<store, request, doomed, served>>
  BY DEF Finish
<1>a. PICK given \in WorkerRow : /\ Abort(w, FALSE) => worker' = [worker EXCEPT ![w] = given]
                                /\ given.step = "failing" /\ given.job = i
                                /\ given.token = worker[w].token
  <2>1. CASE Abort(w, FALSE)
    BY <1>1, <1>2, <2>1, GivesUp
  <2>2. CASE ~Abort(w, FALSE)
    <3>1. [worker[w] EXCEPT !.step = "failing"] \in WorkerRow
      BY <1>1 DEF WorkerRow, Steps
    <3>2. QED  BY <1>1, <1>2, <2>2, <3>1 DEF WorkerRow
  <2>3. QED  BY <2>1, <2>2
<1>4. CASE Abort(w, FALSE) /\ UNCHANGED <<row, prov, published>>
  BY <1>1, <1>2, <1>3, <1>4, <1>a, MoverKeeps
<1>5. ASSUME NEW answered \in BOOLEAN,
             prov' = [prov EXCEPT ![i] = IF i \in Exports THEN worker[w].result ELSE @],
             IF Holds(w) THEN Complete(i, worker[w].result, ~answered)
                         ELSE UNCHANGED <<row, published>>,
             IF answered THEN worker' = [worker EXCEPT ![w] = Idle] ELSE Abort(w, FALSE)
      PROVE  AllSettled'
  <2> DEFINE r == worker[w].result
             m == IF answered THEN Idle ELSE given
  <2>1. WorkersOK /\ w \in Live(i) /\ Settled(i)
    BY <1>1, <1>2 DEF Live, WorkerRow, Idle, Orderly, DocTypeOK, AllSettled
  <2>a. worker' = [worker EXCEPT ![w] = m] /\ (m = Idle \/ m.job = i)
    BY <1>5, <1>a
  <2>b. m = Idle \/ (~answered /\ m.step = "failing")
    BY <1>a
  <2> HIDE DEF m
  <2>2. /\ worker'[w] = m /\ \A v \in Workers \ {w} : worker'[v] = worker[v]
        /\ \A j \in Jobs \ {i}, v \in Workers :
             worker'[v] = worker[v] \/ (v \notin Live(j) /\ v \notin Live(j)')
    BY <1>2, <2>1, <2>a, OtherWorkersStay
  <2>3. \A j \in Jobs \ {i} : row'[j] = row[j] /\ published'[j] = published[j] /\ prov'[j] = prov[j]
    BY <1>5 DEF Complete, Orderly, DocTypeOK, RowsOK, ResultsOK
  <2>4. \A j \in Jobs \ {i} : Undisturbed(j)
    BY <1>3, <2>2, <2>3 DEF Undisturbed
  <2>5. /\ request[i] \notin {"none", "staged"} /\ (Exists(i)' => Exists(i))
        /\ (External /\ i \in doomed => ~Exists(i))
    BY <1>2, <1>5, <2>1 DEF Settled, Untouched, Complete, Exists, Holds, Is
  <2>6. ASSUME Exists(i), ~row'[i].late
        PROVE  HeldByOne(i)' /\ OneResult(i)'
    <3>1. row[i] \in Row /\ row'[i].late = row[i].late
      BY <1>5, <2>6 DEF Complete, Orderly, DocTypeOK, RowsOK, Exists, Row
    <3>2. HeldByOne(i) /\ OneResult(i)
      BY <2>1, <2>6, <3>1 DEF Settled
    <3>3. Live(i) = {w} /\ row[i].status = "processing" /\ Holds(w) /\ Stored(i, r)
      BY <1>1, <1>2, <2>1, <2>6, <3>2 DEF HeldByOne, OnItsRow, Holds, Is
    <3>4. row'[i].status = "completed" /\ row'[i].unsure = ~answered /\ published'[i] = r
      BY <1>5, <3>1, <3>3 DEF Complete, Orderly, DocTypeOK, RowsOK, ResultsOK, Row
    <3>5. i \in Exports' => prov'[i] = r
      BY <1>5 DEF Exports, Orderly, DocTypeOK, ResultsOK
    <3>6. served'[i] = {}
      BY <1>3, <3>2, <3>3 DEF OneResult
    <3>7. Kept(i)'
      BY <1>3, <3>3, <3>4 DEF Kept, Stored
    <3>8. OneResult(i)'
      BY <1>1, <3>4, <3>5, <3>6, <3>7 DEF OneResult
    <3>9. Live(i)' \subseteq {w} /\ (w \in Live(i)' => m # Idle)
      BY <2>2, <3>3 DEF Live
    <3>10. HeldByOne(i)'
      BY <2>2, <2>b, <3>4, <3>9 DEF HeldByOne, OnItsRow, At
    <3>11. QED  BY <3>8, <3>10
  <2>7. Settled(i)'
    BY <1>3, <2>5, <2>6 DEF Settled
  <2>8. QED  BY <2>4, <2>7, OneJobSettles
<1>6. QED  BY <1>2, <1>4, <1>5 DEF Finish

\* The one worker that holds a job gives it up.
LEMMA FinishErrorKeeps ==
  ASSUME Orderly, AllSettled, kind' = kind, NEW w \in Workers, FinishError(w)
  PROVE  AllSettled'
<1>1. worker[w] \in WorkerRow
  BY BusyWorker DEF Orderly, DocTypeOK, FinishError, At
<1>2. PICK i \in Jobs : worker[w].job = i
  BY <1>1 DEF WorkerRow
<1>3. /\ UNCHANGED <<store, prov, request, doomed, published, served>>
      /\ worker' = [worker EXCEPT ![w] = Idle]
  BY DEF FinishError
<1>4. WorkersOK /\ w \in Live(i) /\ Settled(i)
  BY <1>1, <1>2 DEF Live, WorkerRow, Idle, Steps, Orderly, DocTypeOK, AllSettled
<1>5. CASE ~Holds(w)
  <2>1. row' = row
    BY <1>5 DEF FinishError
  <2>2. QED  BY <1>1, <1>2, <1>3, <2>1, LeaverKeeps
<1>6. CASE Holds(w)
  <2>1. /\ worker'[w] = Idle /\ \A v \in Workers \ {w} : worker'[v] = worker[v]
        /\ \A j \in Jobs \ {i}, v \in Workers :
             worker'[v] = worker[v] \/ (v \notin Live(j) /\ v \notin Live(j)')
    BY <1>2, <1>3, <1>4, OtherWorkersStay
  <2>2. PICK s \in {"retry", "failed"} :
          row' = [row EXCEPT ![i].status = s, ![i].holder = 0, ![i].age = 0]
    BY <1>2, <1>6 DEF FinishError
  <2>3. /\ Exists(i) /\ row[i] \in Row /\ row[i].status = "processing"
        /\ row'[i].status = s /\ row'[i].late = row[i].late
        /\ \A j \in Jobs \ {i} : row'[j] = row[j]
    BY <1>2, <1>6, <2>2 DEF Holds, Is, Exists, Orderly, DocTypeOK, RowsOK, Row
  <2>4. \A j \in Jobs \ {i} : Undisturbed(j)
    BY <1>3, <2>1, <2>3 DEF Undisturbed
  <2>5. request[i] \notin {"none", "staged"} /\ ~(External /\ i \in doomed)
    BY <1>4, <2>3 DEF Settled, Untouched
  <2>6. ASSUME ~row[i].late
        PROVE  HeldByOne(i)' /\ OneResult(i)'
    <3>1. HeldByOne(i) /\ OneResult(i)
      BY <1>4, <2>3, <2>6 DEF Settled
    <3>2. Live(i) = {w}
      BY <1>4, <3>1 DEF HeldByOne
    <3>3. Live(i)' = {}
      BY <2>1, <3>2 DEF Live
    <3>4. QED  BY <1>3, <2>3, <3>1, <3>3 DEF HeldByOne, OneResult
  <2>7. Settled(i)'
    BY <1>3, <2>3, <2>5, <2>6 DEF Settled
  <2>8. QED  BY <2>4, <2>7, OneJobSettles
<1>7. QED  BY <1>5, <1>6

\* The steps of the workers.
LEMMA WorkersKeep ==
  ASSUME Orderly, AllSettled, kind' = kind, NEW w \in Workers,
         WorkerStep(w) \/ WorkerDies(w) \/ \E j \in Jobs : Claim(w, j)
  PROVE  AllSettled'
<1>1. CASE WorkerDies(w)
  <2>1. worker[w] \in WorkerRow
    BY <1>1 DEF WorkerDies, Orderly, DocTypeOK, WorkersOK
  <2>2. worker[w].job \in Jobs
    BY <2>1 DEF WorkerRow
  <2>3. QED  BY <1>1, <2>1, <2>2, LeaverKeeps DEF WorkerDies
<1>2. QED
  BY <1>1, ProgressKeeps, ClaimKeeps, FinishKeeps, FinishErrorKeeps DEF WorkerStep

-----------------------------------------------------------------------------
(***************************************************************************)
(* The steps of the web, of time and of the sweeps.                        *)
(***************************************************************************)

\* A row that is written while its workers, results and directory stay: a queued
\* or failed job stays one, and a lease grows old.
LEMMA RowWrittenKeeps ==
  ASSUME Orderly, AllSettled, kind' = kind, NEW i \in Jobs, Exists(i),
         \A j \in Jobs \ {i} : row'[j] = row[j],
         UNCHANGED <<store, prov, request, doomed, published, served, worker>>,
         row'[i] # NoRow, ~row'[i].late => ~row[i].late,
         row'[i].status = "completed" <=> row[i].status = "completed",
         row'[i].unsure = row[i].unsure,
         \/ row[i].status \notin {"processing", "completed"}
         \/ ~row'[i].late => Live(i) = {}
         \/ row'[i].status = row[i].status /\ row'[i].holder = row[i].holder
              /\ row'[i].age = row[i].age
  PROVE  AllSettled'
<1>1. \A j \in Jobs \ {i} : Undisturbed(j)
  BY DEF Undisturbed
<1>2. Settled(i) /\ request[i] \notin {"none", "staged"} /\ ~(External /\ i \in doomed)
  BY DEF AllSettled, Settled, Orderly, RowsWereEnqueued
<1>3. Live(i)' = Live(i)
  BY DEF Live
<1>4. ASSUME ~row'[i].late
      PROVE  HeldByOne(i)' /\ OneResult(i)'
  <2>1. HeldByOne(i) /\ OneResult(i)
    BY <1>2, <1>4 DEF Settled
  <2>2. OneResult(i)'
    BY <2>1 DEF OneResult, Kept, Stored, Exports
  <2>3. CASE Live(i) = {}
    BY <1>3, <2>2, <2>3 DEF HeldByOne
  <2>4. CASE Live(i) # {}
    <3>1. row[i].status \in {"processing", "completed"}
      BY <2>1, <2>4 DEF HeldByOne, OnItsRow
    <3>2. /\ row'[i].status = row[i].status /\ row'[i].holder = row[i].holder
          /\ row'[i].age = row[i].age
      BY <1>4, <2>4, <3>1
    <3>3. HeldByOne(i)'
      BY <1>3, <2>1, <3>2 DEF HeldByOne, OnItsRow, Stored, At
    <3>4. QED  BY <2>2, <3>3
  <2>5. QED  BY <2>3, <2>4
<1>5. Settled(i)'
  BY <1>2, <1>4 DEF Settled
<1>6. QED  BY <1>1, <1>5, OneJobSettles

\* The queue's own writes to rows.
LEMMA RowStepsKeep ==
  ASSUME Orderly, AllSettled, kind' = kind, NEW i \in Jobs,
         Cancel(i) \/ Retry(i) \/ PassTime(i) \/ Expire(i)
  PROVE  AllSettled'
<1>1. UNCHANGED <<store, prov, request, doomed, published, served, worker>>
  BY DEF Cancel, Retry, PassTime, Expire
<1>2. Exists(i) /\ row[i] \in Row /\ RowsOK
  BY DEF Cancel, Retry, PassTime, Expire, JobAccess, Is, Exists, Orderly, DocTypeOK, RowsOK
<1>3. CASE Cancel(i)
  <2>1. row' = [row EXCEPT ![i] = [row[i] EXCEPT !.status = "failed", !.cancelled = TRUE,
                                                 !.age = 0]]
    BY <1>3 DEF Cancel
  <2>2. /\ row'[i].status = "failed" /\ row'[i].late = row[i].late /\ row'[i] # NoRow
        /\ row'[i].unsure = row[i].unsure
        /\ row[i].status \in {"pending", "retry"} /\ \A j \in Jobs \ {i} : row'[j] = row[j]
    BY <1>2, <1>3, <2>1 DEF Cancel, Is, RowsOK, Row, NoRow
  <2>3. QED  BY <1>1, <1>2, <2>2, RowWrittenKeeps
<1>4. CASE Retry(i)
  <2>1. row' = [row EXCEPT ![i] = [row[i] EXCEPT !.status = "retry", !.attempts = 0, !.holder = 0,
                                                 !.age = 0, !.expired = FALSE]]
    BY <1>4 DEF Retry
  <2>2. /\ row'[i].status = "retry" /\ row'[i].late = row[i].late /\ row'[i] # NoRow
        /\ row'[i].unsure = row[i].unsure
        /\ row[i].status = "failed" /\ \A j \in Jobs \ {i} : row'[j] = row[j]
    BY <1>2, <1>4, <2>1 DEF Retry, Is, RowsOK, Row, NoRow
  <2>3. QED  BY <1>1, <1>2, <2>2, RowWrittenKeeps
<1>5. CASE PassTime(i)
  <2>1. row' = [row EXCEPT ![i] = [row[i] EXCEPT !.age = @ + 1,
                                                 !.late = @ \/ Live(i) # {}]]
    BY <1>5 DEF PassTime
  <2>2. /\ row'[i].status = row[i].status /\ row'[i] # NoRow
        /\ row'[i].late <=> (row[i].late \/ Live(i) # {})
        /\ \A j \in Jobs \ {i} : row'[j] = row[j]
    BY <1>2, <2>1 DEF RowsOK, Row, NoRow
  <2>3. row'[i].unsure = row[i].unsure
    BY <1>2, <2>1 DEF RowsOK, Row
  <2>4. row[i].status # "completed"
    BY <1>5 DEF PassTime, Is, Active
  <2>5. QED  BY <1>1, <1>2, <2>2, <2>3, <2>4, RowWrittenKeeps
<1>6. CASE Expire(i)
  <2>1. row' = [row EXCEPT ![i] = [row[i] EXCEPT !.expired = TRUE]]
    BY <1>6 DEF Expire
  <2>2. /\ row'[i].status = row[i].status /\ row'[i].late = row[i].late
        /\ row'[i].holder = row[i].holder /\ row'[i].age = row[i].age
        /\ row'[i].unsure = row[i].unsure /\ row'[i] # NoRow /\ \A j \in Jobs \ {i} : row'[j] = row[j]
    BY <1>2, <2>1 DEF RowsOK, Row, NoRow
  <2>3. QED  BY <1>1, <1>2, <2>2, RowWrittenKeeps
<1>7. QED  BY <1>3, <1>4, <1>5, <1>6

\* A job begins without a trace, and ends without a row.
LEMMA EndsKeep ==
  ASSUME Orderly, AllSettled, kind' = kind, NEW i \in Jobs,
         Enqueue(i) \/ Purge(i) \/ RetireConsumed(i)
  PROVE  AllSettled'
<1>1. UNCHANGED <<store, prov, published, served, worker>>
  BY DEF Enqueue, Purge, RetireConsumed
<1>2. \A j \in Jobs \ {i} : Undisturbed(j)
  BY <1>1 DEF Enqueue, Purge, RetireConsumed, Undisturbed, Orderly, DocTypeOK, RowsOK, RequestsOK
<1>3. Settled(i) /\ Live(i)' = Live(i)
  BY <1>1 DEF AllSettled, Live
<1>4. CASE Enqueue(i)
  <2>1. Untouched(i)
    BY <1>3, <1>4 DEF Settled, Enqueue
  <2>2. row'[i].status = "pending" /\ doomed' = doomed
    BY <1>4 DEF Enqueue, Orderly, DocTypeOK, RowsOK
  <2>3. request'[i] \notin {"none", "staged"}
    BY <1>4 DEF Enqueue, Orderly, DocTypeOK, RequestsOK
  <2>4. HeldByOne(i)' /\ OneResult(i)'
    BY <1>1, <1>3, <2>1, <2>2 DEF Untouched, HeldByOne, OneResult
  <2>5. Settled(i)'
    BY <2>1, <2>2, <2>3, <2>4 DEF Settled, Untouched
  <2>6. QED  BY <1>2, <2>5, OneJobSettles
<1>5. CASE Purge(i) \/ (RetireConsumed(i) /\ Is(i, {"completed"}))
  <2>1. row'[i] = NoRow /\ Exists(i)
    BY <1>5 DEF Purge, Sweepable, RetireConsumed, Is, Orderly, DocTypeOK, RowsOK
  <2>2. request'[i] \notin {"none", "staged"}
    BY <1>5, <2>1 DEF Purge, RetireConsumed, Orderly, RowsWereEnqueued, DocTypeOK, RequestsOK
  <2>3. Settled(i)'
    BY <2>1, <2>2 DEF Settled, Exists
  <2>4. QED  BY <1>2, <2>3, OneJobSettles
<1>6. CASE RetireConsumed(i) /\ ~Is(i, {"completed"})
  <2>1. row' = row /\ doomed' = doomed /\ request[i] = "retiring" /\ request'[i] = "done"
    BY <1>6 DEF RetireConsumed, Orderly, DocTypeOK, RequestsOK
  <2>2. Undisturbed(i) \/ Settled(i)'
    BY <1>1, <1>3, <2>1 DEF Settled, HeldByOne, OnItsRow, OneResult, Kept, Stored, At, Exports, Exists
  <2>3. QED  BY <1>2, <1>3, <2>2, OneJobSettles, UndisturbedStays
<1>7. QED  BY <1>4, <1>5, <1>6

\* Directories are removed under no row, except by the sweep of embedded mode,
\* and nobody sweeps the directory of a request that is still staging it.
LEMMA DirectoryStepsKeep ==
  ASSUME Orderly, AllSettled, kind' = kind, NEW i \in Jobs,
         Stage(i) \/ RejectEnqueue(i) \/ RemoveDir(i) \/ AgeDir(i) \/ StartupScan(i)
  PROVE  AllSettled'
<1>1. UNCHANGED <<row, prov, published, served, worker>>
  BY DEF Stage, RejectEnqueue, RemoveDir, AgeDir, StartupScan
<1>2. \A j \in Jobs \ {i} : Undisturbed(j)
  BY <1>1 DEF Stage, RejectEnqueue, RemoveDir, AgeDir, StartupScan, RemoveTree, Undisturbed,
              Orderly, DocTypeOK, DirectoriesOK, RequestsOK
<1>3. Settled(i) /\ Live(i)' = Live(i) /\ (Exists(i)' <=> Exists(i))
  BY <1>1 DEF AllSettled, Live, Exists
<1>4. Untouched(i) /\ request'[i] \in {"none", "staged"} => Untouched(i)'
  <2>1. CASE Stage(i)
    BY <1>1, <1>3, <2>1 DEF Untouched, Stage, Orderly, DocTypeOK, DirectoriesOK, RequestsOK
  <2>2. CASE RejectEnqueue(i) \/ RemoveDir(i)
    BY <1>1, <1>3, <2>2 DEF Untouched, RejectEnqueue, RemoveDir, RemoveTree, Orderly, DocTypeOK,
                            DirectoriesOK, RequestsOK
  <2>3. CASE AgeDir(i) \/ StartupScan(i)
    BY <1>1, <1>3, <2>3 DEF Untouched, AgeDir, StartupScan, Cleaned
  <2>4. QED  BY <2>1, <2>2, <2>3
<1>5. request'[i] \in {"none", "staged"} => request[i] \in {"none", "staged"}
  BY DEF Stage, RejectEnqueue, RemoveDir, AgeDir, StartupScan, Orderly, DocTypeOK, RequestsOK
<1>6. External /\ i \in doomed' => i \in doomed \/ ~Exists(i)
  BY DEF Stage, RejectEnqueue, RemoveDir, AgeDir, StartupScan, Cleaned
<1>7. ASSUME Exists(i)
      PROVE  /\ \A r : Stored(i, r) => Stored(i, r)'
             /\ store[i].result = 0 => store'[i].result = 0
  <2>1. request[i] \notin {"none", "staged"} /\ ~(External /\ i \in doomed)
    BY <1>3, <1>7 DEF Settled, Orderly, RowsWereEnqueued
  <2>2. RemoveDir(i) \/ AgeDir(i) \/ StartupScan(i)
    BY <2>1 DEF Stage, RejectEnqueue
  <2>3. CASE AgeDir(i) \/ StartupScan(i)
    BY <2>3 DEF AgeDir, StartupScan, Stored, Orderly, DocTypeOK, DirectoriesOK
  <2>4. CASE RemoveDir(i)
    BY <2>1, <2>4 DEF RemoveDir, RemoveTree, Stored, Orderly, DocTypeOK, DirectoriesOK
  <2>5. QED  BY <2>2, <2>3, <2>4
<1>8. ASSUME Exists(i), ~row[i].late
      PROVE  HeldByOne(i)' /\ OneResult(i)'
  <2>1. HeldByOne(i) /\ OneResult(i)
    BY <1>3, <1>8 DEF Settled
  <2>2. \A w \in Live(i) : /\ At(w, "written") => Stored(i, worker[w].token)'
                           /\ worker[w].step \in {"rendered", "verified"}
                                => Stored(i, worker[w].result)'
    BY <1>1, <1>7, <1>8, <2>1 DEF HeldByOne, Stored
  <2>3. HeldByOne(i)'
    BY <1>1, <1>3, <2>1, <2>2 DEF HeldByOne, OnItsRow, At
  <2>4. row[i].status = "completed" => Kept(i)'
    <3>1. Stored(i, published[i]) => Stored(i, published[i])'
      BY <1>1, <1>7, <1>8 DEF Stored
    <3>2. QED  BY <1>1, <1>7, <1>8, <2>1, <3>1 DEF OneResult, Kept
  <2>5. OneResult(i)'
    BY <1>1, <2>1, <2>4 DEF OneResult, Exports
  <2>6. QED  BY <2>3, <2>5
<1>9. Settled(i)'
  BY <1>1, <1>3, <1>4, <1>5, <1>6, <1>8 DEF Settled
<1>10. QED  BY <1>2, <1>9, OneJobSettles

\* A reader is handed the result of a completed job.
LEMMA ReadersKeep ==
  ASSUME Orderly, AllSettled, kind' = kind, NEW i \in Jobs,
         ConsumeResult(i) \/ ReadExport(i)
  PROVE  AllSettled'
<1>1. UNCHANGED <<row, store, prov, published, worker, doomed>>
  BY DEF ConsumeResult, ReadExport
<1>2. \A j \in Jobs \ {i} : Undisturbed(j)
  BY <1>1 DEF ConsumeResult, ReadExport, Undisturbed, Orderly, DocTypeOK, RequestsOK, ResultsOK
<1>3. Settled(i) /\ Live(i)' = Live(i)
  BY <1>1 DEF AllSettled, Live
<1>4. served' = served \/ (Is(i, {"completed"}) /\ store[i].result # 0
                           /\ served'[i] = served[i] \cup {store[i].result})
  BY DEF ConsumeResult, ReadExport, Orderly, DocTypeOK, ResultsOK
<1>5. request'[i] = request[i] \/ (request[i] \notin {"none", "staged"}
                                   /\ request'[i] \notin {"none", "staged"})
  BY DEF ConsumeResult, ReadExport, Orderly, DocTypeOK, RequestsOK
<1>6. ASSUME Exists(i), ~row[i].late
      PROVE  HeldByOne(i)' /\ OneResult(i)'
  <2>1. HeldByOne(i) /\ OneResult(i)
    BY <1>3, <1>6 DEF Settled
  <2>2. HeldByOne(i)'
    BY <1>1, <1>3, <2>1 DEF HeldByOne, OnItsRow, Stored, At
  <2>3. OneResult(i)'
    <3>1. CASE served' = served
      BY <1>1, <2>1, <3>1 DEF OneResult, Kept, Stored, Exports
    <3>2. CASE served' # served
      <4>1. row[i].status = "completed" /\ served'[i] = served[i] \cup {published[i]}
        BY <1>4, <2>1, <3>2 DEF OneResult, Kept, Stored, Is
      <4>2. QED  BY <1>1, <2>1, <4>1 DEF OneResult, Kept, Stored, Exports
    <3>3. QED  BY <3>1, <3>2
  <2>4. QED  BY <2>2, <2>3
<1>7. request[i] \in {"none", "staged"} => ~Is(i, {"completed"})
  BY DEF Orderly, RowsWereEnqueued, Is
<1>8. Settled(i)'
  BY <1>1, <1>3, <1>4, <1>5, <1>6, <1>7 DEF Settled, Untouched, Exists
<1>9. QED  BY <1>2, <1>8, OneJobSettles

\* The other steps of the web and of the world.
LEMMA BystandersKeep ==
  ASSUME Orderly, AllSettled, kind' = kind, NEW i \in Jobs,
         World(i) \/ WebDies(i) \/ ConsumeStops(i) \/ DownloadAccess(i)
  PROVE  AllSettled'
<1>1. UNCHANGED <<row, store, prov, published, served, worker>>
  BY DEF World, WebDies, ConsumeStops, DownloadAccess
<1>2. \A j \in Jobs \ {i} : Undisturbed(j)
  BY <1>1 DEF World, WebDies, ConsumeStops, DownloadAccess, Undisturbed, Orderly, DocTypeOK,
              RequestsOK
<1>3. Settled(i) /\ Live(i)' = Live(i)
  BY <1>1 DEF AllSettled, Live
<1>4. (i \in doomed' => i \in doomed)
      /\ (request'[i] \in {"none", "staged"} => request[i] \in {"none", "staged"})
      /\ (request'[i] = "none" => request[i] = "none")
  BY DEF World, WebDies, ConsumeStops, DownloadAccess, Orderly, DocTypeOK, RequestsOK
<1>5. Exists(i) /\ ~row[i].late => HeldByOne(i)' /\ OneResult(i)'
  BY <1>1, <1>3 DEF Settled, HeldByOne, OnItsRow, OneResult, Kept, Stored, At, Exports
<1>6. Settled(i)'
  BY <1>1, <1>3, <1>4, <1>5 DEF Settled, Untouched, Exists
<1>7. QED  BY <1>2, <1>6, OneJobSettles

\* Every step keeps every job settled.
LEMMA SettledStep ==
  ASSUME Orderly, AllSettled, [Next]_vars
  PROVE  AllSettled'
<1>1. CASE UNCHANGED vars
  BY <1>1, UndisturbedStays DEF vars, AllSettled, Undisturbed
<1>2. CASE Next
  BY <1>2, WorkersKeep, RowStepsKeep, EndsKeep, DirectoryStepsKeep, ReadersKeep, BystandersKeep
  DEF Next, Step
<1>3. QED  BY <1>1, <1>2

-----------------------------------------------------------------------------
(***************************************************************************)
(* The theorems.                                                           *)
(***************************************************************************)

\* However workers, requests, users and sweeps interleave, as long as no worker of
\* a job has outlasted its lease: one worker at most is on it, its rendering is
\* untouched in the directory until it is published, and nothing else is published,
\* recorded as provenance or served (_process_claimed_document_job,
\* _finish_durable_document_job).
THEOREM JobsAreSettled == Spec => []AllSettled
<1>1. Orderly /\ AllSettled /\ [Next]_vars => AllSettled'
  BY SettledStep
<1>2. QED  BY SettledStart, <1>1, QueueIsOrderly, PTL DEF Spec

\* Where documents are rendered by external workers, a job that the status route
\* calls completed has the result it was completed with in its directory, unless
\* the answer of the completing commit was lost: only then may the failure path
\* have unlinked it.  The provenance of an export names it in either case.
THEOREM CompletedKeepsResult == External => (Spec => []CompletedHasResult)
<1> SUFFICES ASSUME External  PROVE Spec => []CompletedHasResult
  OBVIOUS
<1>1. AllSettled => CompletedHasResult
  BY DEF AllSettled, Settled, OneResult, Kept, Stored, CompletedHasResult, Is, Exports
<1>2. QED  BY <1>1, JobsAreSettled, PTL

\* In both modes no two readers of a job are handed different documents.
THEOREM ReadersAgree == Spec => []ServedAsPublished
<1>1. AllSettled => ServedAsPublished
  BY DEF AllSettled, Settled, OneResult, ServedAsPublished
<1>2. QED  BY <1>1, JobsAreSettled, PTL

-----------------------------------------------------------------------------
(***************************************************************************)
(* What a submitter has been told.                                         *)
(***************************************************************************)

\* A job that is done is done with the same document, or gone; a cancelled job stays
\* cancelled until it is gone; and what is gone stays gone.
ToldIsFinal ==
  \A j \in Jobs :
    /\ StatusOf(j) = "done" =>
         \/ StatusOf(j)' = "gone"
         \/ StatusOf(j)' = "done" /\ DocumentOf(j)' = DocumentOf(j)
    /\ StatusOf(j) = "cancelled" => StatusOf(j)' \in {"cancelled", "gone"}
    /\ StatusOf(j) = "gone" => StatusOf(j)' = "gone"

\* The life cycle allows nothing else.
LEMMA LifecycleIsFinal ==
  ASSUME [Lifecycle!Next]_<<told, offered>>
  PROVE  ToldIsFinal
<1> SUFFICES ASSUME NEW j \in Jobs
             PROVE  /\ told[j] = "done" =>
                         told'[j] = "gone" \/ (told'[j] = "done" /\ offered'[j] = offered[j])
                    /\ told[j] = "cancelled" => told'[j] \in {"cancelled", "gone"}
                    /\ told[j] = "gone" => told'[j] = "gone"
  BY DEF ToldIsFinal, told, offered
<1>1. ASSUME NEW i \in Jobs, NEW from, NEW to, Lifecycle!Becomes(i, from, to)
      PROVE  /\ told[i] \in from
             /\ told'[j] = IF i = j THEN to ELSE told[j]
  BY <1>1 DEF Lifecycle!Becomes, told
<1>2. ASSUME NEW i \in Jobs,
             \/ Lifecycle!Submit(i) \/ Lifecycle!Refuse(i) \/ Lifecycle!Fail(i)
             \/ Lifecycle!Cancel(i) \/ Lifecycle!Retry(i)
      PROVE  /\ told[j] # told'[j] => told[j] \in {"none", "waiting", "failed"}
             /\ offered' = offered
  BY <1>1, <1>2 DEF Lifecycle!Submit, Lifecycle!Refuse, Lifecycle!Fail, Lifecycle!Cancel,
                    Lifecycle!Retry, offered
<1>3. ASSUME NEW i \in Jobs, NEW d, Lifecycle!Finish(i, d)
      PROVE  /\ told[j] # told'[j] => told[j] = "waiting"
             /\ told[j] = "done" => offered'[j] = offered[j]
  <2>1. /\ told[i] = "waiting" /\ told'[j] = IF i = j THEN "done" ELSE told[j]
        /\ offered' = [offered EXCEPT ![i] = d]
    BY <1>1, <1>3 DEF Lifecycle!Finish, offered
  <2>2. i # j => offered'[j] = offered[j]
    BY <2>1 DEF offered
  <2>3. QED  BY <2>1, <2>2
<1>4. ASSUME NEW i \in Jobs, Lifecycle!Drop(i)
      PROVE  /\ told[j] # told'[j] => told'[j] = "gone"
             /\ told'[j] # "gone" => offered'[j] = offered[j]
  BY <1>1, <1>4 DEF Lifecycle!Drop, offered
<1>5. QED  BY <1>2, <1>3, <1>4 DEF Lifecycle!Next

\* What a submitter has been told is final: a finished job offers its one document
\* until it is purged or consumed, and no late worker, retry or sweep takes back a
\* cancellation or brings back what is gone (_finish_durable_document_job,
\* cancel_document_export, retry_failed_durable_document_job).
THEOREM ToldStaysTold == Spec => [][ToldIsFinal]_vars
<1>1. Orderly /\ [Next]_vars => ToldIsFinal
  <2>1. ASSUME Orderly, [Next]_vars  PROVE [Lifecycle!Next]_<<told, offered>>
    <3>1. ASSUME UNCHANGED vars  PROVE UNCHANGED <<told, offered>>
      BY <2>1, <3>1, NothingTold, OthersStay DEF vars, Orderly, DocTypeOK
    <3>2. QED  BY <2>1, <3>1, QueueRefines
  <2>2. QED  BY <2>1, LifecycleIsFinal
<1>2. QED  BY <1>1, QueueIsOrderly, PTL DEF Spec
=============================================================================
