----------------------------- MODULE ImportSession -----------------------------
(***************************************************************************)
(* One plan import session: the prepared bundle of source revisions, the   *)
(* background enrichment that replaces the bundle once, the decisions the  *)
(* user binds to it, and the pushes that turn its revisions into plan      *)
(* versions.  Enrichers are threads of any server process; the row of      *)
(* procurement_import_operation fences them by its updated_at.             *)
(*                                                                         *)
(* A bundle is named by who prepared it: 0 for the quick preview, or the   *)
(* enricher.  A plan is named by a number that every version and every     *)
(* edit of the latest version changes; 0 is no plan.  Staleness of a lease *)
(* is not timed: a running operation may be stale at any moment.           *)
(***************************************************************************)
EXTENDS Integers, Sequences

CONSTANTS Enrichers,      \* attempts at the enrichment: a set of positive numbers
          Decisions,      \* what the user can decide about a bundle
          LastRevision,   \* the revisions of the session are 1..LastRevision
          MaxPlanEdits,   \* model bound: edits of the plan outside the session
          MaxCuts         \* model bound: failed transactions and dead threads

ASSUME SessionAssumption ==
  /\ Enrichers \subseteq Nat \ {0} /\ LastRevision \in Nat \ {0}
  /\ MaxPlanEdits \in Nat /\ MaxCuts \in Nat

VARIABLES plan,       \* the latest version of the plan (expectedPredecessor's token)
          session,    \* the row of procurement_import_session
          operation,  \* the row of procurement_import_operation, lease = updated_at
          enricher,   \* context of _run_plan_enrichment
          shown,      \* the bundle whose manifest the browser shows
          drafts,     \* revision drafts the browser has opened
          commits,    \* history: the revisions committed by pushes, in order
          planEdits, cuts
sessionVars == <<plan, session, operation, enricher, shown, drafts, commits, planEdits, cuts>>
clientVars == <<shown, drafts, commits>>

Undecided == [st |-> "undecided"]
SourceRevisions == 1..LastRevision
IdleEnricher == [at |-> "idle", lease |-> 0, lost |-> FALSE, partial |-> FALSE]

\* _prepare_plan_blocking has stored the session; a quick bundle with linked
\* notices gets an operation, which _create_enrichment_operation stores after it.
SessionInit ==
  /\ plan \in {0, 1}
  /\ \E ready \in {"PENDING", "COMPLETED"} :
       session = [st |-> "READY", expired |-> FALSE, index |-> 0, ready |-> ready,
                  content |-> 0, base |-> plan, bound |-> Undecided, last |-> 0]
  /\ operation = [st |-> "none", lease |-> 0]
  /\ enricher = [e \in Enrichers |-> IdleEnricher]
  /\ shown = 0 /\ drafts = {} /\ commits = <<>>
  /\ planEdits = 0 /\ cuts = 0
-----------------------------------------------------------------------------
Stamp(st) == operation' = [st |-> st, lease |-> operation.lease + 1]
Move(e, at) == enricher' = [enricher EXCEPT ![e].at = at]
Cut == cuts < MaxCuts /\ cuts' = cuts + 1

CreateOperation == /\ session.ready = "PENDING" /\ operation.st = "none"
                   /\ Stamp("PENDING")
                   /\ UNCHANGED <<plan, session, enricher, planEdits, cuts>> /\ UNCHANGED clientVars

\* _start_plan_enrichment, and recover_stale_plan_enrichments of any process.
Start(e) == /\ enricher[e].at = "idle"
            /\ operation.st \in {"PENDING", "RUNNING"}
            /\ session.st # "gone" /\ ~session.expired
            /\ Move(e, "started")
            /\ UNCHANGED <<plan, session, operation, planEdits, cuts>> /\ UNCHANGED clientVars

\* claim_background_operation, then the read of the session.
Claim(e) ==
  /\ enricher[e].at = "started"
  /\ IF operation.st \in {"PENDING", "RUNNING"}
     THEN /\ Stamp("RUNNING")
          /\ enricher' = [enricher EXCEPT ![e].at = "claimed", ![e].lease = operation.lease + 1]
     ELSE Move(e, "done") /\ UNCHANGED operation
  /\ UNCHANGED <<plan, session, planEdits, cuts>> /\ UNCHANGED clientVars
\* The claim loses a serialization race, or the database fails.
ClaimFails(e) == /\ enricher[e].at = "started" /\ Cut
                 /\ Move(e, "failing")
                 /\ UNCHANGED <<plan, session, operation, planEdits>> /\ UNCHANGED clientVars

ReadSession(e) ==
  /\ enricher[e].at = "claimed"
  /\ Move(e, CASE session.st = "gone" -> "done" [] session.expired -> "failing" [] OTHER -> "reading")
  /\ UNCHANGED <<plan, session, operation, planEdits, cuts>> /\ UNCHANGED clientVars

\* update_operation with expected_lease: the row must be as this thread left it.
HoldsLease(e) == operation.st = "RUNNING" /\ operation.lease = enricher[e].lease

\* _record_enrichment_progress; a failed commit leaves the new lease in the
\* context only.
Progress(e) ==
  /\ enricher[e].at = "reading"
  /\ IF HoldsLease(e)
     THEN /\ enricher' = [enricher EXCEPT ![e].at = "progressed", ![e].lease = operation.lease + 1]
          /\ \/ Stamp("RUNNING") /\ UNCHANGED cuts
             \/ Cut /\ UNCHANGED operation
     ELSE /\ enricher' = [enricher EXCEPT ![e].at = "progressed", ![e].lost = TRUE]
          /\ UNCHANGED <<operation, cuts>>
  /\ UNCHANGED <<plan, session, planEdits>> /\ UNCHANGED clientVars

\* prepare_plan: the portal may fail, and the local plan it starts from must be
\* the session's.
Fetch(e) ==
  /\ enricher[e].at = "progressed"
  /\ \/ /\ plan = session.base
        /\ \E partial \in BOOLEAN :
             enricher' = [enricher EXCEPT ![e].at = "fetched", ![e].partial = partial]
     \/ Move(e, "failing")
  /\ UNCHANGED <<plan, session, operation, planEdits, cuts>> /\ UNCHANGED clientVars

\* The last transaction of _run_plan_enrichment: session and operation together.
\* update_canonical_bundle stores the fresh bundle, which holds no decisions.
Stored(e) == [session EXCEPT !.content = e, !.bound = Undecided,
                             !.ready = IF enricher[e].partial THEN "PARTIAL" ELSE "COMPLETED"]
\* Mutant: the lease is not asked for.
FinishUnfenced(e) == plan = session.base
MayFinish(e) == plan = session.base /\ ~enricher[e].lost /\ HoldsLease(e)
StoreBundle(e) ==
  LET updated == session.st \notin {"gone", "CANCELLED"} IN
  /\ session' = IF updated THEN Stored(e) ELSE session
  /\ Stamp(IF updated THEN Stored(e).ready ELSE "FAILED")
\* A commit that fails, and one that takes effect but is not answered, both leave
\* the thread with its old lease.
Finish(e) ==
  /\ enricher[e].at = "fetched"
  /\ \/ MayFinish(e) /\ StoreBundle(e) /\ Move(e, "done") /\ UNCHANGED cuts
     \/ MayFinish(e) /\ StoreBundle(e) /\ Move(e, "failing") /\ Cut
     \/ MayFinish(e) /\ Move(e, "failing") /\ Cut /\ UNCHANGED <<session, operation>>
     \/ ~MayFinish(e) /\ Move(e, "failing") /\ UNCHANGED <<session, operation, cuts>>
  /\ UNCHANGED <<plan, planEdits>> /\ UNCHANGED clientVars

\* _finish_enrichment_operation, which is not fenced when nothing was claimed.
Fail(e) == /\ enricher[e].at = "failing"
           /\ IF enricher[e].lease = 0 \/ HoldsLease(e) THEN Stamp("FAILED") ELSE UNCHANGED operation
           /\ Move(e, "done")
           /\ UNCHANGED <<plan, session, planEdits, cuts>> /\ UNCHANGED clientVars

Die(e) == /\ enricher[e].at \notin {"idle", "done"} /\ Cut
          /\ Move(e, "done")
          /\ UNCHANGED <<plan, session, operation, planEdits>> /\ UNCHANGED clientVars
-----------------------------------------------------------------------------
Served == session.st # "gone" /\ ~session.expired
OnlyClient == UNCHANGED <<plan, session, operation, enricher, planEdits, cuts>>

Refresh == /\ Served /\ shown' = session.content
           /\ OnlyClient /\ UNCHANGED <<drafts, commits>>

\* bind_plan_decisions and bind_decision_authority: once, on the bundle shown.
Bind(d) ==
  /\ Served /\ plan = session.base
  /\ shown = session.content /\ session.ready = "COMPLETED"
  /\ session.bound = Undecided
  /\ session.index = 0 /\ session.st = "READY"
  /\ session' = [session EXCEPT !.bound = [st |-> "bound", d |-> d]]
  /\ UNCHANGED <<plan, operation, enricher, planEdits, cuts>> /\ UNCHANGED clientVars

\* get_revision_draft asks neither for the status nor for the index.
OpenDraft(r) ==
  /\ Served /\ session.ready = "COMPLETED"
  /\ plan = session.base
  /\ session.bound # Undecided
  /\ drafts' = drafts \cup {[rev |-> r, content |-> session.content, by |-> session.bound]}
  /\ OnlyClient /\ UNCHANGED <<shown, commits>>

\* _expected_plan_predecessor: the prepared base once, then the last commit.
ExpectedPredecessor == IF session.index = 0 THEN session.base ELSE session.last
CommitOf(draft, on) == [rev |-> draft.rev, content |-> draft.content, by |-> draft.by, on |-> on]

\* mark_revision_committed.
Committed(n, token) ==
  [session EXCEPT !.index = n, !.last = token,
                  !.st = IF n = LastRevision THEN "COMPLETED" ELSE "WAITING_NEXT_CONFIRMATION"]

\* A sync push of one revision: validate_import_session_mutation, the plan
\* version, persist_import_session_provenance.  A session that creates the plan
\* (no predecessor) expects that there still is none.
PushRevision(draft) ==
  /\ Served /\ session.st \in {"READY", "WAITING_NEXT_CONFIRMATION"}
  /\ draft.rev = session.index + 1
  /\ plan = IF session.base = 0 THEN 0 ELSE ExpectedPredecessor
  /\ plan' = plan + 1
  /\ session' = Committed(draft.rev, plan + 1)
  /\ commits' = Append(commits, CommitOf(draft, plan))
  /\ UNCHANGED <<operation, enricher, shown, drafts, planEdits, cuts>>

\* The finalize-draft command: every revision of a new plan in one transaction.
\* The chain starts at version 00 and its code has no plan yet.
FinalizeDraft(chain) ==
  /\ Served /\ session.st = "READY" /\ session.index = 0
  /\ plan = 0
  /\ plan' = LastRevision
  /\ session' = Committed(LastRevision, LastRevision)
  /\ commits' = [r \in SourceRevisions |-> CommitOf(chain[r], r - 1)]
  /\ UNCHANGED <<operation, enricher, shown, drafts, planEdits, cuts>>

Cancel == /\ Served /\ session.st \in {"READY", "WAITING_NEXT_CONFIRMATION"}
          /\ session' = [session EXCEPT !.st = "CANCELLED"]
          /\ UNCHANGED <<plan, operation, enricher, planEdits, cuts>> /\ UNCHANGED clientVars
Expire == /\ Served /\ session' = [session EXCEPT !.expired = TRUE]
          /\ UNCHANGED <<plan, operation, enricher, planEdits, cuts>> /\ UNCHANGED clientVars
CleanupExpired == /\ session.expired /\ session.st # "gone"
                  /\ session' = [session EXCEPT !.st = "gone"]
                  /\ UNCHANGED <<plan, operation, enricher, planEdits, cuts>> /\ UNCHANGED clientVars
\* Somebody edits the plan, or creates it, outside the session.
EditPlan == /\ planEdits < MaxPlanEdits /\ planEdits' = planEdits + 1
            /\ plan' = plan + 1
            /\ UNCHANGED <<session, operation, enricher, cuts>> /\ UNCHANGED clientVars

Chains == {chain \in [SourceRevisions -> drafts] : \A r \in SourceRevisions : chain[r].rev = r}
EnricherStep(e) == \/ Start(e) \/ Claim(e) \/ ClaimFails(e) \/ ReadSession(e) \/ Progress(e)
                   \/ Fetch(e) \/ Finish(e) \/ Fail(e) \/ Die(e)
SessionNext ==
  \/ CreateOperation \/ (\E e \in Enrichers : EnricherStep(e))
  \/ Refresh \/ (\E d \in Decisions : Bind(d)) \/ (\E r \in SourceRevisions : OpenDraft(r))
  \/ (\E draft \in drafts : PushRevision(draft)) \/ (\E chain \in Chains : FinalizeDraft(chain))
  \/ Cancel \/ Expire \/ CleanupExpired \/ EditPlan

SessionSpec == SessionInit /\ [][SessionNext]_sessionVars
-----------------------------------------------------------------------------
\* What a session has committed are its revisions in the order of the source,
\* each made from the bundle and the decisions that the session holds to its end,
\* and each on top of the very plan the session started from or committed last:
\* no late enricher replaces a bundle that was decided on, and nobody else's edit
\* is written over (update_operation with expected_lease, bind_decision_authority,
\* _validate_plan_target_predecessor).
CommitsFollowDecisions ==
  /\ Len(commits) = session.index
  /\ \A i \in DOMAIN commits :
       /\ commits[i].rev = i
       /\ commits[i].content = session.content
       /\ session.bound # Undecided /\ commits[i].by = session.bound
       /\ commits[i].on = IF i = 1 THEN session.base ELSE commits[i - 1].on + 1
=============================================================================
