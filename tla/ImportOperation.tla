---------------------------- MODULE ImportOperation ----------------------------
(***************************************************************************)
(* An import of the whole history of a plan (revisionMode ALL): requests   *)
(* that apply or resume one procurement_import_operation.  The revisions   *)
(* are written by one serializable transaction; the status of the          *)
(* operation is written by another one after it, so a call may die, or     *)
(* be overtaken, between the two.                                          *)
(*                                                                         *)
(* The portal may publish a revision again with another content: the       *)
(* evidence row of a revision is the digest it was imported with.  A       *)
(* revision observed with another digest is a resync: it archives the      *)
(* plan of that revision and inserts one with the same root and number.    *)
(* The database has a unique index on (organization, root, number) of all  *)
(* plans, the archived ones too (idx_ke_hoach_lcnt_unique_version), so the *)
(* insert fails and the transaction is rolled back.                        *)
(***************************************************************************)
EXTENDS Integers

CONSTANTS Calls,          \* HTTP requests to apply or to resume the operation
          LastStep,       \* its revisions are 1..LastStep
          MaxRowEdits,    \* model bound: edits of the family by its users
          MaxBreaks       \* model bound: failed transactions, cut requests, other imports

ASSUME OperationAssumption ==
  LastStep \in Nat \ {0} /\ MaxRowEdits \in Nat /\ MaxBreaks \in Nat

VARIABLES batch,         \* status and next_revision_index of the operation
          call,          \* where a call is, and the index it started from
          expected,      \* expectedPlanRowVersion of the call, kept in the manifest
          rowVersion,    \* row_version of the latest plan of the family, 0: there is none
          observed,      \* digest in the evidence of a revision
          numbered,      \* the plan that has the number of a revision
          materialized,  \* history: how often an import made a plan of a revision
          told,          \* history: has a call been answered COMPLETED?
          rowEdits, breaks
planVars == <<rowVersion, observed, numbered, materialized>>
operationVars == <<batch, call, expected, planVars, told, rowEdits, breaks>>

Steps == 1..LastStep
\* The digest in the manifest of the operation, and one of a later publication.
NoDigest == 0
Own == 1
Changed == 2

OperationInit ==
  /\ batch = [st |-> "none", next |-> 0]
  /\ call = [q \in Calls |-> [at |-> "idle", start |-> 0]]
  /\ rowVersion \in 0..2 /\ expected \in 0..2
  /\ observed = [r \in Steps |-> NoDigest] /\ numbered = [r \in Steps |-> "free"]
  /\ materialized = [r \in Steps |-> 0]
  /\ told = FALSE /\ rowEdits = 0 /\ breaks = 0
-----------------------------------------------------------------------------
Advance(q, at) == call' = [call EXCEPT ![q].at = at]
Break == breaks < MaxBreaks /\ breaks' = breaks + 1

\* _create_operation: ON CONFLICT DO NOTHING, the stored row decides.
Apply(q) ==
  /\ call[q].at = "idle"
  /\ batch' = IF batch.st = "none" THEN [st |-> "PENDING", next |-> 0] ELSE batch
  /\ call' = [call EXCEPT ![q] = [at |-> IF batch.st = "COMPLETED" THEN "done" ELSE "writing",
                                        start |-> batch'.next]]
  /\ told' = (told \/ batch.st = "COMPLETED")
  /\ UNCHANGED <<expected, planVars, rowEdits, breaks>>

\* _resume_blocking reads the operation in the transaction that writes; what it
\* read stands until that transaction ends, or it fails.
Resume(q) ==
  /\ call[q].at = "idle" /\ batch.st # "none"
  /\ call' = [call EXCEPT ![q] = [at |-> IF batch.st = "COMPLETED" THEN "done" ELSE "writing",
                                        start |-> batch.next]]
  /\ told' = (told \/ batch.st = "COMPLETED")
  /\ UNCHANGED <<batch, expected, planVars, rowEdits, breaks>>

\* A revision whose digest is the one observed is a NOOP; the others are written.
ToWrite(start) == {r \in Steps : r > start /\ observed[r] # Own}
\* A new revision becomes the latest plan unless a later one has been applied.
IsLatestSource(r) == \A s \in Steps : s > r => observed[s] = NoDigest
\* The row_version reconcile_revision meets: a plan written before in the same
\* transaction may have become the latest.
VersionMet(start, r) ==
  IF \E s \in ToWrite(start) : s < r /\ IsLatestSource(s) THEN 1 ELSE rowVersion
ExpectedFor(r) == IF r = 1 THEN expected ELSE 1
\* The plan must be as expected, and no other plan may have the number: neither
\* one that is not archived (find_local_plan_version) nor, under the root of the
\* latest plan, an archived one (the unique index), that of a resync included.
NumberIsFree(r) ==
  \/ numbered[r] = "free"
  \/ numbered[r] = "archived" /\ rowVersion = 0
Materializes(r) == observed[r] = NoDigest /\ NumberIsFree(r)
MayWrite(start) ==
  \A r \in ToWrite(start) : Materializes(r) /\ VersionMet(start, r) \in {0, ExpectedFor(r)}
\* _insert_plan and the evidence row, for each revision of a transaction.
Materialize(revisions, digest) ==
  /\ observed' = [r \in Steps |-> IF r \in revisions THEN digest ELSE observed[r]]
  /\ numbered' = [r \in Steps |-> IF r \in revisions THEN "live" ELSE numbered[r]]
  /\ materialized' = [r \in Steps |-> materialized[r] + IF r \in revisions THEN 1 ELSE 0]
  /\ rowVersion' = IF \E r \in revisions : IsLatestSource(r) THEN 1 ELSE rowVersion
\* The commit may take effect without the call learning of it.
WriteBatch(q) ==
  /\ call[q].at = "writing"
  /\ MayWrite(call[q].start)
  /\ Materialize(ToWrite(call[q].start), Own)
  /\ \/ Advance(q, "written") /\ UNCHANGED breaks
     \/ Advance(q, "failing") /\ Break
  /\ UNCHANGED <<batch, expected, told, rowEdits>>

\* A conflict with the plan rolls everything back; so does the database, or a
\* transaction that ran at the same time.
BatchFails(q) ==
  /\ call[q].at = "writing"
  /\ \/ ~MayWrite(call[q].start) /\ UNCHANGED breaks
     \/ Break
  /\ Advance(q, "failing")
  /\ UNCHANGED <<batch, expected, planVars, told, rowEdits>>

\* Mutant: the index may go back.
MaySetAlways(cursor) == TRUE
\* update_operation without a lease: the index never goes back.
MaySet(cursor) == batch.next <= cursor
SetBatch(st, cursor) ==
  batch' = IF MaySet(cursor) THEN [st |-> st, next |-> cursor] ELSE batch

MarkCompleted(q) == /\ call[q].at = "written"
                    /\ SetBatch("COMPLETED", LastStep)
                    /\ told' = TRUE
                    /\ Advance(q, "done")
                    /\ UNCHANGED <<expected, planVars, rowEdits, breaks>>
MarkBatchFailed(q) == /\ call[q].at = "failing"
                      /\ SetBatch("FAILED", call[q].start)
                      /\ Advance(q, "done")
                      /\ UNCHANGED <<expected, planVars, told, rowEdits, breaks>>
\* The call is cut, or its second transaction fails.
CutCall(q) == /\ call[q].at \notin {"idle", "done"} /\ Break
              /\ Advance(q, "done")
              /\ UNCHANGED <<batch, expected, planVars, told, rowEdits>>

\* Another import of the family, of one revision or of a history, brings a
\* revision as it now is; it was previewed after the last edit of the plan.
OtherImport(r, digest) ==
  /\ Materializes(r) /\ Break
  /\ Materialize({r}, digest)
  /\ UNCHANGED <<batch, call, expected, told, rowEdits>>
\* The users edit the latest plan, archive a version, or add one of their own.
EditFamily ==
  /\ rowEdits < MaxRowEdits /\ rowEdits' = rowEdits + 1
  /\ \/ rowVersion > 0 /\ rowVersion' = rowVersion + 1 /\ UNCHANGED numbered
     \/ \E r \in Steps : /\ numbered[r] = "live"
                         /\ numbered' = [numbered EXCEPT ![r] = "archived"]
                         /\ rowVersion' \in 0..2
     \/ \E r \in Steps : /\ numbered[r] = "free"
                         /\ numbered' = [numbered EXCEPT ![r] = "live"]
                         /\ rowVersion' = 1
  /\ UNCHANGED <<batch, call, expected, observed, materialized, told, breaks>>

OperationNext ==
  \/ \E q \in Calls : \/ Apply(q) \/ Resume(q) \/ WriteBatch(q) \/ BatchFails(q)
                      \/ MarkCompleted(q) \/ MarkBatchFailed(q) \/ CutCall(q)
  \/ (\E r \in Steps, digest \in {Own, Changed} : OtherImport(r, digest)) \/ EditFamily

OperationSpec == OperationInit /\ [][OperationNext]_operationVars
-----------------------------------------------------------------------------
\* Once a call was answered that the import is complete, the operation stays
\* complete, and every revision was imported with the content of this operation,
\* by it or by another import, and by no later one with another content.  Whatever
\* died, was retried or raced, a lost answer to the commit included, no revision
\* became a plan version twice (find_revision's NOOP; next_revision_index <= cursor
\* in _update_operation).
CompletedImportIsKept ==
  /\ told => /\ batch = [st |-> "COMPLETED", next |-> LastStep]
             /\ \A r \in Steps : observed[r] = Own
  /\ \A r \in Steps : materialized[r] = IF observed[r] = NoDigest THEN 0 ELSE 1
=============================================================================
