--------------------------- MODULE TemplateCatalog ---------------------------
(***************************************************************************)
(* One Word template of the catalog (backend/documents/template_catalog):  *)
(* its immutable versions, the editors who draft, restore and publish them *)
(* under the row version of the template, the retention sweep, and the     *)
(* outbox through which the server processes copy what is published to the *)
(* file under the template's old name (its legacy alias).                  *)
(*                                                                         *)
(* Catalog mode is cutover.  Time is not counted: a preflight may grow     *)
(* stale, a version old, a lock overdue and a retry due at any moment.     *)
(***************************************************************************)
EXTENDS Naturals, Sequences, FiniteSets

CONSTANTS
  Contents,            \* what a version may say, told apart by its SHA-256
  Editors,             \* pages on which the template is open
  Hosts,               \* server processes, each with a projection worker
  MaxProjections,      \* attempts after which a projection has failed
  MaxVersions,         \* model bound: versions of the template
  MaxRow,              \* model bound: row_version of the template
  MaxStops             \* model bound: processes that stop

ASSUME TemplateAssumption ==
  /\ Contents # {} /\ IsFiniteSet(Contents)
  /\ {MaxProjections, MaxVersions, MaxRow} \subseteq Nat \ {0} /\ MaxStops \in Nat

VARIABLES
  template,    \* word_template: published, draft (version numbers or 0), row_version
  versions,    \* word_template_version and the preflight runs that passed it
  cited,       \* versions named by word_template_publication_event
  outbox,      \* word_template_projection_outbox, in the order of creation
  alias,       \* the version whose content is in the legacy file, 0 before
  hosts,       \* what the projection worker of each process is doing
  stops,
  page         \* the template as each editor's page shows it

templateVars == <<template, versions, cited, outbox, alias, hosts, stops, page>>
catalogVars == <<template, versions, cited, page>>
projectionVars == <<outbox, alias, hosts, stops>>

Numbers == 1..Len(versions)
Kept(v) == v \in Numbers /\ versions[v].kept
JobStates == {"pending", "processing", "retry", "completed", "failed"}

NewVersion(content, source) ==
  [content |-> content, source |-> source, kept |-> TRUE, preflight |-> "none"]

TemplateTypeOK ==
  /\ template \in [published: 0..MaxVersions, draft: 0..MaxVersions, row: 1..MaxRow]
  /\ versions \in Seq([content: Contents, source: 0..MaxVersions, kept: BOOLEAN,
                       preflight: {"none", "fresh", "stale"}])
  /\ outbox \in Seq([version: 1..MaxVersions, status: JobStates, overdue: BOOLEAN,
                     attempts: Nat])
  /\ hosts \in [Hosts -> [doing: {"idle", "copying", "copied", "stopped"},
                          job: 0..Len(outbox)]]

\* create_template: the first version is a draft.
TemplateInit ==
  /\ template = [published |-> 0, draft |-> 1, row |-> 1]
  /\ \E c \in Contents : versions = <<NewVersion(c, 0)>>
  /\ cited = {} /\ outbox = <<>> /\ alias = 0 /\ stops = 0
  /\ hosts = [h \in Hosts |-> [doing |-> "idle", job |-> 0]]
  /\ page = [u \in Editors |-> template]

-----------------------------------------------------------------------------
(***************************************************************************)
(* Editors.  Every change is a compare-and-set on row_version, under the   *)
(* lock of the template's row; a stale page is told so and changes nothing.*)
(***************************************************************************)

OpenPage(u) ==
  /\ page[u] # template /\ page' = [page EXCEPT ![u] = template]
  /\ UNCHANGED <<template, versions, cited, projectionVars>>

\* Mutant: the old draft is replaced without a new row version.
ReplaceUnnoticed(u, next) ==
  /\ template' = [next EXCEPT !.row = @ - 1]
  /\ page' = [page EXCEPT ![u] = template']
\* The template is answered to the page that changed it.
Replace(u, next) == template' = next /\ page' = [page EXCEPT ![u] = next]

\* validate_template_cas
PassesCAS(u) == page[u].row = template.row /\ template.row < MaxRow

InsertDraft(u, content, source) ==
  /\ PassesCAS(u) /\ Len(versions) < MaxVersions
  /\ versions' = Append(versions, NewVersion(content, source))
  /\ Replace(u, [template EXCEPT !.draft = Len(versions) + 1, !.row = @ + 1])
  /\ UNCHANGED projectionVars

CreateDraftVersion(u, content) == InsertDraft(u, content, 0) /\ UNCHANGED cited

RestoreAsDraft(u, v) ==
  /\ Kept(v)
  /\ InsertDraft(u, versions[v].content, v)
  /\ cited' = cited \cup {v, Len(versions) + 1}

\* create_standardized_draft: the accepted run of v previewed the changes.  With
\* none to make, or when the draft is what the same run led to, only the audit
\* log is written.
CreateStandardizedDraft(u, v, content) ==
  /\ Kept(v) /\ versions[v].preflight = "fresh" /\ content # versions[v].content
  /\ InsertDraft(u, content, v) /\ UNCHANGED cited

\* The template passes a preflight against the mapping of today.
PassPreflight(v) ==
  /\ Kept(v) /\ versions' = [versions EXCEPT ![v].preflight = "fresh"]
  /\ UNCHANGED <<template, cited, page, projectionVars>>

PreflightAges(v) ==
  /\ Kept(v) /\ versions[v].preflight = "fresh"
  /\ versions' = [versions EXCEPT ![v].preflight = "stale"]
  /\ UNCHANGED <<template, cited, page, projectionVars>>

ContentOf(job) == versions[job.version].content

\* INSERT ... ON CONFLICT (organization_id, template_id, event_type,
\* desired_checksum) DO NOTHING
EnqueueProjection(v) ==
  IF \E i \in DOMAIN outbox : ContentOf(outbox[i]) = versions[v].content
    THEN UNCHANGED outbox
    ELSE outbox' = Append(outbox, [version |-> v, status |-> "pending",
                                   overdue |-> FALSE, attempts |-> 0])

\* publish: any version of the template with a fresh preflight.
Publish(u, v) ==
  /\ Kept(v) /\ versions[v].preflight = "fresh" /\ PassesCAS(u)
  /\ Replace(u, [published |-> v, row |-> template.row + 1,
                 draft |-> IF template.draft = v THEN 0 ELSE template.draft])
  /\ cited' = cited \cup ({template.published, v} \ {0})
  /\ EnqueueProjection(v)
  /\ UNCHANGED <<versions, alias, hosts, stops>>

-----------------------------------------------------------------------------
(***************************************************************************)
(* purge_expired_retention: first the preflight runs no event refers to,   *)
(* then the versions to which nothing refers any more.                     *)
(***************************************************************************)

RunsLeft(expired) ==
  [v \in Numbers |-> IF v \in expired \ cited THEN "none" ELSE versions[v].preflight]

\* Mutant: only what the template row names is needed.
ReferencedByTemplate(v, runs) == v \in {template.published, template.draft}
Referenced(v, runs) ==
  \/ v \in {template.published, template.draft} \cup cited
  \/ \E child \in Numbers : Kept(child) /\ versions[child].source = v
  \/ runs[v] # "none"
  \/ \E i \in DOMAIN outbox : outbox[i].version = v

Purge(expired, oldest) ==
  LET runs == RunsLeft(expired)
      gone == {v \in 1..oldest : Kept(v) /\ ~Referenced(v, runs)}
  IN /\ versions' = [v \in Numbers |-> [versions[v] EXCEPT !.preflight = runs[v],
                                                           !.kept = @ /\ v \notin gone]]
     /\ UNCHANGED <<template, cited, page, projectionVars>>

RetentionSweep ==
  \E expired \in SUBSET {v \in Numbers : versions[v].preflight = "stale"}, oldest \in Numbers :
    Purge(expired, oldest)

-----------------------------------------------------------------------------
(***************************************************************************)
(* LegacyAliasProjectionWorker, one per process.                           *)
(***************************************************************************)

Doing(h, what) == hosts[h].doing = what
Moves(h, what, job) == hosts' = [hosts EXCEPT ![h] = [doing |-> what, job |-> job]]

\* Due jobs come in the order of available_at; a retry is due when its delay
\* is over, which may be any time.
Due(i) ==
  \/ outbox[i].status = "retry"
  \/ outbox[i].status = "pending" /\ \A k \in 1..(i - 1) : outbox[k].status # "pending"

ClaimProjection(h, i) ==
  /\ Doing(h, "idle") /\ Due(i) /\ Moves(h, "copying", i)
  /\ outbox' = [outbox EXCEPT ![i].status = "processing", ![i].overdue = FALSE,
                              ![i].attempts = @ + 1]
  /\ UNCHANGED <<catalogVars, alias, stops>>

\* _project replaces the file in one step, under its lock.
Project(h) ==
  /\ Doing(h, "copying") /\ Moves(h, "copied", hosts[h].job)
  /\ alias' = outbox[hosts[h].job].version
  /\ UNCHANGED <<catalogVars, outbox, stops>>

\* Both ends of a job ask only whether it is being processed, by whomever.
CompleteProjection(h) ==
  LET i == hosts[h].job IN
  /\ Doing(h, "copied") /\ Moves(h, "idle", 0)
  /\ outbox' = IF outbox[i].status = "processing"
                 THEN [outbox EXCEPT ![i].status = "completed"] ELSE outbox
  /\ UNCHANGED <<catalogVars, alias, stops>>

RetryProjection(h) ==
  LET i == hosts[h].job IN
  /\ Doing(h, "copying") /\ Moves(h, "idle", 0)
  /\ outbox' = IF outbox[i].status # "processing" THEN outbox
               ELSE [outbox EXCEPT ![i].status =
                       IF outbox[i].attempts >= MaxProjections THEN "failed" ELSE "retry"]
  /\ UNCHANGED <<catalogVars, alias, stops>>

\* The lock of a job is five minutes old.
LockAges(i) ==
  /\ outbox[i].status = "processing" /\ ~outbox[i].overdue
  /\ outbox' = [outbox EXCEPT ![i].overdue = TRUE]
  /\ UNCHANGED <<catalogVars, alias, hosts, stops>>

HostStops(h) ==
  /\ ~Doing(h, "stopped") /\ stops < MaxStops /\ stops' = stops + 1
  /\ Moves(h, "stopped", 0)
  /\ UNCHANGED <<catalogVars, outbox, alias>>

\* recover_stale runs once, when the worker of a process starts.
HostStarts(h) ==
  /\ Doing(h, "stopped") /\ Moves(h, "idle", 0)
  /\ outbox' = [i \in DOMAIN outbox |->
       IF outbox[i].status = "processing" /\ outbox[i].overdue
         THEN [outbox[i] EXCEPT !.status = "retry", !.overdue = FALSE] ELSE outbox[i]]
  /\ UNCHANGED <<catalogVars, alias, stops>>

-----------------------------------------------------------------------------
EditorActs(u) ==
  \/ OpenPage(u)
  \/ \E c \in Contents : \/ CreateDraftVersion(u, c)
                         \/ \E v \in Numbers : CreateStandardizedDraft(u, v, c)
  \/ \E v \in Numbers : RestoreAsDraft(u, v) \/ Publish(u, v)

HostActs(h) ==
  \/ \E i \in DOMAIN outbox : ClaimProjection(h, i)
  \/ Project(h) \/ CompleteProjection(h) \/ RetryProjection(h)

TemplateNext ==
  \/ \E u \in Editors : EditorActs(u)
  \/ \E v \in Numbers : PassPreflight(v) \/ PreflightAges(v)
  \/ RetentionSweep
  \/ \E h \in Hosts : HostActs(h) \/ HostStops(h) \/ HostStarts(h)
  \/ \E i \in DOMAIN outbox : LockAges(i)

TemplateSpec == TemplateInit /\ [][TemplateNext]_templateVars

-----------------------------------------------------------------------------
\* A page that would pass the compare-and-set shows the draft and the
\* publication as they are, so no editor replaces what they have not seen.
CurrentPageIsTrue ==
  \A u \in Editors : page[u].row = template.row => page[u] = template

\* However many publications, restorations and sweeps later, what was once
\* published or restored is there to be restored again, and so is every version
\* that a kept one was made from, down to the first: a sweep never breaks the
\* chain of sources, nor takes what a projection has still to copy.
PublishedIsKept ==
  /\ \A v \in cited : Kept(v)
  /\ \A v \in Numbers : Kept(v) /\ versions[v].source # 0 => Kept(versions[v].source)
  /\ \A i \in DOMAIN outbox : Kept(outbox[i].version)

\* Once every projection is done, the legacy file holds the published content
\* (LegacyAliasProjectionWorker: "Project DB-authoritative published bytes to
\* legacy aliases after cutover").
Drained == /\ \A i \in DOMAIN outbox : outbox[i].status = "completed"
           /\ \A h \in Hosts : Doing(h, "idle")
AliasIsPublished ==
  Drained /\ template.published # 0 =>
    alias # 0 /\ versions[alias].content = versions[template.published].content
=============================================================================
