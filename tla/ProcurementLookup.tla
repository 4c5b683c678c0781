------------------------- MODULE ProcurementLookup --------------------------
(***************************************************************************)
(* fetch_procurement_snapshot (backend/procurement_lookup/routes.py) over  *)
(* the credit store: a lookup or import request reads the snapshot cache,  *)
(* reserves credits, fetches from the procurement portal and then commits  *)
(* the snapshot together with its debit.  Each step is a transaction or an *)
(* external call of its own, so requests of the same owner interleave with *)
(* each other, with the lease sweep of the billing worker and with the     *)
(* death of the server process.  Credit enforcement is on.                 *)
(*                                                                         *)
(* A request asks for revisions of one code.  The portal answers a         *)
(* revision in several parts (detail, packages...), each of which succeeds *)
(* or fails; a bundle is complete when every part of every revision does.  *)
(***************************************************************************)
EXTENDS UsageCredits

CONSTANTS
  Jobs,            \* requests, one run of the handler each
  Parts            \* the source responses that make up one revision

ASSUME LookupAssumption == IsFiniteSet(Jobs) /\ IsFiniteSet(Parts) /\ Parts # {}

VARIABLES
  jobs,   \* the local state of each request
  raw,    \* procurement_raw_snapshot: the responses on record of each revision
  fresh   \* owner -> revisions whose responses are all younger than the cache TTL

lookupVars == <<creditVars, jobs, raw, fresh>>

Answers == {"ok", "failed"}
Steps ==
  {"new", "planned", "reserved", "complete", "partial", "failed",
   "saveFailed", "done", "refused", "error", "dead"}

JobState ==
  [step: Steps, owner: Owners \cup {NoOwner}, requested: SUBSET Candidates,
   persist: BOOLEAN,                 \* persist_partial_snapshot: a lookup, no import
   existing: SUBSET Candidates,      \* revisions served from the cache
   fetch: SUBSET Candidates,         \* fetchRevisions
   held: SUBSET Candidates]          \* reservations the request will settle

\* seen: the distinct responses stored; newest: the one stored last.
PartRecord == [seen: SUBSET Answers, newest: Answers \cup {"none"}]

LookupTypeOK ==
  /\ UsageTypeOK
  /\ jobs \in [Jobs -> JobState]
  /\ raw \in [Rows -> [Parts -> PartRecord]]
  /\ fresh \in [Owners -> SUBSET Candidates]

LookupInit ==
  /\ Init
  /\ jobs = [j \in Jobs |->
       [step |-> "new", owner |-> NoOwner, requested |-> {}, persist |-> FALSE,
        existing |-> {}, fetch |-> {}, held |-> {}]]
  /\ raw = [r \in Rows |-> [p \in Parts |-> [seen |-> {}, newest |-> "none"]]]
  /\ fresh = [o \in Owners |-> {}]

GoTo(j, step) == jobs' = [jobs EXCEPT ![j].step = step]
HeldRows(j) == {jobs[j].owner} \X jobs[j].held

-----------------------------------------------------------------------------
(***************************************************************************)
(* The snapshot repository (backend/procurement_raw.py).                   *)
(***************************************************************************)

\* load_fresh_plan_bundle, load_fresh_notice_bundle: the freshest response of
\* each part, complete when all of them succeeded.
CompleteOnRecord(r) == \A p \in Parts : raw[r][p].newest = "ok"
Cached(o) == {c \in fresh[o] : CompleteOnRecord(<<o, c>>)}

\* save_bundle: a response identical to one on record is not inserted again
\* (ON CONFLICT DO NOTHING), and keeps its old retrieved_at.
NewParts(o, c, answer) == {p \in Parts : answer[c][p] \notin raw[<<o, c>>][p].seen}
Inserted(o, answer) == {c \in DOMAIN answer : NewParts(o, c, answer) # {}}

SaveBundle(o, answer) ==
  /\ raw' = [r \in Rows |-> [p \in Parts |->
       IF /\ r[1] = o /\ r[2] \in DOMAIN answer
          /\ answer[r[2]][p] \notin raw[r][p].seen
       THEN [seen |-> raw[r][p].seen \cup {answer[r[2]][p]}, newest |-> answer[r[2]][p]]
       ELSE raw[r][p]]]
  /\ fresh' = [fresh EXCEPT ![o] =
       @ \cup {c \in DOMAIN answer : NewParts(o, c, answer) = Parts}]

AllOk(C) == [c \in C |-> [p \in Parts |-> "ok"]]

-----------------------------------------------------------------------------
(***************************************************************************)
(* The steps of a request.                                                 *)
(***************************************************************************)

\* The cache is read before the reservation transaction begins.  When every
\* requested revision is cached the request is served without a reservation.
PlanLookup(j, o, requested, persist) ==
  /\ jobs[j].step = "new"
  /\ requested # {}
  /\ jobs' = [jobs EXCEPT ![j] =
       [step |-> IF requested \subseteq Cached(o) THEN "done" ELSE "planned",
        owner |-> o, requested |-> requested, persist |-> persist,
        existing |-> requested \cap Cached(o), fetch |-> {}, held |-> {}]]
  /\ UNCHANGED <<creditVars, raw, fresh>>

\* _reserve_procurement_usage commits its own transaction.  Rows reserved by
\* another request that is still running are returned to this one as well.
ReserveUsage(j, policy) ==
  LET o == jobs[j].owner
      batch == jobs[j].requested \ jobs[j].existing
      returned == {c \in batch : reservations'[<<o, c>>].state \in {"reserved", "consumed"}}
  IN /\ jobs[j].step = "planned"
     /\ Reserve(o, batch, policy)
     /\ returned \cup jobs[j].existing # {}
     /\ jobs' = [jobs EXCEPT ![j].step = "reserved", ![j].fetch = returned,
          ![j].held = {c \in returned : reservations'[<<o, c>>].state = "reserved"}]
     /\ UNCHANGED <<raw, fresh>>

\* The reservation transaction rolls back: the policy or the balance refuses
\* the batch, there is no effective release, or the database aborts it (two
\* requests that insert the same row at once).
RefuseUsage(j) ==
  /\ jobs[j].step = "planned"
  /\ GoTo(j, "refused")
  /\ UNCHANGED <<creditVars, raw, fresh>>

\* The portal answers with a complete bundle, with an incomplete one, or not
\* at all; reading or merging the cached revisions may fail as well.
Fetch(j, outcome) ==
  /\ jobs[j].step = "reserved"
  /\ GoTo(j, outcome)
  /\ UNCHANGED <<creditVars, raw, fresh>>

\* A complete bundle with new rows: saved and charged in one transaction.
\* The responses shared by all revisions (search, version list) may be new
\* when those of the revisions are not.
SaveAndCharge(j) ==
  /\ jobs[j].step = "complete"
  /\ jobs[j].fetch # {}
  /\ SaveBundle(jobs[j].owner, AllOk(jobs[j].fetch))
  /\ Consume(HeldRows(j))
  /\ GoTo(j, "done")

\* A complete bundle without new rows: the reservations are given back in
\* the same transaction.
SaveDuplicate(j) ==
  /\ jobs[j].step = "complete"
  /\ Inserted(jobs[j].owner, AllOk(jobs[j].fetch)) = {}
  /\ Release(HeldRows(j))
  /\ GoTo(j, "done")
  /\ UNCHANGED <<raw, fresh>>

\* Mutant: the debit commits although the snapshot is rolled back.
SaveFailsAfterDebit(j) ==
  /\ jobs[j].step = "complete"
  /\ Consume(HeldRows(j))
  /\ GoTo(j, "saveFailed")
  /\ UNCHANGED <<raw, fresh>>

\* The save or the debit raises (a reservation was released meanwhile): the
\* snapshot is rolled back, and a second transaction releases what is left.
SaveFails(j) ==
  /\ jobs[j].step = "complete"
  /\ GoTo(j, "saveFailed")
  /\ UNCHANGED <<creditVars, raw, fresh>>

\* Mutant: import saves an incomplete bundle as well.
SavePartialAlways(j) ==
  /\ jobs[j].step = "partial"
  /\ \E answer \in [jobs[j].fetch -> [Parts -> Answers]] :
       answer # AllOk(jobs[j].fetch) /\ SaveBundle(jobs[j].owner, answer)
  /\ Release(HeldRows(j))
  /\ GoTo(j, "done")

\* An incomplete bundle is saved by lookup, and never charged.
SavePartial(j) ==
  /\ jobs[j].step = "partial"
  /\ jobs[j].persist
  /\ \E answer \in [jobs[j].fetch -> [Parts -> Answers]] :
       answer # AllOk(jobs[j].fetch) /\ SaveBundle(jobs[j].owner, answer)
  /\ Release(HeldRows(j))
  /\ GoTo(j, "done")

\* _finish_procurement_usage(consume=False) in a transaction of its own.
GiveBack(j) ==
  /\ \/ jobs[j].step \in {"failed", "saveFailed"}
     \/ jobs[j].step = "partial" /\ ~jobs[j].persist
  /\ Release(HeldRows(j))
  /\ GoTo(j, IF jobs[j].step = "partial" THEN "done" ELSE "error")
  /\ UNCHANGED <<raw, fresh>>

\* The server process dies: the lease is all that remains of the request.
Die(j) ==
  /\ jobs[j].step \in {"planned", "reserved", "complete", "partial", "failed", "saveFailed"}
  /\ GoTo(j, "dead")
  /\ UNCHANGED <<creditVars, raw, fresh>>

\* The responses of a revision pass raw_cache_ttl_seconds.
GoStale(o, c) ==
  /\ c \in fresh[o]
  /\ fresh' = [fresh EXCEPT ![o] = @ \ {c}]
  /\ UNCHANGED <<creditVars, jobs, raw>>

-----------------------------------------------------------------------------
\* The other transactions of the store; a grant is issued by the billing side.
SweepLeases == ReleaseExpired /\ UNCHANGED <<jobs, raw, fresh>>
ClockTicks == Tick /\ UNCHANGED <<jobs, raw, fresh>>
IssueGrant ==
  /\ \E g \in Grants, o \in Owners, q \in 1..MaxQuantity, t \in 2..(MaxTime + 1) :
       Grant(g, o, q, t)
  /\ UNCHANGED <<jobs, raw, fresh>>

\* What a request does apart from reserving.
LookupStep(j) ==
  \/ RefuseUsage(j)
  \/ \E outcome \in {"complete", "partial", "failed"} : Fetch(j, outcome)
  \/ SaveAndCharge(j) \/ SaveDuplicate(j) \/ SaveFails(j) \/ SavePartial(j)
  \/ GiveBack(j) \/ Die(j)

LookupNext ==
  \/ \E j \in Jobs, o \in Owners, R \in SUBSET Candidates, persist \in BOOLEAN :
       PlanLookup(j, o, R, persist)
  \/ \E j \in Jobs, policy \in PartialBatchPolicies : ReserveUsage(j, policy)
  \/ \E j \in Jobs : LookupStep(j)
  \/ \E o \in Owners, c \in Candidates : GoStale(o, c)
  \/ SweepLeases \/ ClockTicks \/ IssueGrant

LookupSpec == LookupInit /\ [][LookupNext]_lookupVars

-----------------------------------------------------------------------------
\* A revision is charged only if its whole content is on record: the debit and
\* the snapshot commit or roll back together, also when another request shares
\* or loses the reservation (routes.py:240-263).
ChargedOnlyIfSaved ==
  \A r \in Rows : reservations[r].state = "consumed"
                    => \A p \in Parts : "ok" \in raw[r][p].seen

\* What the cache serves without a reservation has been charged once: asked of
\* every request (routes.py:379-395).
ServedRevisionIsCharged ==
  \A o \in Owners : \A c \in Cached(o) : reservations[<<o, c>>].state = "consumed"

\* It holds as long as every request is an import, however their saves, debits
\* and lost leases interleave (routes.py:240-263, 379-395).
ImportsServeOnlyCharged ==
  (\A j \in Jobs : ~jobs[j].persist) => ServedRevisionIsCharged

\* A credit held for a request that died or hangs comes back: a reservation is
\* settled or swept once its lease is over (service.py:314-326,
\* worker.py:174-187).
ReservationsAreSettled ==
  \A r \in Rows : (reservations[r].state = "reserved") ~> (reservations[r].state # "reserved")

=============================================================================
