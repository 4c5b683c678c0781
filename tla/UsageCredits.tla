---------------------------- MODULE UsageCredits ----------------------------
(***************************************************************************)
(* The procurement usage-credit store of backend/usage_credits/service.py: *)
(* credit grants, source-revision reservations and the append-only ledger. *)
(*                                                                         *)
(* Every action is one database transaction.  The service locks the        *)
(* reservation row, then the grant rows, before it changes a counter, so a *)
(* transaction is atomic with respect to the other ones; what is           *)
(* interleaved is the transactions themselves.                             *)
(*                                                                         *)
(* A candidate is a source revision of one procurement code.  Revisions    *)
(* are numbers and a batch is processed in ascending order (the "stable    *)
(* order" of the policy).  A reservation row exists at most once for each  *)
(* owner and candidate (uq_usage_reservation_identity) and is reused by    *)
(* later jobs, so rows are indexed by that pair.  job_key is stored and    *)
(* never compared by the code: it is left out.                             *)
(***************************************************************************)
EXTENDS Naturals, FiniteSets

CONSTANTS
  Owners,         \* accounts and organizations that own credits
  Candidates,     \* source revisions, by revision number
  Grants,         \* identifiers of credit grants
  MaxQuantity,    \* bound: largest quantity of one grant
  LeaseSeconds,   \* lifetime of a reservation that is not settled
  MaxTime,        \* bound: last instant of the clock
  NoOwner,        \* owner of a grant that is not issued yet
  NoGrant         \* grant of a reservation row that does not exist yet

ASSUME ConstantsAssumption ==
  /\ Candidates \subseteq Nat /\ IsFiniteSet(Candidates)
  /\ IsFiniteSet(Owners) /\ NoOwner \notin Owners
  /\ Grants \subseteq Nat /\ IsFiniteSet(Grants) /\ NoGrant \notin Grants
  /\ MaxQuantity \in Nat /\ LeaseSeconds \in Nat \ {0} /\ MaxTime \in Nat

VARIABLES
  now,            \* the clock of the service
  grants,         \* usage_credit_grants
  reservations,   \* usage_reservations
  ledger          \* usage_ledger: how many entries of each type a grant has

creditVars == <<now, grants, reservations, ledger>>

Rows == Owners \X Candidates
ReservationStates == {"absent", "reserved", "consumed", "released"}
EntryTypes == {"grant", "reserve", "consume", "release"}
PartialBatchPolicies ==
  {"blocked_decision", "reject_all", "process_affordable_in_stable_order"}

GrantRow ==
  [owner: Owners \cup {NoOwner}, total: Nat, remaining: Nat, reserved: Nat,
   issuedAt: Nat, expiresAt: Nat]
ReservationRow ==
  [state: ReservationStates, grant: Grants \cup {NoGrant}, lease: Nat]

UsageTypeOK ==
  /\ now \in Nat
  /\ grants \in [Grants -> GrantRow]
  /\ reservations \in [Rows -> ReservationRow]
  /\ ledger \in [Grants -> [EntryTypes -> Nat]]

Init ==
  /\ now = 1
  /\ grants = [g \in Grants |->
       [owner |-> NoOwner, total |-> 0, remaining |-> 0, reserved |-> 0,
        issuedAt |-> 0, expiresAt |-> 0]]
  /\ reservations = [r \in Rows |->
       [state |-> "absent", grant |-> NoGrant, lease |-> 0]]
  /\ ledger = [g \in Grants |-> [e \in EntryTypes |-> 0]]

-----------------------------------------------------------------------------
(***************************************************************************)
(* Reading the tables.                                                     *)
(***************************************************************************)

Lesser(m, n) == IF m <= n THEN m ELSE n

\* The credits of a grant that no reservation holds.
Free(g) == grants[g].remaining - grants[g].reserved

\* Mutant: the owner clause of the query is missing.
AvailableGrantsOfAnyOwner(o) ==
  {g \in Grants : /\ grants[g].owner # NoOwner
                  /\ grants[g].expiresAt > now
                  /\ grants[g].remaining > grants[g].reserved}

\* _lock_available_grants: the owner's unexpired grants with room.
AvailableGrants(o) ==
  {g \in Grants : /\ grants[g].owner = o
                  /\ grants[g].expiresAt > now
                  /\ grants[g].remaining > grants[g].reserved}

\* ORDER BY expires_at, issued_at, id: first expired, first out.
ExpiresBefore(g, h) ==
  \/ grants[g].expiresAt < grants[h].expiresAt
  \/ /\ grants[g].expiresAt = grants[h].expiresAt
     /\ \/ grants[g].issuedAt < grants[h].issuedAt
        \/ grants[g].issuedAt = grants[h].issuedAt /\ g < h

\* The free credits of a set of grants, one pair for each credit.
Credits(G) == {p \in G \X (1..MaxQuantity) : p[2] <= Free(p[1])}

\* Mutant: a consumed row is reserved again.
PendingOrConsumedOf(o, batch) ==
  {c \in batch : reservations[<<o, c>>].state # "reserved"}

\* The rows of owner o for a batch that are neither reserved nor consumed.
PendingOf(o, batch) ==
  {c \in batch : reservations[<<o, c>>].state \notin {"reserved", "consumed"}}

\* The place of a candidate in the stable order of a batch.
PlaceIn(batch, c) == Cardinality({d \in batch : d <= c})

\* The pending candidates that a batch reserves under a policy.
AcceptedOf(o, batch, policy) ==
  LET pending == PendingOf(o, batch)
      available == Cardinality(Credits(AvailableGrants(o)))
  IN IF policy = "process_affordable_in_stable_order"
     THEN {c \in pending : PlaceIn(pending, c) <= available}
     ELSE pending

\* Whether reserve_source_fetch_batch raises instead of reserving.
BatchRefused(o, batch, policy) ==
  \/ policy = "blocked_decision" /\ Cardinality(batch) > 1
  \/ /\ policy \in {"blocked_decision", "reject_all"}
     /\ Cardinality(Credits(AvailableGrants(o))) < Cardinality(PendingOf(o, batch))

\* Mutant: the whole batch is charged to the grant that expires first.
IsAllocationToFirst(alloc, o, accepted) ==
  \A c \in accepted : \A h \in AvailableGrants(o) : ~ExpiresBefore(h, alloc[c])

\* The grants are used up one after the other, in the order of their expiry:
\* the candidate in place i takes the i-th free credit.
IsAllocation(alloc, o, accepted) ==
  \A c \in accepted :
    LET g == alloc[c]
        before == Cardinality(Credits({h \in AvailableGrants(o) : ExpiresBefore(h, g)}))
    IN /\ before < PlaceIn(accepted, c)
       /\ PlaceIn(accepted, c) <= before + Free(g)

\* The reserved rows of a set S that are charged to grant g.
HeldOn(S, g) ==
  {r \in S : reservations[r].state = "reserved" /\ reservations[r].grant = g}

-----------------------------------------------------------------------------
(***************************************************************************)
(* The operations of UsageCreditService.                                   *)
(***************************************************************************)

\* grant: a plan, a purchased credit pack or an administrator adds credits.
Grant(g, o, quantity, expiresAt) ==
  /\ grants[g].owner = NoOwner
  /\ quantity > 0 /\ expiresAt > now
  /\ grants' = [grants EXCEPT ![g] =
       [owner |-> o, total |-> quantity, remaining |-> quantity, reserved |-> 0,
        issuedAt |-> now, expiresAt |-> expiresAt]]
  /\ ledger' = [ledger EXCEPT ![g]["grant"] = @ + 1]
  /\ UNCHANGED <<now, reservations>>

\* reserve_source_fetch_batch: rows already reserved or consumed are returned
\* as they are; the others take one credit each and start a lease.
Reserve(o, batch, policy) ==
  LET accepted == AcceptedOf(o, batch, policy) IN
  /\ batch # {}
  /\ ~BatchRefused(o, batch, policy)
  /\ \E alloc \in [accepted -> AvailableGrants(o)] :
       LET taken(g) == Cardinality({c \in accepted : alloc[c] = g}) IN
       /\ IsAllocation(alloc, o, accepted)
       /\ grants' = [g \in Grants |->
            [grants[g] EXCEPT !.reserved = @ + taken(g)]]
       /\ reservations' = [r \in Rows |->
            IF r[1] = o /\ r[2] \in accepted
            THEN [state |-> "reserved", grant |-> alloc[r[2]],
                  lease |-> now + LeaseSeconds]
            ELSE reservations[r]]
       /\ ledger' = [g \in Grants |->
            [ledger[g] EXCEPT !["reserve"] = @ + taken(g)]]
  /\ UNCHANGED now

\* consume_reservation_item for each row of a set, in one transaction: one
\* released row fails them all; a row that is consumed stays as it is.  The
\* counters are guarded by "remaining > 0 AND reserved > 0" and the row count
\* of that update is not checked.
ConsumeRefused(S) == \E r \in S : reservations[r].state \notin {"reserved", "consumed"}

Consume(S) ==
  LET debit(g) == Lesser(Cardinality(HeldOn(S, g)),
                         Lesser(grants[g].remaining, grants[g].reserved)) IN
  /\ ~ConsumeRefused(S)
  /\ reservations' = [r \in Rows |->
       IF r \in S /\ reservations[r].state = "reserved"
       THEN [reservations[r] EXCEPT !.state = "consumed"]
       ELSE reservations[r]]
  /\ grants' = [g \in Grants |->
       [grants[g] EXCEPT !.remaining = @ - debit(g), !.reserved = @ - debit(g)]]
  /\ ledger' = [g \in Grants |->
       [ledger[g] EXCEPT !["consume"] = @ + Cardinality(HeldOn(S, g))]]
  /\ UNCHANGED now

\* Mutant: the row keeps its state, so it is released again.
ReleaseWithoutMark(S) ==
  /\ grants' = [g \in Grants |-> [grants[g] EXCEPT
       !.reserved = @ - Lesser(Cardinality(HeldOn(S, g)), grants[g].reserved)]]
  /\ UNCHANGED <<now, reservations, ledger>>

\* Mutant: the release is not entered in the ledger.
ReleaseUnrecorded(S) ==
  /\ reservations' = [r \in Rows |->
       IF r \in S /\ reservations[r].state = "reserved"
       THEN [reservations[r] EXCEPT !.state = "released"]
       ELSE reservations[r]]
  /\ grants' = [g \in Grants |->
       [grants[g] EXCEPT !.reserved = @ - Cardinality(HeldOn(S, g))]]
  /\ UNCHANGED <<now, ledger>>

\* release_reservation_item for each row of a set: rows that are not reserved
\* are left alone.
Release(S) ==
  LET credit(g) == Lesser(Cardinality(HeldOn(S, g)), grants[g].reserved) IN
  /\ reservations' = [r \in Rows |->
       IF r \in S /\ reservations[r].state = "reserved"
       THEN [reservations[r] EXCEPT !.state = "released"]
       ELSE reservations[r]]
  /\ grants' = [g \in Grants |-> [grants[g] EXCEPT !.reserved = @ - credit(g)]]
  /\ ledger' = [g \in Grants |->
       [ledger[g] EXCEPT !["release"] = @ + Cardinality(HeldOn(S, g))]]
  /\ UNCHANGED now

\* release_expired_reservations: the worker's sweep.  SKIP LOCKED passes over
\* rows that another transaction holds, so any nonempty part may be swept.
ExpiredRows ==
  {r \in Rows : reservations[r].state = "reserved" /\ reservations[r].lease <= now}

ReleaseExpired ==
  \E S \in SUBSET ExpiredRows : S # {} /\ Release(S)

\* The clock.
Tick ==
  /\ now < MaxTime
  /\ now' = now + 1
  /\ UNCHANGED <<grants, reservations, ledger>>

Next ==
  \/ \E g \in Grants, o \in Owners, q \in 1..MaxQuantity, t \in 2..(MaxTime + 1) :
       Grant(g, o, q, t)
  \/ \E o \in Owners, batch \in SUBSET Candidates, policy \in PartialBatchPolicies :
       Reserve(o, batch, policy)
  \/ \E S \in SUBSET Rows : S # {} /\ Consume(S)
  \/ \E S \in SUBSET Rows : S # {} /\ Release(S)
  \/ ReleaseExpired
  \/ Tick

Spec == Init /\ [][Next]_creditVars

-----------------------------------------------------------------------------
(***************************************************************************)
(* What the counters mean.                                                 *)
(***************************************************************************)

RowsOn(g, state) ==
  {r \in Rows : reservations[r].state = state /\ reservations[r].grant = g}

\* A grant's reserved counter is the number of reservations that hold one of
\* its credits, and the credits it has lost are the revisions charged to it:
\* no interleaving of batches, retries, late settlements and lease sweeps
\* loses a credit, frees one twice or charges a revision twice
\* (service.py:200-204, 275-280, 301-306).
CountersMatchRows ==
  \A g \in Grants :
    /\ grants[g].reserved = Cardinality(RowsOn(g, "reserved"))
    /\ grants[g].remaining + Cardinality(RowsOn(g, "consumed")) = grants[g].total

\* The ledger alone explains the counters: the entries written by every
\* operation add up to the balances the grant rows hold (service.py:387-397).
LedgerExplainsCounters ==
  \A g \in Grants :
    /\ ledger[g]["reserve"] =
         ledger[g]["consume"] + ledger[g]["release"] + grants[g].reserved
    /\ grants[g].total = ledger[g]["consume"] + grants[g].remaining
    /\ ledger[g]["grant"] = IF grants[g].owner = NoOwner THEN 0 ELSE 1

\* A grant never holds more reservations than credits, although a batch takes
\* credits from several grants and checks only their sum (schema.py:2376-2377
\* would abort the transaction otherwise; service.py:176-199).
NoOverReservation ==
  \A g \in Grants : grants[g].reserved <= grants[g].remaining

\* A reservation is charged to a grant of the same owner: credits never move
\* between an account and an organization (service.py:328-338).
ChargedToOwnGrant ==
  \A r \in Rows : reservations[r].state # "absent" =>
    /\ reservations[r].grant \in Grants
    /\ grants[reservations[r].grant].owner = r[1]

\* A charged revision stays charged, to the same grant: neither a retry of the
\* batch nor a late release reopens it (service.py:171-172, 256-257, 292-293).
ConsumedIsFinal ==
  [][\A r \in Rows : reservations[r].state = "consumed"
                       => reservations'[r] = reservations[r]]_creditVars

=============================================================================
