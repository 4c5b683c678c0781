----------------------------- MODULE MCCredits ------------------------------
(***************************************************************************)
(* The credit store under three kinds of load, one to a behaviour: its     *)
(* transactions in every order, whoever calls, for two owners; two imports *)
(* of two revisions; two requests of one revision, lookups or imports,     *)
(* whose parts fail one by one.                                            *)
(***************************************************************************)
EXTENDS ProcurementLookup

CONSTANTS
  MaxReserves,   \* bound: reserve entries of one grant in the "store" load
  StoreTime      \* bound: last instant of the clock in the "store" load

VARIABLE load

loadVars == <<lookupVars, load>>

First == CHOOSE o \in Owners : TRUE
SomeGrant == CHOOSE g \in Grants : TRUE

BoundedReserve(o, batch, policy) ==
  Reserve(o, batch, policy) /\ \A g \in Grants : ledger'[g]["reserve"] <= MaxReserves

\* Every caller commits its snapshot with the debit.
SaveAndConsume(S) ==
  /\ Consume(S)
  /\ raw' = [r \in Rows |-> IF r \notin S THEN raw[r]
                              ELSE [p \in Parts |-> [seen |-> {"ok"}, newest |-> "ok"]]]

StoreNext ==
  /\ \/ \E S \in SUBSET Rows : S # {} /\ SaveAndConsume(S)
     \/ /\ UNCHANGED raw
        /\ \/ \E g \in Grants, o \in Owners, q \in 1..MaxQuantity, t \in 2..(StoreTime + 1) :
                Grant(g, o, q, t)
           \/ \E o \in Owners, batch \in SUBSET Candidates, policy \in PartialBatchPolicies :
                BoundedReserve(o, batch, policy)
           \/ \E S \in SUBSET Rows : S # {} /\ Release(S)
           \/ ReleaseExpired
           \/ now < StoreTime /\ Tick
  /\ UNCHANGED <<jobs, fresh>>

\* Bound: no reservation is made too late for its lease to end within MaxTime.
ReserveInTime(j, policy) ==
  ReserveUsage(j, policy) /\ \A r \in Rows : reservations'[r].lease <= MaxTime

PlanOfLoad(j) ==
  \/ load = "import" /\ \E R \in SUBSET Candidates : PlanLookup(j, First, R, FALSE)
  \/ load = "lookup" /\ \E persist \in BOOLEAN : PlanLookup(j, First, {1}, persist)

RequestNext ==
  \/ \E j \in Jobs : PlanOfLoad(j) \/ LookupStep(j)
  \/ \E j \in Jobs, policy \in PartialBatchPolicies : ReserveInTime(j, policy)
  \/ \E c \in Candidates : GoStale(First, c)
  \/ SweepLeases \/ ClockTicks
  \/ IssueGrant /\ grants'[SomeGrant].owner = First /\ \A g \in Grants \ {SomeGrant} :
                                                        grants'[g] = grants[g]

LoadNext ==
  /\ UNCHANGED load
  /\ \/ load = "store" /\ StoreNext
     \/ load # "store" /\ RequestNext

LoadInit == LookupInit /\ load \in {"store", "import", "lookup"}
LoadSpec == LoadInit /\ [][LoadNext]_loadVars

\* The worker sweeps again and again (run_billing_worker never stops) and time
\* passes; nothing is assumed of a request, which may die at any step.
LoadFairSpec ==
  /\ LoadSpec
  /\ WF_loadVars(load # "store" /\ SweepLeases /\ UNCHANGED load)
  /\ WF_loadVars(load # "store" /\ ClockTicks /\ UNCHANGED load)

\* A credit held for a request that died or hangs comes back, whatever the
\* other requests and the sweeps do (service.py:314-326, worker.py:174-187).
RequestsAreSettled == load # "store" => ReservationsAreSettled
=============================================================================
