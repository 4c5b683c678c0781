------------------------- MODULE UsageCreditsProofs -------------------------
(***************************************************************************)
(* Proofs that the credit store keeps its books, for any number of owners, *)
(* revisions and grants, any quantities and any lease; and that the requests *)
(* that look up or import a procurement code, any number of them, use the  *)
(* store only as it allows: nothing is charged that is not on record, and  *)
(* as long as all requests are imports, nothing is served from the cache   *)
(* that was not charged.                                                   *)
(***************************************************************************)
EXTENDS ProcurementLookup, FiniteSetTheorems, TLAPS

-----------------------------------------------------------------------------
(***************************************************************************)
(* Counting.                                                               *)
(***************************************************************************)

\* There are finitely many reservation rows, so any selection of them has a
\* cardinality that is a natural number.
LEMMA RowsAreFinite ==
  /\ IsFiniteSet(Rows)
  /\ \A S \in SUBSET Rows : IsFiniteSet(S) /\ Cardinality(S) \in Nat
<1>1. IsFiniteSet(Rows)
  BY FS_Product, ConstantsAssumption DEF Rows, ConstantsAssumption
<1>2. QED  BY <1>1, FS_Subset, FS_CardinalityType

\* The same for the revisions of a batch.
LEMMA BatchesAreFinite ==
  \A B \in SUBSET Candidates : IsFiniteSet(B) /\ Cardinality(B) \in Nat
BY FS_Subset, FS_CardinalityType, ConstantsAssumption DEF ConstantsAssumption

\* Moving part of a set elsewhere lowers its cardinality by that part.
LEMMA CardinalityOfRest ==
  ASSUME NEW S, NEW T \in SUBSET S, IsFiniteSet(S)
  PROVE  /\ IsFiniteSet(T) /\ Cardinality(T) \in Nat /\ Cardinality(S) \in Nat
         /\ Cardinality(T) <= Cardinality(S)
         /\ Cardinality(S \ T) = Cardinality(S) - Cardinality(T)
<1>1. IsFiniteSet(T) /\ Cardinality(T) <= Cardinality(S)
  BY FS_Subset
<1>2. Cardinality(T) \in Nat /\ Cardinality(S) \in Nat
  BY <1>1, FS_CardinalityType
<1>3. Cardinality(S \ T) = Cardinality(S) - Cardinality(S \cap T)
  BY FS_Difference
<1>4. S \cap T = T  OBVIOUS
<1>5. QED  BY <1>1, <1>2, <1>3, <1>4

\* The cardinality of a disjoint union is the sum of the cardinalities.
LEMMA CardinalityOfDisjointUnion ==
  ASSUME NEW S, NEW T, IsFiniteSet(S), IsFiniteSet(T), S \cap T = {}
  PROVE  Cardinality(S \cup T) = Cardinality(S) + Cardinality(T)
<1>1. Cardinality(S \cup T) = Cardinality(S) + Cardinality(T) - Cardinality(S \cap T)
  BY FS_Union
<1>2. Cardinality(S \cap T) = 0
  BY FS_EmptySet
<1>3. Cardinality(S) \in Nat /\ Cardinality(T) \in Nat
  BY FS_CardinalityType
<1>4. QED  BY <1>1, <1>2, <1>3

\* One owner's rows for a set of revisions are as many as the revisions.
LEMMA RowsOfOneOwner ==
  ASSUME NEW o, NEW B, IsFiniteSet(B)
  PROVE  IsFiniteSet({o} \X B) /\ Cardinality({o} \X B) = Cardinality(B)
<1>1. IsFiniteSet({o}) /\ Cardinality({o}) = 1
  BY FS_Singleton
<1>2. IsFiniteSet({o} \X B) /\ Cardinality({o} \X B) = Cardinality({o}) * Cardinality(B)
  BY <1>1, FS_Product
<1>3. Cardinality(B) \in Nat
  BY FS_CardinalityType
<1>4. QED  BY <1>1, <1>2, <1>3

-----------------------------------------------------------------------------
(***************************************************************************)
(* Type correctness.                                                       *)
(***************************************************************************)

\* The rows of a set that hold a credit of a grant can be counted, and Lesser
\* picks one of two numbers.
LEMMA HeldRowsCount ==
  ASSUME NEW S \in SUBSET Rows, NEW g \in Grants
  PROVE  HeldOn(S, g) \in SUBSET Rows /\ Cardinality(HeldOn(S, g)) \in Nat
BY RowsAreFinite DEF HeldOn

\* Settlement takes the lesser of the counter and the rows.
LEMMA LesserType ==
  ASSUME NEW m \in Nat, NEW n \in Nat
  PROVE  /\ Lesser(m, n) \in Nat /\ Lesser(m, n) <= m /\ Lesser(m, n) <= n
         /\ m <= n => Lesser(m, n) = m
BY DEF Lesser

\* A release keeps the types, whatever rows it is called with.
LEMMA ReleaseType ==
  ASSUME UsageTypeOK, NEW S \in SUBSET Rows, Release(S)
  PROVE  UsageTypeOK'
<1>1. reservations' \in [Rows -> ReservationRow]
  <2>1. \A row \in ReservationRow : [row EXCEPT !.state = "released"] \in ReservationRow
    BY DEF ReservationRow, ReservationStates
  <2>2. QED  BY <2>1 DEF Release, UsageTypeOK
<1>2. ASSUME NEW g \in Grants
      PROVE  /\ grants'[g] \in GrantRow
             /\ ledger'[g] \in [EntryTypes -> Nat]
  <2>1. Cardinality(HeldOn(S, g)) \in Nat
    BY HeldRowsCount
  <2>2. grants[g] \in GrantRow /\ grants[g].reserved \in Nat
    BY DEF UsageTypeOK, GrantRow
  <2>3. PICK k \in Nat : k <= grants[g].reserved
                        /\ grants'[g] = [grants[g] EXCEPT !.reserved = @ - k]
    BY <2>1, <2>2, LesserType DEF Release
  <2>4. grants'[g] \in GrantRow
    BY <2>2, <2>3 DEF GrantRow
  <2>5. ledger'[g] \in [EntryTypes -> Nat]
    BY <2>1 DEF Release, UsageTypeOK, EntryTypes
  <2>6. QED  BY <2>4, <2>5
<1>3. grants' \in [Grants -> GrantRow] /\ ledger' \in [Grants -> [EntryTypes -> Nat]]
  BY <1>2 DEF Release
<1>4. QED  BY <1>1, <1>3 DEF Release, UsageTypeOK

\* A debit keeps the types: no counter goes below zero.
LEMMA ConsumeType ==
  ASSUME UsageTypeOK, NEW S \in SUBSET Rows, Consume(S)
  PROVE  UsageTypeOK'
<1>1. reservations' \in [Rows -> ReservationRow]
  <2>1. \A row \in ReservationRow : [row EXCEPT !.state = "consumed"] \in ReservationRow
    BY DEF ReservationRow, ReservationStates
  <2>2. QED  BY <2>1 DEF Consume, UsageTypeOK
<1>2. ASSUME NEW g \in Grants
      PROVE  /\ grants'[g] \in GrantRow
             /\ ledger'[g] \in [EntryTypes -> Nat]
  <2>1. Cardinality(HeldOn(S, g)) \in Nat
    BY HeldRowsCount
  <2>2. /\ grants[g] \in GrantRow
        /\ grants[g].reserved \in Nat /\ grants[g].remaining \in Nat
    BY DEF UsageTypeOK, GrantRow
  <2> DEFINE k == Lesser(Cardinality(HeldOn(S, g)),
                        Lesser(grants[g].remaining, grants[g].reserved))
  <2>3. k \in Nat /\ k <= grants[g].reserved /\ k <= grants[g].remaining
    <3>1. /\ Lesser(grants[g].remaining, grants[g].reserved) \in Nat
          /\ Lesser(grants[g].remaining, grants[g].reserved) <= grants[g].remaining
          /\ Lesser(grants[g].remaining, grants[g].reserved) <= grants[g].reserved
      BY <2>2, LesserType
    <3>2. /\ k \in Nat
          /\ k <= Lesser(grants[g].remaining, grants[g].reserved)
      BY <2>1, <3>1, LesserType
    <3> HIDE DEF k
    <3>3. QED  BY <2>2, <3>1, <3>2
  <2>4. grants'[g] \in GrantRow
    <3>1. grants'[g] = [grants[g] EXCEPT !.remaining = @ - k, !.reserved = @ - k]
      BY DEF Consume
    <3> HIDE DEF k
    <3>2. grants[g].remaining - k \in Nat /\ grants[g].reserved - k \in Nat
      BY <2>2, <2>3
    <3>3. QED  BY <2>2, <3>1, <3>2 DEF GrantRow
  <2>5. ledger'[g] \in [EntryTypes -> Nat]
    <3>1. ledger'[g] = [ledger[g] EXCEPT !["consume"] = @ + Cardinality(HeldOn(S, g))]
      BY DEF Consume
    <3>2. ledger[g] \in [EntryTypes -> Nat] /\ "consume" \in EntryTypes
      BY DEF UsageTypeOK, EntryTypes
    <3>3. QED  BY <2>1, <3>1, <3>2
  <2>6. QED  BY <2>4, <2>5
<1>3. grants' \in [Grants -> GrantRow] /\ ledger' \in [Grants -> [EntryTypes -> Nat]]
  BY <1>2 DEF Consume
<1>4. QED  BY <1>1, <1>3 DEF Consume, UsageTypeOK

\* What a batch reserves are candidates of the batch.
LEMMA AcceptedArePending ==
  ASSUME NEW o \in Owners, NEW batch \in SUBSET Candidates, NEW policy
  PROVE  /\ AcceptedOf(o, batch, policy) \in SUBSET Candidates
         /\ AcceptedOf(o, batch, policy) \subseteq PendingOf(o, batch)
BY DEF AcceptedOf, PendingOf

\* A batch keeps the types.
LEMMA ReserveType ==
  ASSUME UsageTypeOK, NEW o \in Owners, NEW batch \in SUBSET Candidates, NEW policy,
         Reserve(o, batch, policy)
  PROVE  UsageTypeOK'
<1> DEFINE accepted == AcceptedOf(o, batch, policy)
<1>1. accepted \in SUBSET Candidates
  BY AcceptedArePending
<1> HIDE DEF accepted
<1>2. PICK alloc \in [accepted -> AvailableGrants(o)] :
        /\ grants' = [g \in Grants |-> [grants[g] EXCEPT
             !.reserved = @ + Cardinality({c \in accepted : alloc[c] = g})]]
        /\ reservations' = [r \in Rows |->
             IF r[1] = o /\ r[2] \in accepted
             THEN [state |-> "reserved", grant |-> alloc[r[2]],
                   lease |-> now + LeaseSeconds]
             ELSE reservations[r]]
        /\ ledger' = [g \in Grants |-> [ledger[g] EXCEPT
             !["reserve"] = @ + Cardinality({c \in accepted : alloc[c] = g})]]
  BY DEF Reserve, accepted
<1>3. ASSUME NEW g \in Grants
      PROVE  grants'[g] \in GrantRow /\ ledger'[g] \in [EntryTypes -> Nat]
  <2>1. Cardinality({c \in accepted : alloc[c] = g}) \in Nat
    BY <1>1, BatchesAreFinite
  <2>2. grants'[g] \in GrantRow
    <3> DEFINE n == Cardinality({c \in accepted : alloc[c] = g})
    <3>1. grants'[g] = [grants[g] EXCEPT !.reserved = @ + n]
      BY <1>2
    <3>2. grants[g] \in GrantRow
      BY DEF UsageTypeOK
    <3> HIDE DEF n
    <3>3. n \in Nat
      BY <2>1 DEF n
    <3>4. QED  BY <3>1, <3>2, <3>3 DEF GrantRow
  <2>3. ledger'[g] \in [EntryTypes -> Nat]
    <3>1. ledger[g] \in [EntryTypes -> Nat] /\ "reserve" \in EntryTypes
      BY DEF UsageTypeOK, EntryTypes
    <3>2. QED  BY <1>2, <2>1, <3>1
  <2>4. QED  BY <2>2, <2>3
<1>4. ASSUME NEW r \in Rows
      PROVE  reservations'[r] \in ReservationRow
  <2>1. CASE r[1] = o /\ r[2] \in accepted
    <3>1. alloc[r[2]] \in Grants
      BY <1>2, <2>1 DEF AvailableGrants
    <3>2. now + LeaseSeconds \in Nat
      BY ConstantsAssumption DEF ConstantsAssumption, UsageTypeOK
    <3>3. QED  BY <1>2, <2>1, <3>1, <3>2 DEF ReservationRow, ReservationStates
  <2>2. CASE ~(r[1] = o /\ r[2] \in accepted)
    BY <1>2, <2>2 DEF UsageTypeOK
  <2>3. QED  BY <2>1, <2>2
<1>5. QED  BY <1>2, <1>3, <1>4 DEF Reserve, UsageTypeOK

\* A grant keeps the types.
LEMMA GrantType ==
  ASSUME UsageTypeOK, NEW g \in Grants, NEW o \in Owners,
         NEW q \in 1..MaxQuantity, NEW t \in 2..(MaxTime + 1), Grant(g, o, q, t)
  PROVE  UsageTypeOK'
<1>1. q \in Nat /\ t \in Nat
  BY ConstantsAssumption DEF ConstantsAssumption
<1>2. QED  BY <1>1 DEF Grant, UsageTypeOK, GrantRow, EntryTypes

\* The tables keep their types: in particular no operation drives a counter
\* of a grant below zero.
THEOREM TypeCorrect == Spec => []UsageTypeOK
<1>1. Init => UsageTypeOK
  BY DEF Init, UsageTypeOK, GrantRow, ReservationRow, ReservationStates, EntryTypes
<1>2. UsageTypeOK /\ [Next]_creditVars => UsageTypeOK'
  <2> SUFFICES ASSUME UsageTypeOK, [Next]_creditVars  PROVE UsageTypeOK'
    OBVIOUS
  <2>1. ASSUME NEW g \in Grants, NEW o \in Owners, NEW q \in 1..MaxQuantity,
               NEW t \in 2..(MaxTime + 1), Grant(g, o, q, t)
        PROVE  UsageTypeOK'
    BY <2>1, GrantType
  <2>2. ASSUME NEW o \in Owners, NEW batch \in SUBSET Candidates,
               NEW policy \in PartialBatchPolicies, Reserve(o, batch, policy)
        PROVE  UsageTypeOK'
    BY <2>2, ReserveType
  <2>3. ASSUME NEW S \in SUBSET Rows, Consume(S)  PROVE UsageTypeOK'
    BY <2>3, ConsumeType
  <2>4. ASSUME NEW S \in SUBSET Rows, Release(S)  PROVE UsageTypeOK'
    BY <2>4, ReleaseType
  <2>5. CASE ReleaseExpired
    BY <2>4, <2>5 DEF ReleaseExpired, ExpiredRows
  <2>6. CASE Tick
    BY <2>6 DEF Tick, UsageTypeOK
  <2>7. CASE UNCHANGED creditVars
    BY <2>7 DEF creditVars, UsageTypeOK
  <2>8. QED  BY <2>1, <2>2, <2>3, <2>4, <2>5, <2>6, <2>7 DEF Next
<1>3. QED  BY <1>1, <1>2, PTL DEF Spec

-----------------------------------------------------------------------------
(***************************************************************************)
(* A batch never takes more credits from a grant than the grant has free.  *)
(* reserve_source_fetch_batch checks only the sum over all grants; that it *)
(* walks them one after the other is what protects each of them.           *)
(***************************************************************************)

\* Later candidates of a batch have larger places.
LEMMA PlacesIncrease ==
  ASSUME NEW A \in SUBSET Candidates, NEW c \in A, NEW d \in A, c < d
  PROVE  PlaceIn(A, c) < PlaceIn(A, d)
<1> DEFINE S == {e \in A : e <= d}
           T == {e \in A : e <= c}
<1>1. c \in Nat /\ d \in Nat /\ A \subseteq Nat
  BY ConstantsAssumption DEF ConstantsAssumption
<1>2. T \in SUBSET S /\ d \in S /\ d \notin T
  <2>1. \A e \in A : e <= c => e <= d
    BY <1>1
  <2>2. d <= d /\ ~(d <= c)
    BY <1>1
  <2>3. QED  BY <2>1, <2>2
<1>3. IsFiniteSet(S) /\ Cardinality(S) \in Nat /\ Cardinality(T) \in Nat
  BY BatchesAreFinite
<1>4. Cardinality(T) <= Cardinality(S) /\ (Cardinality(S) = Cardinality(T) => S = T)
  BY <1>2, <1>3, FS_Subset
<1>5. QED  BY <1>2, <1>3, <1>4 DEF PlaceIn

\* The places of the candidates charged to one grant are distinct numbers of
\* an interval as long as the grant has free credits.
LEMMA AllocationFits ==
  ASSUME UsageTypeOK, NoOverReservation, NEW o \in Owners,
         NEW A \in SUBSET Candidates, NEW alloc \in [A -> AvailableGrants(o)],
         IsAllocation(alloc, o, A), NEW g \in Grants
  PROVE  Cardinality({c \in A : alloc[c] = g}) <= Free(g)
<1> DEFINE T == {c \in A : alloc[c] = g}
           before == Cardinality(Credits({h \in AvailableGrants(o) : ExpiresBefore(h, g)}))
<1>1. Free(g) \in Nat
  <2>1. grants[g] \in GrantRow /\ grants[g].reserved <= grants[g].remaining
    BY DEF UsageTypeOK, NoOverReservation
  <2>2. QED  BY <2>1 DEF GrantRow, Free
<1>2. before \in Nat
  <2>1. IsFiniteSet(Grants \X (1..MaxQuantity))
    <3>1. IsFiniteSet(1..MaxQuantity)
      BY FS_Interval, ConstantsAssumption DEF ConstantsAssumption
    <3>2. QED  BY <3>1, FS_Product, ConstantsAssumption DEF ConstantsAssumption
  <2>2. Credits({h \in AvailableGrants(o) : ExpiresBefore(h, g)})
          \in SUBSET (Grants \X (1..MaxQuantity))
    BY DEF Credits, AvailableGrants
  <2>3. QED  BY <2>1, <2>2, FS_Subset, FS_CardinalityType
<1>3. \A c \in T : /\ PlaceIn(A, c) \in Nat
                   /\ before < PlaceIn(A, c) /\ PlaceIn(A, c) <= before + Free(g)
  <2> SUFFICES ASSUME NEW c \in T
               PROVE  /\ PlaceIn(A, c) \in Nat
                      /\ before < PlaceIn(A, c) /\ PlaceIn(A, c) <= before + Free(g)
    OBVIOUS
  <2>1. c \in A /\ alloc[c] = g
    OBVIOUS
  <2>2. PlaceIn(A, c) \in Nat
    BY BatchesAreFinite DEF PlaceIn
  <2>3. QED  BY <2>1, <2>2 DEF IsAllocation
<1> DEFINE f == [c \in T |-> PlaceIn(A, c)]
           I == (before + 1)..(before + Free(g))
<1> HIDE DEF before
<1>4. f \in Injection(T, I)
  <2>1. f \in [T -> I]
    BY <1>1, <1>2, <1>3
  <2>2. ASSUME NEW c \in T, NEW d \in T, f[c] = f[d]  PROVE c = d
    <3>1. c \in Nat /\ d \in Nat
      BY ConstantsAssumption DEF ConstantsAssumption
    <3>2. PlaceIn(A, c) = PlaceIn(A, d) /\ PlaceIn(A, c) \in Nat
      BY <2>2, <1>3
    <3>3. ~(c < d) /\ ~(d < c)
      BY <3>2, PlacesIncrease
    <3>4. QED  BY <3>1, <3>3
  <2>3. QED  BY <2>1, <2>2 DEF Injection, IsInjective
<1>5. IsFiniteSet(I) /\ Cardinality(I) = Free(g)
  <2> DEFINE a == before + 1
             b == before + Free(g)
  <2>1. a \in Int /\ b \in Int /\ (IF a > b THEN 0 ELSE b - a + 1) = Free(g)
    BY <1>1, <1>2
  <2>2. I = a..b
    OBVIOUS
  <2> HIDE DEF a, b
  <2>3. IsFiniteSet(a..b) /\ Cardinality(a..b) = IF a > b THEN 0 ELSE b - a + 1
    BY <2>1, FS_Interval
  <2>4. QED  BY <2>1, <2>2, <2>3
<1>6. QED  BY <1>4, <1>5, FS_Injection

-----------------------------------------------------------------------------
(***************************************************************************)
(* The books.  No part is inductive alone: a debit takes its credit from   *)
(* remaining and reserved only if the counters cover the rows (the guards  *)
(* of the UPDATE would skip it otherwise), a new grant starts at zero only *)
(* because no row refers to it, and the ledger follows the counters.       *)
(***************************************************************************)

Books ==
  /\ CountersMatchRows
  /\ NoOverReservation
  /\ ChargedToOwnGrant
  /\ LedgerExplainsCounters

IInv == UsageTypeOK /\ Books

\* The rows that a settlement touches are part of the rows that the counter
\* of the grant stands for.
LEMMA HeldIsCounted ==
  ASSUME IInv, NEW S \in SUBSET Rows, NEW g \in Grants
  PROVE  /\ HeldOn(S, g) \subseteq RowsOn(g, "reserved")
         /\ Cardinality(HeldOn(S, g)) \in Nat
         /\ Cardinality(HeldOn(S, g)) <= grants[g].reserved
         /\ Cardinality(HeldOn(S, g)) <= grants[g].remaining
         /\ grants[g].reserved \in Nat /\ grants[g].remaining \in Nat
         /\ grants[g].total \in Nat
         /\ grants[g].reserved <= grants[g].remaining
<1>1. HeldOn(S, g) \in SUBSET RowsOn(g, "reserved") /\ RowsOn(g, "reserved") \in SUBSET Rows
  BY DEF HeldOn, RowsOn
<1>2. IsFiniteSet(RowsOn(g, "reserved"))
  BY <1>1, RowsAreFinite
<1>3. /\ Cardinality(HeldOn(S, g)) \in Nat
      /\ Cardinality(HeldOn(S, g)) <= Cardinality(RowsOn(g, "reserved"))
  BY <1>1, <1>2, CardinalityOfRest
<1>4. /\ grants[g].reserved = Cardinality(RowsOn(g, "reserved"))
      /\ grants[g].reserved <= grants[g].remaining
  BY DEF IInv, Books, CountersMatchRows, NoOverReservation
<1>5. /\ grants[g].reserved \in Nat /\ grants[g].remaining \in Nat
      /\ grants[g].total \in Nat
  BY DEF IInv, UsageTypeOK, GrantRow
<1>6. QED  BY <1>1, <1>3, <1>4, <1>5

\* What release does to one grant: the clamp "GREATEST(reserved - 1, 0)" is
\* never needed.
LEMMA ReleaseEffect ==
  ASSUME IInv, NEW S \in SUBSET Rows, Release(S), NEW g \in Grants
  PROVE  LET n == Cardinality(HeldOn(S, g)) IN
         /\ grants'[g] = [grants[g] EXCEPT !.reserved = @ - n]
         /\ ledger'[g] = [ledger[g] EXCEPT !["release"] = @ + n]
         /\ RowsOn(g, "reserved")' = RowsOn(g, "reserved") \ HeldOn(S, g)
         /\ RowsOn(g, "consumed")' = RowsOn(g, "consumed")
<1>1. Lesser(Cardinality(HeldOn(S, g)), grants[g].reserved) = Cardinality(HeldOn(S, g))
  BY HeldIsCounted, LesserType
<1>2. grants'[g] = [grants[g] EXCEPT !.reserved = @ - Cardinality(HeldOn(S, g))]
  BY <1>1 DEF Release
<1>3. ledger'[g] = [ledger[g] EXCEPT !["release"] = @ + Cardinality(HeldOn(S, g))]
  BY DEF Release
<1>4. \A r \in Rows :
        reservations'[r] = IF r \in S /\ reservations[r].state = "reserved"
                           THEN [reservations[r] EXCEPT !.state = "released"]
                           ELSE reservations[r]
  BY DEF Release
<1>5. \A r \in Rows : reservations[r] \in ReservationRow
  BY DEF IInv, UsageTypeOK
<1>6. RowsOn(g, "reserved")' = RowsOn(g, "reserved") \ HeldOn(S, g)
  BY <1>4, <1>5 DEF RowsOn, HeldOn, ReservationRow
<1>7. RowsOn(g, "consumed")' = RowsOn(g, "consumed")
  BY <1>4, <1>5 DEF RowsOn, ReservationRow
<1>8. QED  BY <1>2, <1>3, <1>6, <1>7

\* What a debit does to one grant: the guard "remaining > 0 AND reserved > 0"
\* of the UPDATE never skips a row.
LEMMA ConsumeEffect ==
  ASSUME IInv, NEW S \in SUBSET Rows, Consume(S), NEW g \in Grants
  PROVE  LET n == Cardinality(HeldOn(S, g)) IN
         /\ grants'[g] = [grants[g] EXCEPT !.remaining = @ - n, !.reserved = @ - n]
         /\ ledger'[g] = [ledger[g] EXCEPT !["consume"] = @ + n]
         /\ RowsOn(g, "reserved")' = RowsOn(g, "reserved") \ HeldOn(S, g)
         /\ RowsOn(g, "consumed")' = RowsOn(g, "consumed") \cup HeldOn(S, g)
<1> DEFINE n == Cardinality(HeldOn(S, g))
<1>1. Lesser(n, Lesser(grants[g].remaining, grants[g].reserved)) = n
  <2>1. /\ n \in Nat /\ grants[g].remaining \in Nat /\ grants[g].reserved \in Nat
        /\ n <= grants[g].remaining /\ n <= grants[g].reserved
    BY HeldIsCounted
  <2>2. QED  BY <2>1 DEF Lesser
<1>2. grants'[g] = [grants[g] EXCEPT !.remaining = @ - n, !.reserved = @ - n]
  BY <1>1 DEF Consume
<1>3. ledger'[g] = [ledger[g] EXCEPT !["consume"] = @ + n]
  BY DEF Consume
<1>4. \A r \in Rows :
        reservations'[r] = IF r \in S /\ reservations[r].state = "reserved"
                           THEN [reservations[r] EXCEPT !.state = "consumed"]
                           ELSE reservations[r]
  BY DEF Consume
<1>5. \A r \in Rows : reservations[r] \in ReservationRow
  BY DEF IInv, UsageTypeOK
<1>6. RowsOn(g, "reserved")' = RowsOn(g, "reserved") \ HeldOn(S, g)
  BY <1>4, <1>5 DEF RowsOn, HeldOn, ReservationRow
<1>7. RowsOn(g, "consumed")' = RowsOn(g, "consumed") \cup HeldOn(S, g)
  <2>1. ASSUME NEW r \in Rows
        PROVE  (reservations'[r].state = "consumed" /\ reservations'[r].grant = g)
                 <=> \/ reservations[r].state = "consumed" /\ reservations[r].grant = g
                     \/ r \in HeldOn(S, g)
    BY <1>4, <1>5 DEF HeldOn, ReservationRow
  <2>2. HeldOn(S, g) \subseteq Rows
    BY DEF HeldOn
  <2>3. QED  BY <2>1, <2>2 DEF RowsOn
<1>8. QED  BY <1>2, <1>3, <1>6, <1>7

\* A release keeps the books: the credit goes back to the grant it came from.
LEMMA ReleaseKeepsBooks ==
  ASSUME IInv, NEW S \in SUBSET Rows, Release(S)
  PROVE  Books'
<1>1. ASSUME NEW g \in Grants
      PROVE  /\ grants'[g].owner = grants[g].owner
             /\ grants'[g].reserved = Cardinality(RowsOn(g, "reserved")')
             /\ grants'[g].remaining + Cardinality(RowsOn(g, "consumed")') = grants'[g].total
             /\ grants'[g].reserved <= grants'[g].remaining
             /\ ledger'[g]["reserve"] =
                  ledger'[g]["consume"] + ledger'[g]["release"] + grants'[g].reserved
             /\ grants'[g].total = ledger'[g]["consume"] + grants'[g].remaining
             /\ ledger'[g]["grant"] = IF grants'[g].owner = NoOwner THEN 0 ELSE 1
  <2> DEFINE n == Cardinality(HeldOn(S, g))
  <2>1. /\ n \in Nat /\ n <= grants[g].reserved /\ n <= grants[g].remaining
        /\ grants[g].reserved \in Nat /\ grants[g].remaining \in Nat
        /\ grants[g].total \in Nat /\ grants[g].reserved <= grants[g].remaining
    BY HeldIsCounted
  <2>2. /\ grants'[g] = [grants[g] EXCEPT !.reserved = @ - n]
        /\ ledger'[g] = [ledger[g] EXCEPT !["release"] = @ + n]
        /\ RowsOn(g, "reserved")' = RowsOn(g, "reserved") \ HeldOn(S, g)
        /\ RowsOn(g, "consumed")' = RowsOn(g, "consumed")
    BY ReleaseEffect
  <2>3. /\ Cardinality(RowsOn(g, "reserved")') = Cardinality(RowsOn(g, "reserved")) - n
        /\ Cardinality(RowsOn(g, "consumed")') = Cardinality(RowsOn(g, "consumed"))
        /\ Cardinality(RowsOn(g, "consumed")) \in Nat
    <3>1. /\ RowsOn(g, "reserved") \in SUBSET Rows /\ RowsOn(g, "consumed") \in SUBSET Rows
          /\ HeldOn(S, g) \in SUBSET RowsOn(g, "reserved")
      BY DEF RowsOn, HeldOn
    <3>2. IsFiniteSet(RowsOn(g, "reserved")) /\ Cardinality(RowsOn(g, "consumed")) \in Nat
      BY <3>1, RowsAreFinite
    <3>3. Cardinality(RowsOn(g, "reserved") \ HeldOn(S, g)) = Cardinality(RowsOn(g, "reserved")) - n
      BY <3>1, <3>2, CardinalityOfRest
    <3>4. QED  BY <3>2, <3>3, <2>2
  <2> HIDE DEF n
  <2>4. /\ grants'[g].reserved = grants[g].reserved - n
        /\ grants'[g].remaining = grants[g].remaining
        /\ grants'[g].total = grants[g].total
        /\ grants'[g].owner = grants[g].owner
    <3>1. grants[g] \in GrantRow
      BY DEF IInv, UsageTypeOK
    <3>2. QED  BY <2>2, <3>1 DEF GrantRow
  <2>5. /\ ledger[g]["consume"] \in Nat /\ ledger[g]["release"] \in Nat
        /\ ledger[g]["reserve"] \in Nat
        /\ ledger'[g]["release"] = ledger[g]["release"] + n
        /\ ledger'[g]["consume"] = ledger[g]["consume"]
        /\ ledger'[g]["reserve"] = ledger[g]["reserve"]
        /\ ledger'[g]["grant"] = ledger[g]["grant"]
    <3>1. ledger[g] \in [EntryTypes -> Nat]
      BY DEF IInv, UsageTypeOK
    <3>2. QED  BY <2>2, <3>1 DEF EntryTypes
  <2>6. /\ grants[g].reserved = Cardinality(RowsOn(g, "reserved"))
        /\ grants[g].remaining + Cardinality(RowsOn(g, "consumed")) = grants[g].total
        /\ ledger[g]["reserve"] =
             ledger[g]["consume"] + ledger[g]["release"] + grants[g].reserved
        /\ grants[g].total = ledger[g]["consume"] + grants[g].remaining
        /\ ledger[g]["grant"] = IF grants[g].owner = NoOwner THEN 0 ELSE 1
    BY DEF IInv, Books, CountersMatchRows, LedgerExplainsCounters
  <2>7. QED  BY <2>1, <2>4, <2>5, <2>3, <2>6
<1>2. ChargedToOwnGrant'
  <2> SUFFICES ASSUME NEW r \in Rows, reservations'[r].state # "absent"
               PROVE  /\ reservations'[r].grant \in Grants
                      /\ grants'[reservations'[r].grant].owner = r[1]
    BY DEF ChargedToOwnGrant
  <2>1. reservations[r].state # "absent" /\ reservations'[r].grant = reservations[r].grant
    BY DEF Release, IInv, UsageTypeOK, ReservationRow
  <2>2. QED  BY <1>1, <2>1 DEF IInv, Books, ChargedToOwnGrant
<1>3. QED  BY <1>1, <1>2 DEF Books, CountersMatchRows, NoOverReservation, LedgerExplainsCounters

\* A debit keeps the books: each row it charges leaves the reserved rows and
\* joins the consumed ones of its own grant.
LEMMA ConsumeKeepsBooks ==
  ASSUME IInv, NEW S \in SUBSET Rows, Consume(S)
  PROVE  Books'
<1>1. ASSUME NEW g \in Grants
      PROVE  /\ grants'[g].owner = grants[g].owner
             /\ grants'[g].reserved = Cardinality(RowsOn(g, "reserved")')
             /\ grants'[g].remaining + Cardinality(RowsOn(g, "consumed")') = grants'[g].total
             /\ grants'[g].reserved <= grants'[g].remaining
             /\ ledger'[g]["reserve"] =
                  ledger'[g]["consume"] + ledger'[g]["release"] + grants'[g].reserved
             /\ grants'[g].total = ledger'[g]["consume"] + grants'[g].remaining
             /\ ledger'[g]["grant"] = IF grants'[g].owner = NoOwner THEN 0 ELSE 1
  <2> DEFINE n == Cardinality(HeldOn(S, g))
  <2>1. /\ n \in Nat /\ n <= grants[g].reserved /\ n <= grants[g].remaining
        /\ grants[g].reserved \in Nat /\ grants[g].remaining \in Nat
        /\ grants[g].total \in Nat /\ grants[g].reserved <= grants[g].remaining
    BY HeldIsCounted
  <2>2. /\ grants'[g] = [grants[g] EXCEPT !.remaining = @ - n, !.reserved = @ - n]
        /\ ledger'[g] = [ledger[g] EXCEPT !["consume"] = @ + n]
        /\ RowsOn(g, "reserved")' = RowsOn(g, "reserved") \ HeldOn(S, g)
        /\ RowsOn(g, "consumed")' = RowsOn(g, "consumed") \cup HeldOn(S, g)
    BY ConsumeEffect
  <2>3. /\ Cardinality(RowsOn(g, "reserved")') = Cardinality(RowsOn(g, "reserved")) - n
        /\ Cardinality(RowsOn(g, "consumed")') = Cardinality(RowsOn(g, "consumed")) + n
        /\ Cardinality(RowsOn(g, "consumed")) \in Nat
    <3>1. /\ RowsOn(g, "reserved") \in SUBSET Rows /\ RowsOn(g, "consumed") \in SUBSET Rows
          /\ HeldOn(S, g) \in SUBSET RowsOn(g, "reserved")
          /\ HeldOn(S, g) \in SUBSET Rows
          /\ RowsOn(g, "consumed") \cap HeldOn(S, g) = {}
      BY DEF RowsOn, HeldOn
    <3>2. /\ IsFiniteSet(RowsOn(g, "reserved")) /\ IsFiniteSet(RowsOn(g, "consumed"))
          /\ IsFiniteSet(HeldOn(S, g)) /\ Cardinality(RowsOn(g, "consumed")) \in Nat
      BY <3>1, RowsAreFinite
    <3>3. Cardinality(RowsOn(g, "reserved") \ HeldOn(S, g)) = Cardinality(RowsOn(g, "reserved")) - n
      BY <3>1, <3>2, CardinalityOfRest
    <3>4. Cardinality(RowsOn(g, "consumed") \cup HeldOn(S, g)) = Cardinality(RowsOn(g, "consumed")) + n
      BY <3>1, <3>2, CardinalityOfDisjointUnion
    <3>5. QED  BY <3>2, <3>3, <3>4, <2>2
  <2> HIDE DEF n
  <2>4. /\ grants'[g].reserved = grants[g].reserved - n
        /\ grants'[g].remaining = grants[g].remaining - n
        /\ grants'[g].total = grants[g].total
        /\ grants'[g].owner = grants[g].owner
    <3>1. grants[g] \in GrantRow
      BY DEF IInv, UsageTypeOK
    <3>2. QED  BY <2>2, <3>1 DEF GrantRow
  <2>5. /\ ledger[g]["consume"] \in Nat /\ ledger[g]["release"] \in Nat
        /\ ledger[g]["reserve"] \in Nat
        /\ ledger'[g]["consume"] = ledger[g]["consume"] + n
        /\ ledger'[g]["release"] = ledger[g]["release"]
        /\ ledger'[g]["reserve"] = ledger[g]["reserve"]
        /\ ledger'[g]["grant"] = ledger[g]["grant"]
    <3>1. ledger[g] \in [EntryTypes -> Nat]
      BY DEF IInv, UsageTypeOK
    <3>2. QED  BY <2>2, <3>1 DEF EntryTypes
  <2>6. /\ grants[g].reserved = Cardinality(RowsOn(g, "reserved"))
        /\ grants[g].remaining + Cardinality(RowsOn(g, "consumed")) = grants[g].total
        /\ ledger[g]["reserve"] =
             ledger[g]["consume"] + ledger[g]["release"] + grants[g].reserved
        /\ grants[g].total = ledger[g]["consume"] + grants[g].remaining
        /\ ledger[g]["grant"] = IF grants[g].owner = NoOwner THEN 0 ELSE 1
    BY DEF IInv, Books, CountersMatchRows, LedgerExplainsCounters
  <2>7. QED  BY <2>1, <2>4, <2>5, <2>3, <2>6
<1>2. ChargedToOwnGrant'
  <2> SUFFICES ASSUME NEW r \in Rows, reservations'[r].state # "absent"
               PROVE  /\ reservations'[r].grant \in Grants
                      /\ grants'[reservations'[r].grant].owner = r[1]
    BY DEF ChargedToOwnGrant
  <2>1. reservations[r].state # "absent" /\ reservations'[r].grant = reservations[r].grant
    BY DEF Consume, IInv, UsageTypeOK, ReservationRow
  <2>2. QED  BY <1>1, <2>1 DEF IInv, Books, ChargedToOwnGrant
<1>3. QED  BY <1>1, <1>2 DEF Books, CountersMatchRows, NoOverReservation, LedgerExplainsCounters

\* A batch keeps the books: the rows it reserves were pending, and no grant
\* gives more credits than it has free.
LEMMA ReserveKeepsBooks ==
  ASSUME IInv, NEW o \in Owners, NEW batch \in SUBSET Candidates, NEW policy,
         Reserve(o, batch, policy)
  PROVE  Books'
<1> DEFINE accepted == AcceptedOf(o, batch, policy)
<1>1. accepted \in SUBSET Candidates /\ accepted \subseteq PendingOf(o, batch)
  BY AcceptedArePending
<1>2. \A c \in accepted : reservations[<<o, c>>].state \notin {"reserved", "consumed"}
  BY <1>1 DEF PendingOf
<1> HIDE DEF accepted
<1>3. PICK alloc \in [accepted -> AvailableGrants(o)] :
        /\ IsAllocation(alloc, o, accepted)
        /\ grants' = [g \in Grants |-> [grants[g] EXCEPT
             !.reserved = @ + Cardinality({c \in accepted : alloc[c] = g})]]
        /\ reservations' = [r \in Rows |->
             IF r[1] = o /\ r[2] \in accepted
             THEN [state |-> "reserved", grant |-> alloc[r[2]],
                   lease |-> now + LeaseSeconds]
             ELSE reservations[r]]
        /\ ledger' = [g \in Grants |-> [ledger[g] EXCEPT
             !["reserve"] = @ + Cardinality({c \in accepted : alloc[c] = g})]]
  BY DEF Reserve, accepted
<1>4. ASSUME NEW g \in Grants
      PROVE  /\ grants'[g].owner = grants[g].owner
             /\ grants'[g].reserved = Cardinality(RowsOn(g, "reserved")')
             /\ grants'[g].remaining + Cardinality(RowsOn(g, "consumed")') = grants'[g].total
             /\ grants'[g].reserved <= grants'[g].remaining
             /\ ledger'[g]["reserve"] =
                  ledger'[g]["consume"] + ledger'[g]["release"] + grants'[g].reserved
             /\ grants'[g].total = ledger'[g]["consume"] + grants'[g].remaining
             /\ ledger'[g]["grant"] = IF grants'[g].owner = NoOwner THEN 0 ELSE 1
  <2> DEFINE T == {c \in accepted : alloc[c] = g}
             n == Cardinality(T)
  <2>1. T \in SUBSET Candidates /\ IsFiniteSet(T) /\ n \in Nat
    BY <1>1, BatchesAreFinite
  <2>2. n <= grants[g].remaining - grants[g].reserved
    BY <1>1, <1>3, AllocationFits DEF IInv, Books, Free
  <2>3. /\ Cardinality(RowsOn(g, "reserved")') = Cardinality(RowsOn(g, "reserved")) + n
        /\ RowsOn(g, "consumed")' = RowsOn(g, "consumed")
    <3>1. {o} \X T \in SUBSET Rows
      BY <2>1 DEF Rows
    <3>2. \A r \in Rows : r \in {o} \X T <=> r[1] = o /\ r[2] \in accepted /\ alloc[r[2]] = g
      BY DEF Rows
    <3>3. \A r \in Rows : r[1] = o /\ r[2] \in accepted
                         => reservations[r].state \notin {"reserved", "consumed"}
      BY <1>2 DEF Rows
    <3> HIDE DEF T
    <3>4. RowsOn(g, "reserved")' = RowsOn(g, "reserved") \cup ({o} \X T)
      BY <1>3, <3>1, <3>2, <3>3 DEF RowsOn
    <3>5. RowsOn(g, "reserved") \cap ({o} \X T) = {}
      BY <3>1, <3>2, <3>3 DEF RowsOn
    <3>6. RowsOn(g, "consumed")' = RowsOn(g, "consumed")
      BY <1>3, <3>3 DEF RowsOn
    <3>7. IsFiniteSet({o} \X T) /\ Cardinality({o} \X T) = n
      BY <2>1, RowsOfOneOwner
    <3>8. IsFiniteSet(RowsOn(g, "reserved"))
      BY RowsAreFinite DEF RowsOn
    <3>9. QED  BY <3>4, <3>5, <3>6, <3>7, <3>8, CardinalityOfDisjointUnion
  <2>4. /\ grants'[g] = [grants[g] EXCEPT !.reserved = @ + n]
        /\ ledger'[g] = [ledger[g] EXCEPT !["reserve"] = @ + n]
    BY <1>3
  <2> HIDE DEF n
  <2>5. /\ grants[g].reserved \in Nat /\ grants[g].remaining \in Nat
        /\ grants'[g].reserved = grants[g].reserved + n
        /\ grants'[g].remaining = grants[g].remaining
        /\ grants'[g].total = grants[g].total
        /\ grants'[g].owner = grants[g].owner
    <3>1. grants[g] \in GrantRow
      BY DEF IInv, UsageTypeOK
    <3>2. QED  BY <2>4, <3>1 DEF GrantRow
  <2>6. /\ ledger[g]["consume"] \in Nat /\ ledger[g]["release"] \in Nat
        /\ ledger[g]["reserve"] \in Nat
        /\ ledger'[g]["reserve"] = ledger[g]["reserve"] + n
        /\ ledger'[g]["consume"] = ledger[g]["consume"]
        /\ ledger'[g]["release"] = ledger[g]["release"]
        /\ ledger'[g]["grant"] = ledger[g]["grant"]
    <3>1. ledger[g] \in [EntryTypes -> Nat]
      BY DEF IInv, UsageTypeOK
    <3>2. QED  BY <2>4, <3>1 DEF EntryTypes
  <2>7. /\ grants[g].reserved = Cardinality(RowsOn(g, "reserved"))
        /\ grants[g].remaining + Cardinality(RowsOn(g, "consumed")) = grants[g].total
        /\ ledger[g]["reserve"] =
             ledger[g]["consume"] + ledger[g]["release"] + grants[g].reserved
        /\ grants[g].total = ledger[g]["consume"] + grants[g].remaining
        /\ ledger[g]["grant"] = IF grants[g].owner = NoOwner THEN 0 ELSE 1
    BY DEF IInv, Books, CountersMatchRows, LedgerExplainsCounters
  <2>8. QED  BY <2>1, <2>2, <2>3, <2>5, <2>6, <2>7
<1>5. ChargedToOwnGrant'
  <2> SUFFICES ASSUME NEW r \in Rows, reservations'[r].state # "absent"
               PROVE  /\ reservations'[r].grant \in Grants
                      /\ grants'[reservations'[r].grant].owner = r[1]
    BY DEF ChargedToOwnGrant
  <2>1. CASE r[1] = o /\ r[2] \in accepted
    <3>1. alloc[r[2]] \in Grants /\ grants[alloc[r[2]]].owner = o
      BY <1>3, <2>1 DEF AvailableGrants
    <3>2. reservations'[r].grant = alloc[r[2]]
      BY <1>3, <2>1
    <3>3. QED  BY <1>4, <2>1, <3>1, <3>2
  <2>2. CASE ~(r[1] = o /\ r[2] \in accepted)
    <3>1. reservations'[r] = reservations[r]
      BY <1>3, <2>2
    <3>2. QED  BY <1>4, <3>1 DEF IInv, Books, ChargedToOwnGrant
  <2>3. QED  BY <2>1, <2>2
<1>6. QED  BY <1>4, <1>5 DEF Books, CountersMatchRows, NoOverReservation, LedgerExplainsCounters

\* A new grant keeps the books: no row refers to a grant that is not issued.
LEMMA GrantKeepsBooks ==
  ASSUME IInv, NEW h \in Grants, NEW o \in Owners, NEW q \in 1..MaxQuantity,
         NEW t \in 2..(MaxTime + 1), Grant(h, o, q, t)
  PROVE  Books'
<1>1. /\ grants[h].owner = NoOwner /\ NoOwner \notin Owners
      /\ q \in Nat /\ reservations' = reservations
      /\ grants'[h] = [owner |-> o, total |-> q, remaining |-> q, reserved |-> 0,
                       issuedAt |-> now, expiresAt |-> t]
      /\ \A g \in Grants : g # h => grants'[g] = grants[g] /\ ledger'[g] = ledger[g]
      /\ ledger'[h] = [ledger[h] EXCEPT !["grant"] = @ + 1]
  BY ConstantsAssumption DEF ConstantsAssumption, Grant, IInv, UsageTypeOK
<1>2. \A r \in Rows : reservations[r].state # "absent" => reservations[r].grant # h
  BY <1>1 DEF IInv, Books, ChargedToOwnGrant, Rows
<1>3. RowsOn(h, "reserved") = {} /\ RowsOn(h, "consumed") = {}
  BY <1>2 DEF RowsOn
<1>4. Cardinality(RowsOn(h, "reserved")) = 0 /\ Cardinality(RowsOn(h, "consumed")) = 0
  BY <1>3, FS_EmptySet
<1>5. \A g \in Grants : RowsOn(g, "reserved")' = RowsOn(g, "reserved")
                      /\ RowsOn(g, "consumed")' = RowsOn(g, "consumed")
  BY <1>1 DEF RowsOn
<1>6. CountersMatchRows'
  <2>1. \A g \in Grants \ {h} : /\ grants'[g].reserved = Cardinality(RowsOn(g, "reserved")')
                              /\ grants'[g].remaining + Cardinality(RowsOn(g, "consumed")')
                                   = grants'[g].total
    BY <1>1, <1>5 DEF IInv, Books, CountersMatchRows
  <2>2. /\ grants'[h].reserved = Cardinality(RowsOn(h, "reserved")')
        /\ grants'[h].remaining + Cardinality(RowsOn(h, "consumed")') = grants'[h].total
    BY <1>1, <1>4, <1>5
  <2>3. QED  BY <2>1, <2>2 DEF CountersMatchRows
<1>7. NoOverReservation'
  BY <1>1 DEF IInv, Books, NoOverReservation
<1>8. ChargedToOwnGrant'
  BY <1>1, <1>2 DEF IInv, Books, ChargedToOwnGrant
<1>9. LedgerExplainsCounters'
  <2>1. /\ ledger[h]["reserve"] = ledger[h]["consume"] + ledger[h]["release"] + grants[h].reserved
        /\ grants[h].total = ledger[h]["consume"] + grants[h].remaining
        /\ ledger[h]["grant"] = 0
        /\ grants[h].reserved = 0 /\ grants[h].remaining = grants[h].total
    <3>1. /\ grants[h].reserved = Cardinality(RowsOn(h, "reserved"))
          /\ grants[h].remaining + Cardinality(RowsOn(h, "consumed")) = grants[h].total
      BY DEF IInv, Books, CountersMatchRows
    <3>2. grants[h].remaining \in Nat
      BY DEF IInv, UsageTypeOK, GrantRow
    <3>3. QED  BY <1>1, <1>4, <3>1, <3>2 DEF IInv, Books, LedgerExplainsCounters
  <2>2. /\ ledger'[h]["reserve"] = ledger'[h]["consume"] + ledger'[h]["release"] + grants'[h].reserved
        /\ grants'[h].total = ledger'[h]["consume"] + grants'[h].remaining
        /\ ledger'[h]["grant"] = IF grants'[h].owner = NoOwner THEN 0 ELSE 1
    <3>1. ledger[h] \in [EntryTypes -> Nat]
      BY DEF IInv, UsageTypeOK
    <3>2. grants[h].remaining \in Nat
      BY DEF IInv, UsageTypeOK, GrantRow
    <3>3. /\ ledger'[h]["reserve"] = ledger[h]["reserve"]
          /\ ledger'[h]["consume"] = ledger[h]["consume"]
          /\ ledger'[h]["release"] = ledger[h]["release"]
          /\ ledger'[h]["grant"] = ledger[h]["grant"] + 1
          /\ ledger[h]["consume"] \in Nat /\ ledger[h]["release"] \in Nat
      BY <1>1, <3>1 DEF EntryTypes
    <3>4. QED  BY <1>1, <2>1, <3>2, <3>3
  <2>3. ASSUME NEW g \in Grants, g # h
        PROVE  /\ ledger'[g]["reserve"] =
                    ledger'[g]["consume"] + ledger'[g]["release"] + grants'[g].reserved
               /\ grants'[g].total = ledger'[g]["consume"] + grants'[g].remaining
               /\ ledger'[g]["grant"] = IF grants'[g].owner = NoOwner THEN 0 ELSE 1
    <3>1. grants'[g] = grants[g] /\ ledger'[g] = ledger[g]
      BY <1>1, <2>3
    <3>2. /\ ledger[g]["reserve"] =
               ledger[g]["consume"] + ledger[g]["release"] + grants[g].reserved
          /\ grants[g].total = ledger[g]["consume"] + grants[g].remaining
          /\ ledger[g]["grant"] = IF grants[g].owner = NoOwner THEN 0 ELSE 1
      BY DEF IInv, Books, LedgerExplainsCounters
    <3>3. QED  BY <3>1, <3>2
  <2>4. QED  BY <2>2, <2>3 DEF LedgerExplainsCounters
<1>10. QED  BY <1>6, <1>7, <1>8, <1>9 DEF Books

-----------------------------------------------------------------------------
(***************************************************************************)
(* The theorems.                                                           *)
(***************************************************************************)

\* The invariant holds of the empty store and every transaction keeps it.
THEOREM BooksAreKept == Spec => []Books
<1>1. Init => Books
  <2> SUFFICES ASSUME Init  PROVE Books
    OBVIOUS
  <2>1. \A g \in Grants : RowsOn(g, "reserved") = {} /\ RowsOn(g, "consumed") = {}
    BY DEF Init, RowsOn
  <2>2. Cardinality({}) = 0
    BY FS_EmptySet
  <2>3. CountersMatchRows
    <3>1. \A g \in Grants : /\ grants[g].reserved = 0 /\ grants[g].remaining = 0
                             /\ grants[g].total = 0
      BY DEF Init
    <3>2. \A g \in Grants : /\ Cardinality(RowsOn(g, "reserved")) = 0
                             /\ Cardinality(RowsOn(g, "consumed")) = 0
      BY <2>1, <2>2
    <3>3. 0 + 0 = 0
      OBVIOUS
    <3>4. QED  BY <3>1, <3>2, <3>3, Zenon DEF CountersMatchRows
  <2>4. NoOverReservation /\ ChargedToOwnGrant
    BY DEF Init, NoOverReservation, ChargedToOwnGrant
  <2>5. LedgerExplainsCounters
    BY DEF Init, LedgerExplainsCounters, EntryTypes
  <2>6. QED  BY <2>3, <2>4, <2>5 DEF Books
<1>2. UsageTypeOK /\ Books /\ [Next]_creditVars => Books'
  <2> SUFFICES ASSUME IInv, [Next]_creditVars  PROVE Books'
    BY DEF IInv
  <2>1. ASSUME NEW g \in Grants, NEW o \in Owners, NEW q \in 1..MaxQuantity,
               NEW t \in 2..(MaxTime + 1), Grant(g, o, q, t)
        PROVE  Books'
    BY <2>1, GrantKeepsBooks
  <2>2. ASSUME NEW o \in Owners, NEW batch \in SUBSET Candidates,
               NEW policy \in PartialBatchPolicies, Reserve(o, batch, policy)
        PROVE  Books'
    BY <2>2, ReserveKeepsBooks
  <2>3. ASSUME NEW S \in SUBSET Rows, Consume(S)  PROVE Books'
    BY <2>3, ConsumeKeepsBooks
  <2>4. ASSUME NEW S \in SUBSET Rows, Release(S)  PROVE Books'
    BY <2>4, ReleaseKeepsBooks
  <2>5. CASE ReleaseExpired
    BY <2>4, <2>5 DEF ReleaseExpired, ExpiredRows
  <2>6. CASE Tick \/ UNCHANGED creditVars
    <3>1. UNCHANGED <<grants, reservations, ledger>>
      BY <2>6 DEF Tick, creditVars
    <3>2. QED
      BY <3>1 DEF IInv, Books, CountersMatchRows, NoOverReservation, ChargedToOwnGrant,
                  LedgerExplainsCounters, RowsOn
  <2>7. QED  BY <2>1, <2>2, <2>3, <2>4, <2>5, <2>6 DEF Next
<1>3. QED  BY <1>1, <1>2, TypeCorrect, PTL DEF Spec

\* No interleaving of batches, settlements and sweeps loses a credit, frees
\* one twice or charges a revision twice.
THEOREM CountersAreRight == Spec => []CountersMatchRows
<1>1. Books => CountersMatchRows
  BY DEF Books
<1>2. QED  BY <1>1, BooksAreKept, PTL

\* A grant never holds more reservations than it has credits.
THEOREM NeverOverReserved == Spec => []NoOverReservation
<1>1. Books => NoOverReservation
  BY DEF Books
<1>2. QED  BY <1>1, BooksAreKept, PTL

\* Nobody is charged with the credits of someone else.
THEOREM ChargesStayWithOwner == Spec => []ChargedToOwnGrant
<1>1. Books => ChargedToOwnGrant
  BY DEF Books
<1>2. QED  BY <1>1, BooksAreKept, PTL

\* The balances can be recomputed from the ledger at any time.
THEOREM LedgerIsComplete == Spec => []LedgerExplainsCounters
<1>1. Books => LedgerExplainsCounters
  BY DEF Books
<1>2. QED  BY <1>1, BooksAreKept, PTL

\* No step reopens a charged revision or moves its charge.
THEOREM ChargesAreFinal == Spec => ConsumedIsFinal
<1> DEFINE Final == \A r \in Rows : reservations[r].state = "consumed"
                                   => reservations'[r] = reservations[r]
<1>1. UsageTypeOK /\ [Next]_creditVars => [Final]_creditVars
  <2> SUFFICES ASSUME UsageTypeOK, Next  PROVE Final
    OBVIOUS
  <2>1. ASSUME NEW o \in Owners, NEW batch \in SUBSET Candidates, NEW policy,
               Reserve(o, batch, policy)
        PROVE  Final
    <3>1. \A c \in AcceptedOf(o, batch, policy) : reservations[<<o, c>>].state # "consumed"
      BY AcceptedArePending DEF PendingOf
    <3>2. \A r \in Rows : reservations[r].state = "consumed"
                          => ~(r[1] = o /\ r[2] \in AcceptedOf(o, batch, policy))
      BY <3>1 DEF Rows
    <3>3. QED  BY <2>1, <3>2 DEF Reserve
  <2>2. ASSUME NEW S, Consume(S)  PROVE Final
    BY <2>2 DEF Consume
  <2>3. ASSUME NEW S, Release(S)  PROVE Final
    BY <2>3 DEF Release
  <2>4. CASE ReleaseExpired
    BY <2>3, <2>4 DEF ReleaseExpired
  <2>5. CASE Tick
    BY <2>5 DEF Tick
  <2>6. ASSUME NEW g, NEW o, NEW q, NEW t, Grant(g, o, q, t)  PROVE Final
    BY <2>6 DEF Grant
  <2>7. QED  BY <2>1, <2>2, <2>3, <2>4, <2>5, <2>6 DEF Next
<1>2. QED  BY <1>1, TypeCorrect, PTL DEF Spec, ConsumedIsFinal

-----------------------------------------------------------------------------
(***************************************************************************)
(* The requests over the store.                                            *)
(***************************************************************************)

\* No request keeps incomplete bundles: all of them are imports.
OnlyImports == \A j \in Jobs : ~jobs[j].persist

\* What a request that has started knows of its revisions: they have an owner,
\* the reservations it settles are among those it fetches, and what it fetches
\* without holding a reservation for it is charged already.
RequestsAreSound ==
  \A j \in Jobs :
    IF jobs[j].step = "new" THEN ~jobs[j].persist /\ jobs[j].held = {}
    ELSE /\ jobs[j].owner \in Owners
         /\ jobs[j].held \subseteq jobs[j].fetch
         /\ \A c \in jobs[j].fetch \ jobs[j].held :
              reservations[<<jobs[j].owner, c>>].state = "consumed"

\* Fresh or stale, a revision whose responses all succeeded has been charged.
CompleteIsCharged ==
  OnlyImports => \A r \in Rows : CompleteOnRecord(r) => reservations[r].state = "consumed"

\* The inductive invariant of the requests.
LookupInv ==
  LookupTypeOK /\ RequestsAreSound /\ ChargedOnlyIfSaved /\ CompleteIsCharged

-----------------------------------------------------------------------------
(***************************************************************************)
(* The rows that a request settles.                                        *)
(***************************************************************************)

\* A request settles reservation rows of the store.
LEMMA HeldRowsAreRows ==
  ASSUME LookupTypeOK, RequestsAreSound, NEW j \in Jobs
  PROVE  HeldRows(j) \in SUBSET Rows
<1>1. jobs[j] \in JobState
  BY DEF LookupTypeOK
<1>2. jobs[j].held \subseteq Candidates
  BY <1>1 DEF JobState
<1>3. jobs[j].held = {} \/ jobs[j].owner \in Owners
  BY DEF RequestsAreSound
<1>4. QED  BY <1>2, <1>3 DEF HeldRows, Rows

\* A transaction that settles no row leaves the store as it is.
LEMMA NothingToSettle ==
  ASSUME UsageTypeOK, Consume({}) \/ Release({})
  PROVE  UNCHANGED creditVars
<1>1. ASSUME NEW g \in Grants
      PROVE  Cardinality(HeldOn({}, g)) = 0
  <2>1. HeldOn({}, g) = {}
    BY DEF HeldOn
  <2>2. QED  BY <2>1, FS_EmptySet
<1>2. ASSUME NEW g \in Grants
      PROVE  /\ grants'[g] = grants[g] /\ ledger'[g] = ledger[g]
  <2>1. grants[g] \in GrantRow /\ ledger[g] \in [EntryTypes -> Nat]
    BY DEF UsageTypeOK
  <2>2. /\ grants[g].remaining \in Nat /\ grants[g].reserved \in Nat
        /\ ledger[g]["consume"] \in Nat /\ ledger[g]["release"] \in Nat
    BY <2>1 DEF GrantRow, EntryTypes
  <2>3. Lesser(0, Lesser(grants[g].remaining, grants[g].reserved)) = 0
        /\ Lesser(0, grants[g].reserved) = 0
    BY <2>2 DEF Lesser
  <2>4. CASE Consume({})
    <3>1. /\ grants'[g] = [grants[g] EXCEPT !.remaining = @ - 0, !.reserved = @ - 0]
          /\ ledger'[g] = [ledger[g] EXCEPT !["consume"] = @ + 0]
      BY <1>1, <2>3, <2>4 DEF Consume
    <3>2. grants[g].remaining - 0 = grants[g].remaining /\ grants[g].reserved - 0 = grants[g].reserved
      BY <2>2
    <3>3. grants'[g] = [grants[g] EXCEPT !.remaining = @, !.reserved = @]
      BY <3>1, <3>2
    <3>4. grants'[g] = grants[g]
      BY <2>1, <3>3 DEF GrantRow
    <3>5. ledger'[g] = ledger[g]
      BY <2>1, <2>2, <3>1 DEF EntryTypes
    <3>6. QED  BY <3>4, <3>5
  <2>5. CASE Release({})
    <3>1. /\ grants'[g] = [grants[g] EXCEPT !.reserved = @ - 0]
          /\ ledger'[g] = [ledger[g] EXCEPT !["release"] = @ + 0]
      BY <1>1, <2>3, <2>5 DEF Release
    <3>2. QED  BY <2>1, <2>2, <3>1 DEF GrantRow, EntryTypes
  <2>6. QED  BY <2>4, <2>5
<1>3. /\ DOMAIN grants' = Grants /\ DOMAIN ledger' = Grants /\ DOMAIN reservations' = Rows
      /\ grants' = [g \in Grants |-> grants'[g]] /\ ledger' = [g \in Grants |-> ledger'[g]]
      /\ reservations' = [r \in Rows |-> reservations[r]] /\ now' = now
  BY DEF Consume, Release
<1>4. /\ grants = [g \in Grants |-> grants[g]] /\ ledger = [g \in Grants |-> ledger[g]]
      /\ reservations = [r \in Rows |-> reservations[r]]
  BY DEF UsageTypeOK
<1>5. grants' = grants
  BY <1>2, <1>3, <1>4
<1>6. ledger' = ledger
  BY <1>2, <1>3, <1>4
<1>7. QED  BY <1>3, <1>4, <1>5, <1>6 DEF creditVars

-----------------------------------------------------------------------------
(***************************************************************************)
(* The requests refine the credit store.                                   *)
(***************************************************************************)

\* Every step of a request, of the sweep and of the grants is a transaction of
\* the credit store, or leaves the store alone.
LEMMA LookupStepsAreTransactions ==
  ASSUME LookupTypeOK, RequestsAreSound, [LookupNext]_lookupVars
  PROVE  [Next]_creditVars
<1> USE DEF Next
<1>1. ASSUME NEW j \in Jobs, LookupStep(j)
      PROVE  [Next]_creditVars
  <2>1. UsageTypeOK /\ HeldRows(j) \in SUBSET Rows
    BY HeldRowsAreRows DEF LookupTypeOK
  <2>2. CASE Consume(HeldRows(j))
    BY <2>1, <2>2, NothingToSettle
  <2>3. CASE Release(HeldRows(j))
    BY <2>1, <2>3, NothingToSettle
  <2>4. CASE UNCHANGED creditVars
    BY <2>4
  <2>5. QED
    BY <1>1, <2>2, <2>3, <2>4
    DEF LookupStep, RefuseUsage, Fetch, SaveAndCharge, SaveDuplicate, SaveFails,
        SavePartial, GiveBack, Die
<1>2. ASSUME NEW j \in Jobs, NEW policy \in PartialBatchPolicies, ReserveUsage(j, policy)
      PROVE  [Next]_creditVars
  <2>1. jobs[j].owner \in Owners /\ jobs[j] \in JobState
    BY <1>2 DEF ReserveUsage, RequestsAreSound, LookupTypeOK
  <2>2. jobs[j].requested \ jobs[j].existing \in SUBSET Candidates
    BY <2>1 DEF JobState
  <2>3. Reserve(jobs[j].owner, jobs[j].requested \ jobs[j].existing, policy)
    BY <1>2 DEF ReserveUsage
  <2>4. QED  BY <2>1, <2>2, <2>3
<1>3. CASE SweepLeases \/ ClockTicks \/ IssueGrant
  BY <1>3 DEF SweepLeases, ClockTicks, IssueGrant
<1>4. CASE UNCHANGED creditVars
  BY <1>4
<1>5. QED
  BY <1>1, <1>2, <1>3, <1>4 DEF LookupNext, PlanLookup, GoStale, lookupVars

-----------------------------------------------------------------------------
(***************************************************************************)
(* Types.                                                                  *)
(***************************************************************************)

\* Every transaction of the store keeps its types.
LEMMA TransactionType ==
  ASSUME UsageTypeOK, [Next]_creditVars
  PROVE  UsageTypeOK'
<1>1. CASE Tick \/ UNCHANGED creditVars
  BY <1>1 DEF Tick, creditVars, UsageTypeOK
<1>2. CASE ReleaseExpired
  BY <1>2, ReleaseType DEF ReleaseExpired, ExpiredRows
<1>3. QED
  BY <1>1, <1>2, GrantType, ReserveType, ConsumeType, ReleaseType DEF Next

\* Saving a bundle keeps the types of the cache, and no response is lost.
LEMMA SaveBundleType ==
  ASSUME LookupTypeOK, NEW o \in Owners, NEW C \in SUBSET Candidates,
         NEW answer \in [C -> [Parts -> Answers]], SaveBundle(o, answer)
  PROVE  /\ raw' \in [Rows -> [Parts -> PartRecord]]
         /\ fresh' \in [Owners -> SUBSET Candidates]
         /\ \A r \in Rows, p \in Parts : raw[r][p].seen \subseteq raw'[r][p].seen
<1>1. ASSUME NEW r \in Rows, NEW p \in Parts
      PROVE  /\ raw'[r][p] \in PartRecord
             /\ raw[r][p].seen \subseteq raw'[r][p].seen
  <2>1. raw[r][p] \in PartRecord
    BY DEF LookupTypeOK
  <2>2. CASE /\ r[1] = o /\ r[2] \in DOMAIN answer
             /\ answer[r[2]][p] \notin raw[r][p].seen
    <3>1. raw'[r][p] = [seen |-> raw[r][p].seen \cup {answer[r[2]][p]},
                        newest |-> answer[r[2]][p]]
      BY <2>2 DEF SaveBundle
    <3>2. answer[r[2]][p] \in Answers
      BY <2>2
    <3>3. QED  BY <2>1, <3>1, <3>2 DEF PartRecord
  <2>3. CASE ~(/\ r[1] = o /\ r[2] \in DOMAIN answer
               /\ answer[r[2]][p] \notin raw[r][p].seen)
    <3>1. raw'[r][p] = raw[r][p]
      BY <2>3 DEF SaveBundle
    <3>2. QED  BY <2>1, <3>1
  <2>4. QED  BY <2>2, <2>3
<1>2. raw' = [r \in Rows |-> [p \in Parts |-> raw'[r][p]]]
  BY DEF SaveBundle
<1>3. raw' \in [Rows -> [Parts -> PartRecord]]
  BY <1>1, <1>2
<1>4. fresh' \in [Owners -> SUBSET Candidates]
  BY DEF SaveBundle, LookupTypeOK
<1>5. QED  BY <1>1, <1>3, <1>4

\* A complete answer is an answer.
LEMMA AllOkType ==
  ASSUME NEW C \in SUBSET Candidates
  PROVE  AllOk(C) \in [C -> [Parts -> Answers]]
BY DEF AllOk, Answers

-----------------------------------------------------------------------------
(***************************************************************************)
(* The steps of a request.                                                 *)
(***************************************************************************)

\* A charged revision stays charged, whatever transaction follows.
LEMMA ChargeIsKept ==
  ASSUME UsageTypeOK, [Next]_creditVars
  PROVE  \A r \in Rows : reservations[r].state = "consumed"
                           => reservations'[r].state = "consumed"
<1> SUFFICES ASSUME NEW r \in Rows, reservations[r].state = "consumed"
             PROVE  reservations'[r].state = "consumed"
  OBVIOUS
<1>1. ASSUME NEW o \in Owners, NEW batch \in SUBSET Candidates, NEW policy,
             Reserve(o, batch, policy)
      PROVE  reservations'[r] = reservations[r]
  <2>1. \A c \in AcceptedOf(o, batch, policy) : reservations[<<o, c>>].state # "consumed"
    BY AcceptedArePending DEF PendingOf
  <2>2. ~(r[1] = o /\ r[2] \in AcceptedOf(o, batch, policy))
    BY <2>1 DEF Rows
  <2>3. QED  BY <1>1, <2>2 DEF Reserve
<1>2. ASSUME NEW S, Consume(S) \/ Release(S)
      PROVE  reservations'[r] = reservations[r]
  BY <1>2 DEF Consume, Release
<1>3. CASE ReleaseExpired
  BY <1>2, <1>3 DEF ReleaseExpired
<1>4. QED
  BY <1>1, <1>2, <1>3 DEF Next, Grant, Tick, creditVars

\* After a debit every row that was to be settled is charged, and no other
\* row is charged that was not.
LEMMA ConsumeCharges ==
  ASSUME UsageTypeOK, NEW S \in SUBSET Rows, Consume(S)
  PROVE  /\ \A r \in S : reservations'[r].state = "consumed"
         /\ \A r \in Rows \ S : reservations'[r] = reservations[r]
<1>1. ASSUME NEW r \in S
      PROVE  reservations'[r].state = "consumed"
  <2>1. r \in Rows /\ reservations[r] \in ReservationRow
    BY DEF UsageTypeOK
  <2>2. reservations[r].state \in {"reserved", "consumed"}
    BY DEF Consume, ConsumeRefused
  <2>3. CASE reservations[r].state = "reserved"
    BY <2>1, <2>3 DEF Consume, ReservationRow
  <2>4. CASE reservations[r].state = "consumed"
    BY <2>1, <2>4 DEF Consume
  <2>5. QED  BY <2>2, <2>3, <2>4
<1>2. QED  BY <1>1 DEF Consume

\* Only a debit charges a row.
LEMMA OthersChargeNothing ==
  ASSUME UsageTypeOK,
         \/ \E S \in SUBSET Rows : Release(S)
         \/ \E o \in Owners, batch \in SUBSET Candidates, policy \in PartialBatchPolicies :
              Reserve(o, batch, policy)
         \/ UNCHANGED reservations
  PROVE  \A r \in Rows : reservations'[r].state = "consumed" => reservations[r].state = "consumed"
<1> SUFFICES ASSUME NEW r \in Rows, reservations'[r].state = "consumed"
             PROVE  reservations[r].state = "consumed"
  OBVIOUS
<1>1. reservations[r] \in ReservationRow
  BY DEF UsageTypeOK
<1>2. ASSUME NEW S \in SUBSET Rows, Release(S)
      PROVE  reservations[r].state = "consumed"
  <2>1. CASE r \in S /\ reservations[r].state = "reserved"
    <3>1. reservations'[r].state = "released"
      BY <1>1, <1>2, <2>1 DEF Release, ReservationRow
    <3>2. QED  BY <3>1
  <2>2. CASE ~(r \in S /\ reservations[r].state = "reserved")
    BY <1>2, <2>2 DEF Release
  <2>3. QED  BY <2>1, <2>2
<1>3. ASSUME NEW o \in Owners, NEW batch \in SUBSET Candidates,
             NEW policy \in PartialBatchPolicies, Reserve(o, batch, policy)
      PROVE  reservations[r].state = "consumed"
  BY <1>3 DEF Reserve
<1>4. QED  BY <1>2, <1>3

\* What a request reserves is its to settle; what the store returns to it
\* without a reservation has been charged.
LEMMA ReserveUsageJob ==
  ASSUME LookupTypeOK, UsageTypeOK', RequestsAreSound, NEW j \in Jobs, NEW policy,
         ReserveUsage(j, policy)
  PROVE  /\ jobs'[j] \in JobState /\ jobs'[j].step # "new"
         /\ jobs'[j].owner = jobs[j].owner /\ jobs'[j].owner \in Owners
         /\ jobs'[j].persist = jobs[j].persist
         /\ jobs'[j].held \subseteq jobs'[j].fetch
         /\ \A c \in jobs'[j].fetch \ jobs'[j].held :
              reservations'[<<jobs'[j].owner, c>>].state = "consumed"
<1> DEFINE o == jobs[j].owner
           batch == jobs[j].requested \ jobs[j].existing
           returned == {c \in batch : reservations'[<<o, c>>].state \in {"reserved", "consumed"}}
           held == {c \in returned : reservations'[<<o, c>>].state = "reserved"}
<1>1. jobs[j] \in JobState /\ o \in Owners
  BY DEF ReserveUsage, RequestsAreSound, LookupTypeOK
<1>2. jobs' = [jobs EXCEPT ![j].step = "reserved", ![j].fetch = returned, ![j].held = held]
  BY DEF ReserveUsage
<1>3. returned \in SUBSET Candidates /\ held \in SUBSET Candidates
  BY <1>1 DEF JobState
<1> HIDE DEF returned, held
<1>4. jobs'[j] = [jobs[j] EXCEPT !.step = "reserved", !.fetch = returned, !.held = held]
  BY <1>2 DEF LookupTypeOK
<1>5. /\ jobs'[j].step = "reserved" /\ jobs'[j].fetch = returned /\ jobs'[j].held = held
      /\ jobs'[j].owner = o /\ jobs'[j].persist = jobs[j].persist
  BY <1>1, <1>4 DEF JobState
<1>6. jobs'[j] \in JobState
  BY <1>1, <1>3, <1>4 DEF JobState, Steps
<1>7. held \subseteq returned
      /\ \A c \in returned \ held : reservations'[<<o, c>>].state = "consumed"
  BY DEF returned, held
<1>8. QED  BY <1>1, <1>5, <1>6, <1>7

\* Once it has started, a request moves from step to step and keeps what it knows.
LEMMA LookupStepJob ==
  ASSUME LookupTypeOK, NEW j \in Jobs, LookupStep(j)
  PROVE  /\ jobs[j].step # "new"
         /\ \E step \in Steps \ {"new"} : GoTo(j, step)
BY DEF LookupStep, RefuseUsage, Fetch, SaveAndCharge, SaveDuplicate, SaveFails, SavePartial,
       GiveBack, Die, Steps, LookupTypeOK, JobState

\* The requests themselves, whatever happens to the store.
LEMMA RequestsStep ==
  ASSUME LookupInv, UsageTypeOK', [LookupNext]_lookupVars
  PROVE  jobs' \in [Jobs -> JobState] /\ RequestsAreSound' /\ (OnlyImports' => OnlyImports)
<1>1. \A r \in Rows : reservations[r].state = "consumed" => reservations'[r].state = "consumed"
  BY LookupStepsAreTransactions, ChargeIsKept DEF LookupInv, LookupTypeOK
<1> DEFINE Sound(j) ==
      /\ jobs'[j] \in JobState
      /\ IF jobs'[j].step = "new" THEN ~jobs'[j].persist /\ jobs'[j].held = {}
         ELSE /\ jobs'[j].owner \in Owners
              /\ jobs'[j].held \subseteq jobs'[j].fetch
              /\ \A c \in jobs'[j].fetch \ jobs'[j].held :
                   reservations'[<<jobs'[j].owner, c>>].state = "consumed"
      /\ ~jobs'[j].persist => ~jobs[j].persist
<1>2. ASSUME NEW j \in Jobs, jobs'[j] = jobs[j]
      PROVE  Sound(j)
  <2>1. jobs[j] \in JobState
    BY DEF LookupInv, LookupTypeOK
  <2>2. ASSUME jobs[j].step # "new", NEW c \in jobs[j].fetch \ jobs[j].held
        PROVE  reservations'[<<jobs[j].owner, c>>].state = "consumed"
    <3>1. reservations[<<jobs[j].owner, c>>].state = "consumed" /\ jobs[j].owner \in Owners
      BY <2>2 DEF LookupInv, RequestsAreSound
    <3>2. <<jobs[j].owner, c>> \in Rows
      BY <2>1, <3>1 DEF JobState, Rows
    <3>3. QED  BY <1>1, <3>1, <3>2
  <2>3. QED  BY <1>2, <2>1, <2>2 DEF LookupInv, RequestsAreSound
<1>3. ASSUME NEW j \in Jobs, NEW step \in Steps \ {"new"}, jobs[j].step # "new", GoTo(j, step)
      PROVE  Sound(j)
  <2>1. jobs[j] \in JobState
    BY DEF LookupInv, LookupTypeOK
  <2>2. jobs'[j] = [jobs[j] EXCEPT !.step = step]
    BY <1>3 DEF GoTo, LookupInv, LookupTypeOK
  <2>3. /\ jobs'[j].owner = jobs[j].owner /\ jobs'[j].held = jobs[j].held
        /\ jobs'[j].fetch = jobs[j].fetch /\ jobs'[j].persist = jobs[j].persist
        /\ jobs'[j].step # "new" /\ jobs'[j] \in JobState
    BY <2>1, <2>2 DEF JobState
  <2>4. /\ jobs[j].owner \in Owners /\ jobs[j].held \subseteq jobs[j].fetch
        /\ \A c \in jobs[j].fetch \ jobs[j].held :
             reservations[<<jobs[j].owner, c>>].state = "consumed"
    BY <1>3 DEF LookupInv, RequestsAreSound
  <2>5. \A c \in jobs[j].fetch : <<jobs[j].owner, c>> \in Rows
    BY <2>1, <2>4 DEF JobState, Rows
  <2>6. QED  BY <1>1, <2>3, <2>4, <2>5
<1>4. ASSUME NEW j \in Jobs, NEW o \in Owners, NEW R \in SUBSET Candidates,
             NEW persist \in BOOLEAN, PlanLookup(j, o, R, persist)
      PROVE  Sound(j)
  <2>1. jobs'[j] = [step |-> IF R \subseteq Cached(o) THEN "done" ELSE "planned",
          owner |-> o, requested |-> R, persist |-> persist,
          existing |-> R \cap Cached(o), fetch |-> {}, held |-> {}]
    BY <1>4 DEF PlanLookup, LookupInv, LookupTypeOK
  <2>2. R \cap Cached(o) \in SUBSET Candidates
    OBVIOUS
  <2>3. jobs'[j] \in JobState
    BY <2>1, <2>2 DEF JobState, Steps
  <2>4. jobs[j].step = "new" /\ ~jobs[j].persist
    BY <1>4 DEF PlanLookup, LookupInv, RequestsAreSound
  <2>5. QED  BY <2>1, <2>3, <2>4
<1>5. ASSUME NEW j \in Jobs, NEW policy, ReserveUsage(j, policy)
      PROVE  Sound(j)
  BY <1>5, ReserveUsageJob DEF LookupInv
<1>6. \A j \in Jobs : Sound(j)
  <2>1. ASSUME NEW j \in Jobs, NEW i \in Jobs, LookupStep(j)
        PROVE  Sound(i)
    <3>1. i # j => jobs'[i] = jobs[i]
      BY <2>1, LookupStepJob DEF GoTo, LookupInv, LookupTypeOK
    <3>2. QED  BY <1>2, <1>3, <2>1, <3>1, LookupStepJob DEF LookupInv
  <2>2. ASSUME NEW j \in Jobs, NEW i \in Jobs, NEW o \in Owners, NEW R \in SUBSET Candidates,
               NEW persist \in BOOLEAN, PlanLookup(j, o, R, persist)
        PROVE  Sound(i)
    <3>1. i # j => jobs'[i] = jobs[i]
      BY <2>2 DEF PlanLookup, LookupInv, LookupTypeOK
    <3>2. QED  BY <1>2, <1>4, <2>2, <3>1
  <2>3. ASSUME NEW j \in Jobs, NEW i \in Jobs, NEW policy, ReserveUsage(j, policy)
        PROVE  Sound(i)
    <3>1. i # j => jobs'[i] = jobs[i]
      BY <2>3 DEF ReserveUsage, LookupInv, LookupTypeOK
    <3>2. QED  BY <1>2, <1>5, <2>3, <3>1
  <2>4. CASE UNCHANGED jobs
    BY <1>2, <2>4
  <2>5. QED
    BY <2>1, <2>2, <2>3, <2>4
    DEF LookupNext, GoStale, SweepLeases, ClockTicks, IssueGrant, lookupVars
<1>7. jobs' = [j \in Jobs |-> jobs'[j]]
  <2>1. ASSUME NEW j \in Jobs, LookupStep(j)
        PROVE  jobs' = [i \in Jobs |-> jobs'[i]]
    BY <2>1, LookupStepJob DEF GoTo, LookupInv, LookupTypeOK
  <2>2. QED
    BY <2>1
    DEF LookupNext, PlanLookup, ReserveUsage, GoStale, SweepLeases, ClockTicks, IssueGrant,
        lookupVars, LookupInv, LookupTypeOK
<1>8. QED  BY <1>6, <1>7 DEF RequestsAreSound, OnlyImports

-----------------------------------------------------------------------------
(***************************************************************************)
(* The snapshots.                                                          *)
(***************************************************************************)

\* The responses on record and their age, after a step that does not save.
LEMMA SavesNothing ==
  ASSUME LookupTypeOK, [LookupNext]_lookupVars,
         ~\E j \in Jobs : SaveAndCharge(j) \/ SavePartial(j)
  PROVE  raw' = raw /\ fresh' \in [Owners -> SUBSET Candidates]
<1>1. ASSUME NEW j \in Jobs, LookupStep(j)
      PROVE  raw' = raw /\ fresh' = fresh
  BY <1>1 DEF LookupStep, RefuseUsage, Fetch, SaveDuplicate, SaveFails, GiveBack, Die
<1>2. ASSUME NEW o \in Owners, NEW c \in Candidates, GoStale(o, c)
      PROVE  raw' = raw /\ fresh' \in [Owners -> SUBSET Candidates]
  BY <1>2 DEF GoStale, LookupTypeOK
<1>3. QED
  BY <1>1, <1>2
  DEF LookupNext, PlanLookup, ReserveUsage, SweepLeases, ClockTicks, IssueGrant, lookupVars,
      LookupTypeOK

\* After a complete bundle is saved, every response of its revisions has
\* succeeded once; the record of any other revision is as it was.
LEMMA BundleIsOnRecord ==
  ASSUME LookupTypeOK, NEW o \in Owners, NEW C \in SUBSET Candidates,
         SaveBundle(o, AllOk(C))
  PROVE  /\ \A c \in C, p \in Parts : "ok" \in raw'[<<o, c>>][p].seen
         /\ \A r \in Rows \ ({o} \X C) : raw'[r] = raw[r]
<1>1. AllOk(C) \in [C -> [Parts -> Answers]] /\ \A c \in C, p \in Parts : AllOk(C)[c][p] = "ok"
  BY DEF AllOk, Answers
<1>2. ASSUME NEW c \in C, NEW p \in Parts
      PROVE  "ok" \in raw'[<<o, c>>][p].seen
  <2>1. <<o, c>> \in Rows /\ <<o, c>>[1] = o /\ <<o, c>>[2] = c
    BY DEF Rows
  <2>2. CASE "ok" \notin raw[<<o, c>>][p].seen
    BY <1>1, <2>1, <2>2 DEF SaveBundle
  <2>3. CASE "ok" \in raw[<<o, c>>][p].seen
    BY <1>1, <2>1, <2>3 DEF SaveBundle
  <2>4. QED  BY <2>2, <2>3
<1>3. ASSUME NEW r \in Rows \ ({o} \X C)
      PROVE  raw'[r] = raw[r]
  <2>1. ~(r[1] = o /\ r[2] \in DOMAIN AllOk(C))
    BY <1>1 DEF Rows
  <2>2. raw'[r] = [p \in Parts |-> raw[r][p]]
    BY <2>1 DEF SaveBundle
  <2>3. QED  BY <2>2 DEF LookupTypeOK
<1>4. QED  BY <1>2, <1>3

\* A revision is charged in the transaction that puts it on record.
LEMMA SaveAndChargeStep ==
  ASSUME LookupInv, NEW j \in Jobs, SaveAndCharge(j)
  PROVE  /\ raw' \in [Rows -> [Parts -> PartRecord]]
         /\ fresh' \in [Owners -> SUBSET Candidates]
         /\ ChargedOnlyIfSaved'
         /\ \A r \in Rows : CompleteOnRecord(r)' =>
              reservations'[r].state = "consumed" \/ CompleteOnRecord(r)
<1> DEFINE o == jobs[j].owner
           C == jobs[j].fetch
<1>1. o \in Owners /\ C \in SUBSET Candidates /\ jobs[j].held \subseteq C
  BY DEF SaveAndCharge, LookupInv, RequestsAreSound, LookupTypeOK, JobState
<1>2. LookupTypeOK /\ UsageTypeOK /\ SaveBundle(o, AllOk(C)) /\ Consume(HeldRows(j))
  BY DEF LookupInv, LookupTypeOK, SaveAndCharge
<1>3. HeldRows(j) \in SUBSET Rows /\ HeldRows(j) = {o} \X jobs[j].held
  BY HeldRowsAreRows DEF LookupInv, HeldRows
<1>4. /\ \A r \in HeldRows(j) : reservations'[r].state = "consumed"
      /\ \A r \in Rows \ HeldRows(j) : reservations'[r] = reservations[r]
  BY <1>2, <1>3, ConsumeCharges
<1>5. /\ raw' \in [Rows -> [Parts -> PartRecord]] /\ fresh' \in [Owners -> SUBSET Candidates]
      /\ \A r \in Rows, p \in Parts : raw[r][p].seen \subseteq raw'[r][p].seen
  BY <1>1, <1>2, AllOkType, SaveBundleType
<1>6. /\ \A c \in C, p \in Parts : "ok" \in raw'[<<o, c>>][p].seen
      /\ \A r \in Rows \ ({o} \X C) : raw'[r] = raw[r]
  BY <1>1, <1>2, BundleIsOnRecord
<1> HIDE DEF o, C
<1>7. ASSUME NEW r \in Rows, reservations'[r].state = "consumed", NEW p \in Parts
      PROVE  "ok" \in raw'[r][p].seen
  <2>1. CASE r \in HeldRows(j)
    BY <1>1, <1>3, <1>6, <2>1
  <2>2. CASE r \notin HeldRows(j)
    BY <1>4, <1>5, <1>7, <2>2 DEF LookupInv, ChargedOnlyIfSaved
  <2>3. QED  BY <2>1, <2>2
<1>8. ASSUME NEW r \in Rows, CompleteOnRecord(r)'
      PROVE  reservations'[r].state = "consumed" \/ CompleteOnRecord(r)
  <2>1. CASE r \in HeldRows(j)
    BY <1>4, <2>1
  <2>2. CASE r \in ({o} \X C) \ HeldRows(j)
    <3>1. PICK c \in C : r = <<o, c>> /\ c \notin jobs[j].held
      BY <1>3, <2>2
    <3>2. reservations[r].state = "consumed"
      BY <3>1 DEF LookupInv, RequestsAreSound, SaveAndCharge, o, C
    <3>3. QED  BY <1>4, <2>2, <3>2
  <2>3. CASE r \notin {o} \X C
    <3>1. raw'[r] = raw[r]
      BY <1>6, <2>3
    <3>2. QED  BY <1>8, <3>1 DEF CompleteOnRecord
  <2>4. QED  BY <2>1, <2>2, <2>3
<1>9. QED  BY <1>5, <1>7, <1>8 DEF ChargedOnlyIfSaved

\* A lookup that keeps an incomplete bundle charges nothing.
LEMMA SavePartialStep ==
  ASSUME LookupInv, NEW j \in Jobs, SavePartial(j)
  PROVE  /\ raw' \in [Rows -> [Parts -> PartRecord]]
         /\ fresh' \in [Owners -> SUBSET Candidates]
         /\ ChargedOnlyIfSaved' /\ ~OnlyImports
<1>1. LookupTypeOK /\ UsageTypeOK /\ jobs[j].persist /\ Release(HeldRows(j))
  BY DEF LookupInv, LookupTypeOK, SavePartial
<1>2. jobs[j].owner \in Owners /\ jobs[j].fetch \in SUBSET Candidates
  BY DEF SavePartial, LookupInv, RequestsAreSound, LookupTypeOK, JobState
<1>3. PICK answer \in [jobs[j].fetch -> [Parts -> Answers]] : SaveBundle(jobs[j].owner, answer)
  BY DEF SavePartial
<1>4. /\ raw' \in [Rows -> [Parts -> PartRecord]] /\ fresh' \in [Owners -> SUBSET Candidates]
      /\ \A r \in Rows, p \in Parts : raw[r][p].seen \subseteq raw'[r][p].seen
  BY <1>1, <1>2, <1>3, SaveBundleType
<1>5. \A r \in Rows : reservations'[r].state = "consumed" => reservations[r].state = "consumed"
  BY <1>1, HeldRowsAreRows, OthersChargeNothing DEF LookupInv
<1>6. QED  BY <1>1, <1>4, <1>5 DEF LookupInv, ChargedOnlyIfSaved, OnlyImports

\* A step that saves nothing charges nothing either.
LEMMA OtherStepsChargeNothing ==
  ASSUME LookupInv, [LookupNext]_lookupVars,
         ~\E j \in Jobs : SaveAndCharge(j) \/ SavePartial(j)
  PROVE  \A r \in Rows : reservations'[r].state = "consumed" => reservations[r].state = "consumed"
<1> DEFINE Nothing == \A r \in Rows : reservations'[r].state = "consumed"
                                       => reservations[r].state = "consumed"
<1>1. UsageTypeOK
  BY DEF LookupInv, LookupTypeOK
<1>2. CASE UNCHANGED reservations
  BY <1>2
<1>3. ASSUME NEW S \in SUBSET Rows, Release(S)
      PROVE  Nothing
  BY <1>1, <1>3, OthersChargeNothing
<1>4. ASSUME NEW j \in Jobs, LookupStep(j)
      PROVE  Nothing
  <2>1. CASE Release(HeldRows(j))
    BY <1>3, <2>1, HeldRowsAreRows DEF LookupInv
  <2>2. Release(HeldRows(j)) \/ UNCHANGED reservations
    BY <1>4 DEF LookupStep, RefuseUsage, Fetch, SaveDuplicate, SaveFails, GiveBack, Die, creditVars
  <2>3. QED  BY <1>2, <2>1, <2>2
<1>5. ASSUME NEW j \in Jobs, NEW policy \in PartialBatchPolicies, ReserveUsage(j, policy)
      PROVE  Nothing
  <2>1. /\ jobs[j].owner \in Owners
        /\ jobs[j].requested \ jobs[j].existing \in SUBSET Candidates
        /\ Reserve(jobs[j].owner, jobs[j].requested \ jobs[j].existing, policy)
    BY <1>5 DEF ReserveUsage, LookupInv, RequestsAreSound, LookupTypeOK, JobState
  <2>2. QED  BY <1>1, <2>1, OthersChargeNothing
<1>6. CASE SweepLeases
  BY <1>3, <1>6 DEF SweepLeases, ReleaseExpired, ExpiredRows
<1>7. QED
  BY <1>2, <1>4, <1>5, <1>6
  DEF LookupNext, PlanLookup, GoStale, ClockTicks, IssueGrant, Grant, Tick, creditVars, lookupVars

\* Every step keeps the invariant.
LEMMA LookupInvStep ==
  ASSUME LookupInv, [LookupNext]_lookupVars
  PROVE  LookupInv'
<1>1. UsageTypeOK'
  BY LookupStepsAreTransactions, TransactionType DEF LookupInv, LookupTypeOK
<1>2. jobs' \in [Jobs -> JobState] /\ RequestsAreSound' /\ (OnlyImports' => OnlyImports)
  BY <1>1, RequestsStep
<1>3. \A r \in Rows : reservations[r].state = "consumed" => reservations'[r].state = "consumed"
  BY LookupStepsAreTransactions, ChargeIsKept DEF LookupInv, LookupTypeOK
<1>4. ASSUME NEW j \in Jobs, SaveAndCharge(j)
      PROVE  LookupInv'
  <2>1. CompleteIsCharged'
    BY <1>2, <1>3, <1>4, SaveAndChargeStep DEF LookupInv, CompleteIsCharged
  <2>2. QED  BY <1>1, <1>2, <1>4, <2>1, SaveAndChargeStep DEF LookupInv, LookupTypeOK
<1>5. ASSUME NEW j \in Jobs, SavePartial(j)
      PROVE  LookupInv'
  <2>1. CompleteIsCharged'
    BY <1>2, <1>5, SavePartialStep DEF CompleteIsCharged
  <2>2. QED  BY <1>1, <1>2, <1>5, <2>1, SavePartialStep DEF LookupInv, LookupTypeOK
<1>6. CASE ~\E j \in Jobs : SaveAndCharge(j) \/ SavePartial(j)
  <2>1. raw' = raw /\ fresh' \in [Owners -> SUBSET Candidates]
    BY <1>6, SavesNothing DEF LookupInv
  <2>2. ChargedOnlyIfSaved'
    BY <1>6, <2>1, OtherStepsChargeNothing DEF LookupInv, ChargedOnlyIfSaved
  <2>3. CompleteIsCharged'
    BY <1>2, <1>3, <2>1 DEF LookupInv, CompleteIsCharged, CompleteOnRecord
  <2>4. QED  BY <1>1, <1>2, <2>1, <2>2, <2>3 DEF LookupInv, LookupTypeOK
<1>7. QED  BY <1>4, <1>5, <1>6

-----------------------------------------------------------------------------
(***************************************************************************)
(* The theorems.                                                           *)
(***************************************************************************)

\* Whatever the requests, their deaths, the sweeps and the grants do, the
\* requests are sound, and what they put on record agrees with what they charge.
THEOREM RequestsAgreeWithStore == LookupSpec => []LookupInv
<1>1. LookupInit => LookupInv
  <2> SUFFICES ASSUME LookupInit  PROVE LookupInv
    OBVIOUS
  <2>1. UsageTypeOK
    BY DEF LookupInit, Init, UsageTypeOK, GrantRow, ReservationRow, ReservationStates, EntryTypes
  <2>2. jobs \in [Jobs -> JobState]
    BY DEF LookupInit, JobState, Steps
  <2>3. raw \in [Rows -> [Parts -> PartRecord]] /\ fresh \in [Owners -> SUBSET Candidates]
    BY DEF LookupInit, PartRecord
  <2>4. RequestsAreSound
    BY DEF LookupInit, RequestsAreSound
  <2>5. ChargedOnlyIfSaved
    BY DEF LookupInit, Init, ChargedOnlyIfSaved
  <2>6. \A r \in Rows : ~CompleteOnRecord(r)
    BY LookupAssumption DEF LookupInit, CompleteOnRecord, LookupAssumption
  <2>7. QED  BY <2>1, <2>2, <2>3, <2>4, <2>5, <2>6 DEF LookupInv, LookupTypeOK, CompleteIsCharged
<1>2. LookupInv /\ [LookupNext]_lookupVars => LookupInv'
  BY LookupInvStep
<1>3. QED  BY <1>1, <1>2, PTL DEF LookupSpec

\* The requests implement the credit store: however reservations, fetches,
\* debits, deaths and sweeps interleave, each step is a transaction of
\* UsageCredits or leaves the store alone.
THEOREM LookupImplementsCredits == LookupSpec => Spec
<1>1. LookupInit => Init
  BY DEF LookupInit
<1>2. LookupInv /\ [LookupNext]_lookupVars => [Next]_creditVars
  BY LookupStepsAreTransactions DEF LookupInv
<1>3. QED  BY <1>1, <1>2, RequestsAgreeWithStore, PTL DEF LookupSpec, Spec

\* The types of a request's state and of the snapshots on record.
THEOREM LookupTypeCorrect == LookupSpec => []LookupTypeOK
<1>1. LookupInv => LookupTypeOK
  BY DEF LookupInv
<1>2. QED  BY <1>1, RequestsAgreeWithStore, PTL

\* A revision that was charged is on record: no interleaving of requests that
\* share, lose or settle its reservation debits it without its snapshot.
THEOREM ChargedRevisionsAreSaved == LookupSpec => []ChargedOnlyIfSaved
<1>1. LookupInv => ChargedOnlyIfSaved
  BY DEF LookupInv
<1>2. QED  BY <1>1, RequestsAgreeWithStore, PTL

\* While every request is an import, the cache serves nothing without a
\* reservation that was not charged before.
THEOREM ImportsAreCharged == LookupSpec => []ImportsServeOnlyCharged
<1>1. LookupInv => ImportsServeOnlyCharged
  <2> SUFFICES ASSUME LookupInv, OnlyImports, NEW o \in Owners, NEW c \in Cached(o)
               PROVE  reservations[<<o, c>>].state = "consumed"
    BY DEF ImportsServeOnlyCharged, ServedRevisionIsCharged, OnlyImports
  <2>1. c \in Candidates /\ CompleteOnRecord(<<o, c>>)
    BY DEF Cached, LookupInv, LookupTypeOK
  <2>2. <<o, c>> \in Rows
    BY <2>1 DEF Rows
  <2>3. QED  BY <2>1, <2>2 DEF LookupInv, CompleteIsCharged
<1>2. QED  BY <1>1, RequestsAgreeWithStore, PTL

\* The books of the credit store are right under the requests: counters that
\* agree with the rows and the ledger, no grant over-reserved, no foreign charge.
THEOREM LookupKeepsBooks == LookupSpec => [](UsageTypeOK /\ Books) /\ ConsumedIsFinal
BY LookupImplementsCredits, TypeCorrect, BooksAreKept, ChargesAreFinal, PTL

=============================================================================
