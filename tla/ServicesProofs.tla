--------------------------- MODULE ServicesProofs ---------------------------
(***************************************************************************)
(* Proofs about the parts that MCServices runs side by side, for any values *)
(* of their constants: an organisation keeps a manager, and nobody comes in *)
(* without a seat; no editor of a Word template replaces what they have not *)
(* seen, and the retention sweep takes nothing that was published or       *)
(* restored; no server process takes a websocket event for read that it did *)
(* not come to; an import that was reported complete is complete, each     *)
(* revision once; what an import session commits was decided as committed. *)
(***************************************************************************)
EXTENDS Organization, TemplateCatalog, EventBroker, ImportSession, ImportOperation,
        FiniteSetTheorems, SequenceTheorems, TLAPS

-----------------------------------------------------------------------------
(***************************************************************************)
(* The organisation.                                                       *)
(***************************************************************************)

\* The states of an organisation: the types, and a manager among its members.
WellManaged == OrganizationTypeOK /\ ManagerRemains

\* An organisation starts with its owner as its manager.
LEMMA OrganizationStart == OrganizationInit => WellManaged
<1> SUFFICES ASSUME OrganizationInit  PROVE WellManaged
  OBVIOUS
<1> USE OrganizationAssumption DEF OrganizationAssumption
<1>1. OrganizationTypeOK
  BY DEF OrganizationInit, OrganizationTypeOK, NotAMember, NoInvitation, Actors
<1>2. Owner \in Managers
  BY DEF OrganizationInit, Managers
<1>3. QED  BY <1>1, <1>2 DEF WellManaged, ManagerRemains

-----------------------------------------------------------------------------
(***************************************************************************)
(* Types.                                                                  *)
(***************************************************************************)

\* Invitations change in their status, their inviter and their age.
LEMMA InvitationStepType ==
  ASSUME OrganizationTypeOK,
         NEW a \in Actors, NEW u \in Users,
         \/ AuthoriseInvitation(a, u) \/ StoreInvitation(a, u) \/ RevokeInvitation(a, u)
         \/ InvitationExpires(u) \/ DeclineInvitation(u)
  PROVE  OrganizationTypeOK' /\ member' = member
<1> USE DEF OrganizationTypeOK, SetInvitation
<1>1. CASE AuthoriseInvitation(a, u)  BY <1>1 DEF AuthoriseInvitation
<1>2. CASE StoreInvitation(a, u)      BY <1>2 DEF StoreInvitation
<1>3. CASE RevokeInvitation(a, u)     BY <1>3 DEF RevokeInvitation
<1>4. CASE InvitationExpires(u)       BY <1>4 DEF InvitationExpires
<1>5. CASE DeclineInvitation(u)       BY <1>5 DEF DeclineInvitation
<1>6. QED  BY <1>1, <1>2, <1>3, <1>4, <1>5

\* An accepted invitation is answered, and at most one row becomes a member's.
LEMMA AcceptStep ==
  ASSUME OrganizationTypeOK, NEW u \in Users, AcceptInvitation(u)
  PROVE  /\ OrganizationTypeOK'
         /\ member' = member \/ (~member[u].active /\ Activate(u))
<1> USE DEF OrganizationTypeOK, SetInvitation
<1>1. /\ invite' \in [Users -> [status: {"none", "pending", "accepted", "declined", "revoked"},
                                by: Actors, expired: BOOLEAN]]
      /\ UNCHANGED <<account, seats, trial, inviting>>
  <2>1. UNCHANGED <<account, seats, trial, inviting>>
    BY DEF AcceptInvitation
  <2>2. CASE SetInvitation(u, "revoked")   BY <2>1, <2>2
  <2>3. CASE SetInvitation(u, "accepted")  BY <2>1, <2>3
  <2>4. QED  BY <2>2, <2>3 DEF AcceptInvitation
<1>2. member' = member \/ (~member[u].active /\ Activate(u))
  BY DEF AcceptInvitation
<1>3. member' \in [Users -> [role: {"none", "employee", "manager"}, active: BOOLEAN]]
  <2>1. CASE member' = member
    BY <2>1
  <2>2. CASE member' = [member EXCEPT ![u] = [role |-> "employee", active |-> TRUE]]
    BY <2>2
  <2>3. QED  BY <1>2, <2>1, <2>2 DEF Activate
<1>4. QED  BY <1>1, <1>2, <1>3

-----------------------------------------------------------------------------
(***************************************************************************)
(* Managers.                                                               *)
(***************************************************************************)

\* Who counts the managers and finds more than one leaves one behind.
LEMMA AnotherManager ==
  ASSUME NEW u, Cardinality(Managers) > 1
  PROVE  \E m \in Managers : m # u
<1>1. IsFiniteSet(Managers)
  BY OrganizationAssumption, FS_Subset DEF Managers, OrganizationAssumption
<1> SUFFICES ASSUME Managers \subseteq {u}  PROVE FALSE
  OBVIOUS
<1>2. IsFiniteSet({u}) /\ Cardinality({u}) = 1
  BY FS_Singleton
<1>3. Cardinality(Managers) <= 1
  BY <1>2, FS_Subset
<1>4. Cardinality(Managers) \in Nat
  BY <1>1, FS_CardinalityType
<1>5. QED  BY <1>3, <1>4

\* Whose row does not change keeps the role.
LEMMA ManagersPersist ==
  ASSUME NEW m \in Managers, member'[m] = member[m]
  PROVE  m \in Managers'
BY DEF Managers

\* Setting a role, whoever may do it, spares one manager.
LEMMA RoleStep ==
  ASSUME WellManaged, NEW u \in Users, NEW role \in {"employee", "manager"},
         OwnerSetsRole(u, role) \/ PlatformSetsRole(u, role)
  PROVE  WellManaged' /\ ActiveMembers' = ActiveMembers
<1> USE DEF WellManaged
<1>1. /\ member' = [member EXCEPT ![u].role = role]
      /\ UNCHANGED <<account, seats, trial, invite, inviting>>
      /\ member[u].role = "manager" /\ role = "employee" => Cardinality(Managers) > 1
  BY DEF OwnerSetsRole, PlatformSetsRole
<1>2. OrganizationTypeOK'
  BY <1>1 DEF OrganizationTypeOK
<1>3. ActiveMembers' = ActiveMembers
  BY <1>1 DEF ActiveMembers, OrganizationTypeOK
<1>4. Managers' # {}
  <2>1. PICK m \in Managers : u \notin Managers \/ role = "manager" \/ m # u
    <3>1. CASE u \in Managers /\ role = "employee"
      <4>1. Cardinality(Managers) > 1
        BY <1>1, <3>1 DEF Managers
      <4>2. QED  BY <3>1, <4>1, AnotherManager
    <3>2. CASE u \notin Managers \/ role = "manager"
      BY <3>2 DEF ManagerRemains
    <3>3. QED  BY <3>1, <3>2
  <2>2. CASE m # u
    BY <1>1, <2>2, ManagersPersist DEF Managers, OrganizationTypeOK
  <2>3. CASE m = u
    BY <1>1, <2>1, <2>3 DEF Managers, OrganizationTypeOK
  <2>4. QED  BY <2>2, <2>3
<1>5. QED  BY <1>2, <1>3, <1>4 DEF ManagerRemains

\* A removal spares one manager, and nobody comes in.
LEMMA RemovalStep ==
  ASSUME WellManaged, NEW a \in Actors, NEW u \in Users, RemoveMember(a, u)
  PROVE  WellManaged' /\ ActiveMembers' \subseteq ActiveMembers
<1> USE DEF WellManaged
<1>1. /\ member' = [member EXCEPT ![u].active = FALSE]
      /\ UNCHANGED <<account, seats, trial, invite, inviting>>
      /\ u \in Managers => Cardinality(Managers) > 1
  BY DEF RemoveMember, SparesManager
<1>2. OrganizationTypeOK'
  BY <1>1 DEF OrganizationTypeOK
<1>3. ActiveMembers' \subseteq ActiveMembers
  BY <1>1 DEF ActiveMembers, OrganizationTypeOK
<1>4. PICK m \in Managers : m # u
  BY <1>1, AnotherManager DEF ManagerRemains
<1>5. m \in Managers'
  BY <1>1, <1>4, ManagersPersist DEF Managers, OrganizationTypeOK
<1>6. QED  BY <1>2, <1>3, <1>5 DEF ManagerRemains

-----------------------------------------------------------------------------
(***************************************************************************)
(* Seats.                                                                  *)
(***************************************************************************)

\* Who is activated was counted as one more.
LEMMA ActivationTakesASeat ==
  ASSUME WellManaged, NEW u \in Users, ~member[u].active, Activate(u), seats' = seats
  PROVE  /\ member' \in [Users -> [role: {"none", "employee", "manager"}, active: BOOLEAN]]
         /\ ManagerRemains'
         /\ ~trial => Cardinality(ActiveMembers') <= seats'
<1> USE DEF WellManaged
<1>1. member' = [member EXCEPT ![u] = [role |-> "employee", active |-> TRUE]]
  BY DEF Activate
<1>2. ActiveMembers' = ActiveMembers \cup {u}
  BY <1>1 DEF ActiveMembers, OrganizationTypeOK
<1>3. IsFiniteSet(ActiveMembers)
  BY OrganizationAssumption, FS_Subset DEF ActiveMembers, OrganizationAssumption
<1>4. Cardinality(ActiveMembers') = Cardinality(ActiveMembers) + 1
  BY <1>2, <1>3, FS_AddElement DEF ActiveMembers
<1>5. Cardinality(ActiveMembers) \in Nat /\ seats \in Nat
  BY <1>3, FS_CardinalityType, OrganizationAssumption
     DEF OrganizationTypeOK, OrganizationAssumption
<1>6. ~trial => Cardinality(ActiveMembers) < seats
  BY DEF Activate, SeatLeft
<1>7. PICK m \in Managers : m # u
  BY DEF ManagerRemains, Managers
<1>8. m \in Managers'
  BY <1>1, <1>7, ManagersPersist DEF Managers, OrganizationTypeOK
<1>9. member' \in [Users -> [role: {"none", "employee", "manager"}, active: BOOLEAN]]
  BY <1>1 DEF OrganizationTypeOK
<1>10. ~trial => Cardinality(ActiveMembers') <= seats'
  BY <1>4, <1>5, <1>6
<1>11. QED  BY <1>8, <1>9, <1>10 DEF ManagerRemains

-----------------------------------------------------------------------------
\* Who comes in with this step, if anybody, has a seat or comes in on trial.
Seated ==
  ~trial /\ ActiveMembers' \ ActiveMembers # {} => Cardinality(ActiveMembers') <= seats

\* Every step keeps the organisation managed and seats whoever comes in.
LEMMA OrganizationStep == WellManaged /\ OrganizationNext => WellManaged' /\ Seated
<1> SUFFICES ASSUME WellManaged, OrganizationNext  PROVE WellManaged' /\ Seated
  OBVIOUS
<1>a. ASSUME member' = member  PROVE (ManagerRemains => ManagerRemains') /\ Seated
  BY <1>a DEF ManagerRemains, Managers, Seated, ActiveMembers
<1>1. ASSUME NEW a \in Actors, NEW u \in Users,
             \/ AuthoriseInvitation(a, u) \/ StoreInvitation(a, u) \/ RevokeInvitation(a, u)
             \/ InvitationExpires(u) \/ DeclineInvitation(u)
      PROVE  WellManaged' /\ Seated
  BY <1>a, <1>1, InvitationStepType DEF WellManaged
<1>2. ASSUME NEW u \in Users, AcceptInvitation(u)
      PROVE  WellManaged' /\ Seated
  <2>1. OrganizationTypeOK' /\ seats' = seats
    BY <1>2, AcceptStep DEF WellManaged, AcceptInvitation
  <2>2. CASE member' = member
    BY <1>a, <2>1, <2>2 DEF WellManaged
  <2>3. CASE ~member[u].active /\ Activate(u)
    BY <2>1, <2>3, ActivationTakesASeat DEF WellManaged, Seated
  <2>4. QED  BY <1>2, <2>2, <2>3, AcceptStep DEF WellManaged
<1>3. ASSUME NEW a \in Actors, NEW u \in Users, AddMember(a, u)
      PROVE  WellManaged' /\ Seated
  <2>1. ~member[u].active /\ Activate(u) /\ UNCHANGED <<account, seats, trial, invite, inviting>>
    BY <1>3 DEF AddMember
  <2>2. QED  BY <2>1, ActivationTakesASeat DEF WellManaged, OrganizationTypeOK, Seated
<1>4. ASSUME NEW a \in Actors, NEW u \in Users, RemoveMember(a, u)
      PROVE  WellManaged' /\ Seated
  BY <1>4, RemovalStep DEF Seated
<1>5. ASSUME NEW u \in Users, NEW role \in {"employee", "manager"},
             OwnerSetsRole(u, role) \/ PlatformSetsRole(u, role)
      PROVE  WellManaged' /\ Seated
  BY <1>5, RoleStep DEF Seated
<1>6. ASSUME NEW u \in Users, DeactivateAccount(u)
      PROVE  WellManaged' /\ Seated
  <2>1. member' = member /\ OrganizationTypeOK'
    BY <1>6 DEF DeactivateAccount, WellManaged, OrganizationTypeOK
  <2>2. QED  BY <1>a, <2>1 DEF WellManaged
<1>7. ASSUME NEW quota \in 0..MaxSeats, ChangePackage(quota)
      PROVE  WellManaged' /\ Seated
  <2>1. member' = member /\ OrganizationTypeOK'
    BY <1>7 DEF ChangePackage, WellManaged, OrganizationTypeOK
  <2>2. QED  BY <1>a, <2>1 DEF WellManaged
<1>8. CASE SwitchTrial
  <2>1. member' = member /\ OrganizationTypeOK'
    BY <1>8 DEF SwitchTrial, WellManaged, OrganizationTypeOK
  <2>2. QED  BY <1>a, <2>1 DEF WellManaged
<1>9. Platform \in Actors
  BY DEF Actors
<1>10. QED
  BY <1>1, <1>2, <1>3, <1>4, <1>5, <1>6, <1>7, <1>8, <1>9 DEF OrganizationNext

\* The invariant behind both theorems.
LEMMA OrganizationIsWellManaged == OrganizationSpec => []WellManaged
<1>1. WellManaged /\ [OrganizationNext]_orgVars => WellManaged'
  <2>1. CASE OrganizationNext
    BY <2>1, OrganizationStep
  <2>2. CASE UNCHANGED orgVars
    BY <2>2 DEF orgVars, WellManaged, OrganizationTypeOK, ManagerRemains, Managers
  <2>3. QED  BY <2>1, <2>2
<1>2. QED  BY <1>1, OrganizationStart, PTL DEF OrganizationSpec

-----------------------------------------------------------------------------
\* Removals, demotions, deactivations and departures, by whatever door and in
\* whatever order, leave the organisation a manager (the counts of
\* _remove_user_from_org_sync and of the two role updates under one lock).
THEOREM AManagerRemains == OrganizationSpec => []ManagerRemains
<1>1. WellManaged => ManagerRemains
  BY DEF WellManaged
<1>2. QED  BY <1>1, OrganizationIsWellManaged, PTL

\* No step of a deployment that is not on trial brings in a member for whom the
\* package has no seat, however many a trial let in before
\* (_organization_member_quota_error before every activation).
THEOREM NewcomersHaveSeats == OrganizationSpec => NoSeatIsOverfilled
<1>1. WellManaged /\ [OrganizationNext]_orgVars => [Seated]_orgVars
  BY OrganizationStep
<1>2. QED
  BY <1>1, OrganizationIsWellManaged, PTL DEF OrganizationSpec, NoSeatIsOverfilled, Seated

-----------------------------------------------------------------------------
(***************************************************************************)
(* The Word template.                                                      *)
(***************************************************************************)

\* The rows of word_template, word_template_version and the projection outbox.
TemplateRow == [published: Nat, draft: Nat, row: Nat]
VersionRow == [content: Contents, source: Nat, kept: BOOLEAN,
               preflight: {"none", "fresh", "stale"}]
JobRow == [version: Nat, status: JobStates, overdue: BOOLEAN, attempts: Nat]

-----------------------------------------------------------------------------
(***************************************************************************)
(* What an editor sees.                                                    *)
(***************************************************************************)

\* No page is ahead of the template, and one that is not behind shows it as it is.
PagesAreBehind ==
  /\ template \in TemplateRow /\ page \in [Editors -> TemplateRow]
  /\ \A u \in Editors : /\ page[u].row <= template.row
                        /\ page[u].row = template.row => page[u] = template

\* A change under a new row version leaves every other page behind.
LEMMA ReplaceLeavesBehind ==
  ASSUME PagesAreBehind, NEW u \in Editors, NEW next \in TemplateRow,
         next.row = template.row + 1, Replace(u, next)
  PROVE  PagesAreBehind'
<1>1. /\ template' \in TemplateRow /\ page' \in [Editors -> TemplateRow]
      /\ page'[u] = template' /\ \A e \in Editors \ {u} : page'[e] = page[e]
  BY DEF Replace, PagesAreBehind
<1>2. ASSUME NEW e \in Editors
      PROVE  /\ page'[e].row <= template'.row
             /\ page'[e].row = template'.row => page'[e] = template'
  <2>1. CASE e = u
    BY <1>1, <2>1 DEF TemplateRow
  <2>2. CASE e # u
    <3>1. page'[e] = page[e] /\ page[e].row <= template.row /\ template'.row = template.row + 1
      BY <1>1, <2>2 DEF Replace, PagesAreBehind
    <3>2. page[e].row \in Nat /\ template.row \in Nat
      BY DEF PagesAreBehind, TemplateRow
    <3>3. QED  BY <3>1, <3>2
  <2>3. QED  BY <2>1, <2>2
<1>3. QED  BY <1>1, <1>2 DEF PagesAreBehind

\* Versions are counted.
LEMMA VersionsAreCounted ==
  ASSUME NEW S, NEW seq \in Seq(S)
  PROVE  Len(seq) \in Nat /\ DOMAIN seq = 1..Len(seq) /\ \A i \in 1..Len(seq) : seq[i] \in S
BY LenProperties

\* A sequence written anew position by position is a sequence of the same length.
LEMMA WrittenAnew ==
  ASSUME NEW S, NEW T, NEW seq \in Seq(S), NEW f \in [1..Len(seq) -> T]
  PROVE  f \in Seq(T) /\ Len(f) = Len(seq) /\ DOMAIN f = 1..Len(seq)
<1>1. Len(seq) \in Nat
  BY LenProperties
<1>2. f \in Seq(T)
  BY <1>1, SeqDef
<1>3. DOMAIN f = 1..Len(seq) /\ DOMAIN f = 1..Len(f) /\ Len(f) \in Nat
  BY <1>2, LenProperties
<1>4. QED  BY <1>1, <1>2, <1>3

-----------------------------------------------------------------------------
(***************************************************************************)
(* What is kept.                                                           *)
(***************************************************************************)

RowsAreShaped == versions \in Seq(VersionRow) /\ outbox \in Seq(JobRow)

\* What an event or a projection names is a version that is kept; what is published
\* is named by an event.
NamedIsKept ==
  /\ \A v \in cited : v \in Numbers /\ versions[v].kept
  /\ \A i \in DOMAIN outbox : outbox[i].version \in Numbers /\ versions[outbox[i].version].kept
  /\ template.published \in cited \cup {0}

\* What a kept version was made from is kept.
SourcesAreKept ==
  \A v \in Numbers : versions[v].kept /\ versions[v].source # 0
                       => Kept(versions[v].source)

\* The inductive invariant of the catalog.
CatalogIsSound == PagesAreBehind /\ RowsAreShaped /\ NamedIsKept /\ SourcesAreKept

\* Versions that keep their rows and their sources keep them all.
LEMMA SourcesStayKept ==
  ASSUME SourcesAreKept, Numbers' = Numbers,
         \A v \in Numbers : /\ versions'[v].source = versions[v].source
                            /\ versions'[v].kept = versions[v].kept
  PROVE  SourcesAreKept'
BY DEF SourcesAreKept, Kept

\* The catalog starts with one draft.
LEMMA CatalogStart == TemplateInit => CatalogIsSound
<1> SUFFICES ASSUME TemplateInit  PROVE CatalogIsSound
  OBVIOUS
<1>1. PICK c \in Contents : versions = <<NewVersion(c, 0)>>
  BY DEF TemplateInit
<1>2. NewVersion(c, 0) \in VersionRow
  BY DEF NewVersion, VersionRow
<1>3. RowsAreShaped
  BY <1>1, <1>2 DEF RowsAreShaped, TemplateInit
<1>4. PagesAreBehind
  BY DEF PagesAreBehind, TemplateInit, TemplateRow
<1>5. NamedIsKept
  BY DEF NamedIsKept, TemplateInit
<1>6. SourcesAreKept
  BY <1>1 DEF SourcesAreKept, Numbers, NewVersion
<1>7. QED  BY <1>3, <1>4, <1>5, <1>6 DEF CatalogIsSound

\* Versions may be added and written, as long as those that are named are kept.
Named(v) == v \in cited \/ \E i \in DOMAIN outbox : outbox[i].version = v

LEMMA VersionsWritten ==
  ASSUME CatalogIsSound, versions' \in Seq(VersionRow), Len(versions) <= Len(versions'),
         \A v \in Numbers : versions[v].kept /\ Named(v) => versions'[v].kept
  PROVE  /\ \A v \in Numbers : v \in Numbers'
         /\ \A v \in cited : v \in Numbers' /\ versions'[v].kept
         /\ \A i \in DOMAIN outbox : /\ outbox[i].version \in Numbers'
                                     /\ versions'[outbox[i].version].kept
<1>1. Len(versions) \in Nat /\ Len(versions') \in Nat
  BY VersionsAreCounted DEF CatalogIsSound, RowsAreShaped
<1>2. \A v \in Numbers : v \in Numbers'
  BY <1>1 DEF Numbers
<1>3. QED  BY <1>2 DEF CatalogIsSound, NamedIsKept, Named

\* The worker writes anything of a job but its version.
LEMMA JobsWritten ==
  ASSUME CatalogIsSound, UNCHANGED catalogVars, outbox' \in [1..Len(outbox) -> JobRow],
         \A i \in 1..Len(outbox) : outbox'[i].version = outbox[i].version
  PROVE  CatalogIsSound'
<1>1. /\ DOMAIN outbox = 1..Len(outbox) /\ outbox' \in Seq(JobRow)
      /\ DOMAIN outbox' = 1..Len(outbox)
  BY VersionsAreCounted, WrittenAnew DEF CatalogIsSound, RowsAreShaped
<1>2. NamedIsKept'
  BY <1>1 DEF CatalogIsSound, NamedIsKept, Numbers, catalogVars
<1>3. SourcesAreKept'
  BY SourcesStayKept DEF CatalogIsSound, Numbers, catalogVars
<1>4. QED  BY <1>1, <1>2, <1>3 DEF CatalogIsSound, PagesAreBehind, RowsAreShaped, catalogVars

\* Steps that leave the catalog and the outbox alone.
LEMMA NothingWritten ==
  ASSUME CatalogIsSound, UNCHANGED catalogVars, UNCHANGED outbox
  PROVE  CatalogIsSound'
<1>1. SourcesAreKept'
  BY SourcesStayKept DEF CatalogIsSound, Numbers, catalogVars
<1>2. QED
  BY <1>1 DEF CatalogIsSound, PagesAreBehind, RowsAreShaped, NamedIsKept, Numbers, catalogVars

\* A new draft is added under a new row version.
LEMMA InsertStep ==
  ASSUME CatalogIsSound, NEW u \in Editors, NEW content \in Contents, NEW source \in Nat,
         InsertDraft(u, content, source), source = 0 \/ Kept(source),
         \/ cited' = cited
         \/ cited' = cited \cup {source, Len(versions) + 1} /\ Kept(source)
  PROVE  CatalogIsSound'
<1> USE DEF CatalogIsSound
<1>1. NewVersion(content, source) \in VersionRow /\ Len(versions) \in Nat
  BY VersionsAreCounted DEF NewVersion, VersionRow, RowsAreShaped
<1>2. /\ versions' \in Seq(VersionRow) /\ Len(versions') = Len(versions) + 1
      /\ \A v \in Numbers : versions'[v] = versions[v]
      /\ versions'[Len(versions) + 1].kept
  BY <1>1, AppendProperties DEF InsertDraft, RowsAreShaped, Numbers, NewVersion
<1>3. outbox' = outbox
  BY DEF InsertDraft, projectionVars
<1>4. PagesAreBehind'
  <2> DEFINE next == [template EXCEPT !.draft = Len(versions) + 1, !.row = @ + 1]
  <2>1. next \in TemplateRow /\ next.row = template.row + 1
    <3> DEFINE number == Len(versions) + 1
               next_row == template.row + 1
    <3>1. template \in TemplateRow /\ number \in Nat /\ next_row \in Nat
      BY <1>1 DEF PagesAreBehind, TemplateRow
    <3>2. next = [template EXCEPT !.draft = number, !.row = next_row]
      OBVIOUS
    <3> HIDE DEF number, next_row, next
    <3>3. next \in TemplateRow /\ next.row = next_row
      BY <3>1, <3>2 DEF TemplateRow
    <3>4. QED  BY <3>3 DEF next_row
  <2>2. Replace(u, next)
    BY DEF InsertDraft
  <2>3. QED  BY <2>1, <2>2, ReplaceLeavesBehind
<1>5. /\ \A v \in Numbers : v \in Numbers'
      /\ \A v \in cited : v \in Numbers' /\ versions'[v].kept
      /\ \A i \in DOMAIN outbox : outbox[i].version \in Numbers' /\ versions'[outbox[i].version].kept
  <2>1. Len(versions) <= Len(versions')
    BY <1>1, <1>2
  <2>2. QED  BY <1>2, <2>1, VersionsWritten
<1>6. \A v \in cited' : v \in Numbers' /\ versions'[v].kept
  <2>1. Len(versions) + 1 \in Numbers'
    BY <1>1, <1>2 DEF Numbers
  <2>2. QED  BY <1>2, <1>5, <2>1 DEF Kept
<1>7. template'.published = template.published
  BY DEF InsertDraft, Replace, PagesAreBehind, TemplateRow
<1>8. cited \subseteq cited'
  OBVIOUS
<1>9. NamedIsKept'
  BY <1>3, <1>5, <1>6, <1>7, <1>8 DEF NamedIsKept
<1>10. SourcesAreKept'
  <2>1. versions'[Len(versions) + 1].source = source
    BY <1>1, AppendProperties DEF InsertDraft, RowsAreShaped, NewVersion
  <2>2. Numbers' = Numbers \cup {Len(versions) + 1}
    BY <1>1, <1>2 DEF Numbers
  <2>3. \A x : Kept(x) => x \in Numbers' /\ versions'[x].kept
    BY <1>2, <2>2 DEF Kept
  <2>4. \A v \in Numbers : versions[v].kept /\ versions[v].source # 0
                          => Kept(versions[v].source)
    BY DEF SourcesAreKept
  <2>5. \A v \in Numbers' : versions'[v].kept /\ versions'[v].source # 0
                           => Kept(versions'[v].source)
    BY <1>2, <2>1, <2>2, <2>4
  <2>6. QED  BY <2>3, <2>5 DEF SourcesAreKept, Kept
<1>11. QED  BY <1>2, <1>3, <1>4, <1>9, <1>10 DEF RowsAreShaped

\* A version is published under a new row version, and its projection enqueued.
LEMMA PublishStep ==
  ASSUME CatalogIsSound, NEW u \in Editors, NEW v \in Numbers, Publish(u, v)
  PROVE  CatalogIsSound'
<1> USE DEF CatalogIsSound
<1>1. v \in Nat /\ Len(versions) \in Nat /\ versions[v].kept /\ versions' = versions
  BY VersionsAreCounted DEF Publish, Kept, Numbers, RowsAreShaped
<1>2. PagesAreBehind' /\ template'.published = v
  <2> DEFINE next == [published |-> v, row |-> template.row + 1,
                      draft |-> IF template.draft = v THEN 0 ELSE template.draft]
  <2>1. next \in TemplateRow /\ next.row = template.row + 1 /\ next.published = v
    BY <1>1 DEF PagesAreBehind, TemplateRow
  <2>2. Replace(u, next)
    BY DEF Publish
  <2>3. QED  BY <2>1, <2>2, ReplaceLeavesBehind DEF Replace
<1>3. \A x \in cited' : x \in Numbers /\ versions[x].kept
  BY <1>1 DEF Publish, NamedIsKept
<1>4. v \in cited'
  BY <1>1 DEF Publish, Numbers
<1>5. /\ outbox' \in Seq(JobRow)
      /\ \A i \in DOMAIN outbox' : outbox'[i].version \in Numbers /\ versions[outbox'[i].version].kept
  <2>1. CASE outbox' = outbox
    BY <2>1 DEF NamedIsKept, RowsAreShaped
  <2> DEFINE job == [version |-> v, status |-> "pending", overdue |-> FALSE, attempts |-> 0]
  <2>2. CASE outbox' = Append(outbox, job)
    <3>1. job \in JobRow
      BY <1>1 DEF JobRow, JobStates
    <3>2. /\ outbox' \in Seq(JobRow) /\ Len(outbox') = Len(outbox) + 1
          /\ \A i \in 1..Len(outbox) : outbox'[i] = outbox[i]
          /\ outbox'[Len(outbox) + 1] = job
      BY <2>2, <3>1, AppendProperties DEF RowsAreShaped
    <3>3. /\ DOMAIN outbox = 1..Len(outbox) /\ DOMAIN outbox' = 1..(Len(outbox) + 1)
          /\ Len(outbox) \in Nat
      BY <3>2, VersionsAreCounted DEF RowsAreShaped
    <3>4. ASSUME NEW i \in DOMAIN outbox'
          PROVE  outbox'[i].version \in Numbers /\ versions[outbox'[i].version].kept
      <4>1. CASE i = Len(outbox) + 1
        BY <1>1, <3>2, <4>1
      <4>2. CASE i \in DOMAIN outbox
        BY <3>2, <3>3, <4>2 DEF NamedIsKept
      <4>3. QED  BY <3>3, <4>1, <4>2
    <3>5. QED  BY <3>2, <3>4
  <2>3. QED  BY <2>1, <2>2 DEF Publish, EnqueueProjection
<1>6. Numbers' = Numbers
  BY <1>1 DEF Numbers
<1>7. NamedIsKept'
  BY <1>1, <1>2, <1>3, <1>4, <1>5, <1>6 DEF NamedIsKept
<1>8. SourcesAreKept'
  BY <1>1, <1>6, SourcesStayKept
<1>9. QED  BY <1>1, <1>2, <1>5, <1>7, <1>8 DEF RowsAreShaped

\* A preflight run is recorded or grows stale.
LEMMA PreflightStep ==
  ASSUME CatalogIsSound, NEW v \in Numbers, PassPreflight(v) \/ PreflightAges(v)
  PROVE  CatalogIsSound'
<1> USE DEF CatalogIsSound
<1>1. PICK run \in {"fresh", "stale"} : versions' = [versions EXCEPT ![v].preflight = run]
  BY DEF PassPreflight, PreflightAges
<1>2. /\ UNCHANGED <<template, cited, page>> /\ outbox' = outbox
  BY DEF PassPreflight, PreflightAges, projectionVars
<1>3. Len(versions) \in Nat /\ versions \in [1..Len(versions) -> VersionRow]
  BY LenProperties DEF RowsAreShaped
<1>4. /\ versions' \in [1..Len(versions) -> VersionRow]
      /\ \A x \in Numbers : /\ versions'[x].kept = versions[x].kept
                            /\ versions'[x].source = versions[x].source
  BY <1>1, <1>3 DEF Numbers, VersionRow
<1>5. versions' \in Seq(VersionRow) /\ Len(versions') = Len(versions)
  BY <1>3, <1>4, WrittenAnew DEF RowsAreShaped
<1>6. NamedIsKept'
  BY <1>2, <1>4, <1>5 DEF NamedIsKept, Numbers
<1>7. SourcesAreKept'
  BY <1>4, <1>5, SourcesStayKept DEF Numbers
<1>8. QED  BY <1>2, <1>5, <1>6, <1>7 DEF PagesAreBehind, RowsAreShaped

\* The sweep keeps what is referred to.
LEMMA PurgeStep ==
  ASSUME CatalogIsSound, NEW expired, NEW oldest \in Numbers, Purge(expired, oldest)
  PROVE  CatalogIsSound'
<1> USE DEF CatalogIsSound
<1> DEFINE runs == RunsLeft(expired)
           gone == {v \in 1..oldest : Kept(v) /\ ~Referenced(v, runs)}
<1>1. /\ versions' = [v \in Numbers |-> [versions[v] EXCEPT !.preflight = runs[v],
                                                         !.kept = @ /\ v \notin gone]]
      /\ UNCHANGED <<template, cited, page>> /\ outbox' = outbox
  BY DEF Purge, projectionVars
<1>2. Len(versions) \in Nat /\ versions \in [Numbers -> VersionRow]
  BY LenProperties DEF RowsAreShaped, Numbers
<1>3. \A v \in Numbers : runs[v] \in {"none", "fresh", "stale"}
  BY <1>2 DEF RunsLeft, VersionRow
<1>4. \A v \in Numbers : Named(v) => v \notin gone
  BY DEF Referenced, Named
<1> HIDE DEF runs, gone
<1>5. ASSUME NEW v \in Numbers
      PROVE  /\ versions'[v] \in VersionRow
             /\ versions'[v].kept = (versions[v].kept /\ v \notin gone)
             /\ versions'[v].source = versions[v].source
  <2>1. versions[v] \in VersionRow /\ versions[v].kept \in BOOLEAN
    BY <1>2 DEF VersionRow
  <2>2. PICK kept \in BOOLEAN : kept = (versions[v].kept /\ v \notin gone)
    OBVIOUS
  <2>3. PICK run \in {"none", "fresh", "stale"} : run = runs[v]
    BY <1>3
  <2>4. versions'[v] = [versions[v] EXCEPT !.preflight = run, !.kept = kept]
    BY <1>1, <2>2, <2>3
  <2>5. /\ versions'[v] \in VersionRow /\ versions'[v].kept = kept
        /\ versions'[v].source = versions[v].source
    BY <2>1, <2>4 DEF VersionRow
  <2>6. QED  BY <2>1, <2>2, <2>5
<1>6. versions' \in Seq(VersionRow) /\ Len(versions') = Len(versions)
  <2>1. versions' \in [1..Len(versions) -> VersionRow]
    BY <1>1, <1>5 DEF Numbers
  <2>2. QED  BY <2>1, WrittenAnew DEF RowsAreShaped
<1>7. NamedIsKept'
  BY <1>1, <1>4, <1>5, <1>6 DEF NamedIsKept, Named, Numbers
<1>8. Numbers' = Numbers
  BY <1>6 DEF Numbers
<1>9. \A v \in Numbers : versions[v].kept /\ versions[v].source # 0 => versions[v].source \notin gone
  BY DEF Referenced, Kept, gone
<1>10. SourcesAreKept'
  <2> SUFFICES ASSUME NEW v \in Numbers, versions'[v].kept, versions'[v].source # 0
               PROVE  /\ versions'[v].source \in Numbers
                      /\ versions'[versions'[v].source].kept
    BY <1>8 DEF SourcesAreKept, Kept
  <2>1. /\ versions[v].kept /\ versions[v].source # 0
        /\ versions'[v].source = versions[v].source
    BY <1>5
  <2>2. Kept(versions[v].source) /\ versions[v].source \notin gone
    BY <1>9, <2>1 DEF SourcesAreKept
  <2>3. QED  BY <1>5, <1>8, <2>1, <2>2 DEF Kept
<1>11. QED  BY <1>1, <1>6, <1>7, <1>10 DEF PagesAreBehind, RowsAreShaped

\* The projection workers leave the versions of their jobs alone.
LEMMA ProjectionStep ==
  ASSUME CatalogIsSound,
         \/ \E h \in Hosts : HostActs(h) \/ HostStops(h) \/ HostStarts(h)
         \/ \E i \in DOMAIN outbox : LockAges(i)
  PROVE  CatalogIsSound'
<1>1. UNCHANGED catalogVars
  BY DEF HostActs, ClaimProjection, Project, CompleteProjection, RetryProjection, LockAges,
         HostStops, HostStarts
<1>2. outbox \in [1..Len(outbox) -> JobRow] /\ DOMAIN outbox = 1..Len(outbox)
  BY LenProperties DEF CatalogIsSound, RowsAreShaped
<1>3. ASSUME NEW i, NEW status \in JobStates, NEW overdue \in BOOLEAN, NEW attempts \in Nat,
             outbox' = [outbox EXCEPT ![i] = [@ EXCEPT !.status = status, !.overdue = overdue,
                                                       !.attempts = attempts]]
      PROVE  CatalogIsSound'
  BY <1>1, <1>2, <1>3, JobsWritten DEF JobRow
<1>4. CASE outbox' = outbox
  BY <1>1, <1>4, NothingWritten
<1>5. ASSUME NEW h \in Hosts, HostStarts(h)
      PROVE  CatalogIsSound'
  <2>1. \A i \in 1..Len(outbox) : /\ outbox'[i] \in JobRow
                                 /\ outbox'[i].version = outbox[i].version
    BY <1>2, <1>5 DEF HostStarts, JobRow, JobStates
  <2>2. outbox' \in [1..Len(outbox) -> JobRow]
    BY <1>2, <1>5, <2>1 DEF HostStarts
  <2>3. QED  BY <1>1, <2>1, <2>2, JobsWritten
<1>6. ASSUME NEW h \in Hosts, HostActs(h)
      PROVE  CatalogIsSound'
  <2>1. ASSUME NEW i \in DOMAIN outbox, ClaimProjection(h, i)
        PROVE  CatalogIsSound'
    <3>1. outbox[i].attempts + 1 \in Nat /\ "processing" \in JobStates
      BY <1>2 DEF JobRow, JobStates
    <3>2. outbox' = [outbox EXCEPT ![i] = [@ EXCEPT !.status = "processing", !.overdue = FALSE,
                                                    !.attempts = outbox[i].attempts + 1]]
      BY <2>1 DEF ClaimProjection
    <3>3. QED  BY <1>3, <3>1, <3>2
  <2>2. CASE Project(h)
    BY <1>4, <2>2 DEF Project
  <2>3. CASE CompleteProjection(h) \/ RetryProjection(h)
    <3>1. \/ outbox' = outbox
          \/ \E status \in JobStates : outbox' = [outbox EXCEPT ![hosts[h].job].status = status]
      BY <2>3 DEF CompleteProjection, RetryProjection, JobStates
    <3>2. ASSUME NEW i, NEW status \in JobStates, outbox' = [outbox EXCEPT ![i].status = status]
          PROVE  CatalogIsSound'
      BY <1>1, <1>2, <3>2, JobsWritten DEF JobRow
    <3>3. QED  BY <1>4, <3>1, <3>2
  <2>4. QED  BY <1>6, <2>1, <2>2, <2>3 DEF HostActs
<1>7. ASSUME NEW i \in DOMAIN outbox, LockAges(i)
      PROVE  CatalogIsSound'
  <2>1. outbox' = [outbox EXCEPT ![i].overdue = TRUE]
    BY <1>7 DEF LockAges
  <2>2. QED  BY <1>1, <1>2, <2>1, JobsWritten DEF JobRow
<1>8. ASSUME NEW h \in Hosts, HostStops(h)
      PROVE  CatalogIsSound'
  BY <1>4, <1>8 DEF HostStops
<1>9. QED  BY <1>5, <1>6, <1>7, <1>8

\* No step of an editor, the sweep or a worker breaks the catalog.
LEMMA CatalogStep ==
  ASSUME CatalogIsSound, [TemplateNext]_templateVars
  PROVE  CatalogIsSound'
<1>1. ASSUME NEW u \in Editors, OpenPage(u)
      PROVE  CatalogIsSound'
  <2>1. /\ page' = [page EXCEPT ![u] = template]
        /\ UNCHANGED <<template, versions, cited, outbox>>
    BY <1>1 DEF OpenPage, projectionVars
  <2>2. PagesAreBehind'
    BY <2>1 DEF CatalogIsSound, PagesAreBehind, TemplateRow
  <2>3. SourcesAreKept'
    BY <2>1, SourcesStayKept DEF CatalogIsSound, Numbers
  <2>4. QED  BY <2>1, <2>2, <2>3 DEF CatalogIsSound, RowsAreShaped, NamedIsKept, Numbers
<1>2. ASSUME NEW u \in Editors, NEW c \in Contents,
             \/ CreateDraftVersion(u, c)
             \/ \E v \in Numbers : CreateStandardizedDraft(u, v, c)
      PROVE  CatalogIsSound'
  <2>1. CASE CreateDraftVersion(u, c)
    BY <2>1, InsertStep DEF CreateDraftVersion
  <2>2. ASSUME NEW v \in Numbers, CreateStandardizedDraft(u, v, c)
        PROVE  CatalogIsSound'
    <3>1. v \in Nat
      BY DEF Numbers
    <3>2. QED  BY <2>2, <3>1, InsertStep DEF CreateStandardizedDraft
  <2>3. QED  BY <1>2, <2>1, <2>2
<1>3. ASSUME NEW u \in Editors, NEW v \in Numbers, RestoreAsDraft(u, v)
      PROVE  CatalogIsSound'
  <2>1. v \in Nat /\ versions[v].content \in Contents
    <3>1. versions \in Seq(VersionRow)
      BY DEF CatalogIsSound, RowsAreShaped
    <3>2. v \in Nat /\ versions[v] \in VersionRow
      BY <3>1, VersionsAreCounted DEF Numbers
    <3>3. QED  BY <3>2 DEF VersionRow
  <2>2. QED  BY <1>3, <2>1, InsertStep DEF RestoreAsDraft, Kept
<1>4. CASE RetentionSweep
  BY <1>4, PurgeStep DEF RetentionSweep
<1>5. CASE UNCHANGED templateVars
  BY <1>5, NothingWritten DEF templateVars, catalogVars
<1>6. QED
  BY <1>1, <1>2, <1>3, <1>4, <1>5, PublishStep, PreflightStep, ProjectionStep
     DEF TemplateNext, EditorActs

\* The catalog is sound for any number of editors, versions and processes.
LEMMA CatalogStaysSound == TemplateSpec => []CatalogIsSound
BY CatalogStart, CatalogStep, PTL DEF TemplateSpec

\* An editor who passes the compare-and-set on row_version replaces the draft and
\* the publication they have seen (validate_template_cas of template_catalog).
THEOREM EditorsSeeWhatTheyReplace == TemplateSpec => []CurrentPageIsTrue
<1>1. CatalogIsSound => CurrentPageIsTrue
  BY DEF CatalogIsSound, PagesAreBehind, CurrentPageIsTrue
<1>2. QED  BY <1>1, CatalogStaysSound, PTL

\* The sweep takes no version that was ever published, restored or projected, and
\* no version in the chain of sources of a kept one, for any number of editors,
\* versions and sweeps (purge_expired_retention keeps what the template, an event, a
\* child, a run or a job names).
THEOREM HistoryIsKept == TemplateSpec => []PublishedIsKept
<1>1. CatalogIsSound => PublishedIsKept
  BY DEF CatalogIsSound, NamedIsKept, SourcesAreKept, Kept, PublishedIsKept
<1>2. QED  BY <1>1, CatalogStaysSound, PTL

-----------------------------------------------------------------------------
(***************************************************************************)
(* Events, import sessions and imports of a whole history.                 *)
(***************************************************************************)

\* The receipts of a process are sets of events, and each of them was earned: by a
\* dispatch, by the last failure, or before the process started.
ReceiptsAreEarned ==
  /\ done \in [Processes -> SUBSET Events] /\ handled \in [Processes -> SUBSET Events]
  /\ \A p \in Processes : done[p] \subseteq handled[p]

\* A receipt entered together with its history is earned.
LEMMA EarnedByMark ==
  ASSUME ReceiptsAreEarned, NEW p \in Processes, NEW e \in Events, MarkDispatched(p, e),
         handled' = [handled EXCEPT ![p] = @ \cup {e}]
  PROVE  ReceiptsAreEarned'
BY DEF ReceiptsAreEarned, MarkDispatched

\* No step of any process leaves a receipt that was not earned.
LEMMA ReceiptsStep ==
  ASSUME ReceiptsAreEarned, [BrokerNext]_brokerVars
  PROVE  ReceiptsAreEarned'
<1>1. CASE UNCHANGED <<done, handled>>
  BY <1>1 DEF ReceiptsAreEarned
<1>2. ASSUME NEW p \in Processes, NEW e \in Events, Dispatch(p, e)
      PROVE  ReceiptsAreEarned'
  BY <1>2, EarnedByMark DEF Dispatch
<1>3. ASSUME NEW p \in Processes, NEW e \in Events, DispatchFails(p, e)
      PROVE  ReceiptsAreEarned'
  <2>1. CASE MarkDispatched(p, e) /\ handled' = [handled EXCEPT ![p] = @ \cup {e}]
    BY <2>1, EarnedByMark
  <2>2. CASE UNCHANGED <<done, handled>>
    BY <1>1, <2>2
  <2>3. QED  BY <1>3, <2>1, <2>2 DEF DispatchFails, MarkFailed
<1>4. ASSUME NEW p \in Processes, Cleanup(p)
      PROVE  ReceiptsAreEarned'
  <2>1. PICK kept : done' = [done EXCEPT ![p] = @ \cap kept] /\ handled' = handled
    BY <1>4 DEF Cleanup
  <2>2. QED  BY <2>1 DEF ReceiptsAreEarned
<1>5. ASSUME NEW p \in Processes, Restart(p)
      PROVE  ReceiptsAreEarned'
  <2>1. Completed \subseteq Events
    BY DEF Completed
  <2>2. QED  BY <1>5, <2>1 DEF Restart, ReceiptsAreEarned
<1>6. ASSUME NEW e \in Events, Enqueue(e) \/ Commit_(e)
      PROVE  UNCHANGED <<done, handled>>
  BY <1>6 DEF Enqueue, Commit_
<1>7. ASSUME NEW p \in Processes, Revoke(p) \/ Authenticate(p)
      PROVE  UNCHANGED <<done, handled>>
  BY <1>7 DEF Revoke, Authenticate
<1>8. CASE Register \/ Recheck \/ UNCHANGED brokerVars
  BY <1>1, <1>8 DEF Register, Recheck, brokerVars
<1>9. QED
  BY <1>1, <1>2, <1>3, <1>4, <1>5, <1>6, <1>7, <1>8 DEF BrokerNext

\* A process passes over no event: not the one whose transaction was open while
\* later ids were dispatched, nor one that fails while others succeed
\* (_BrokerConsumer of sync/websocket.py keeps exact receipts, no high-water mark).
THEOREM GapsStayGaps == BrokerSpec => []NoEventIsSkipped
<1>1. BrokerInit => ReceiptsAreEarned
  BY DEF BrokerInit, ReceiptsAreEarned
<1>2. ReceiptsAreEarned => NoEventIsSkipped
  BY DEF ReceiptsAreEarned, NoEventIsSkipped
<1>3. QED  BY <1>1, <1>2, ReceiptsStep, PTL DEF BrokerSpec

-----------------------------------------------------------------------------
\* The index of an operation is 0 until it is complete; whoever is under way
\* started from 0, and whoever is to report completion has written everything.
BatchShape ==
  /\ batch \in [st : {"none", "PENDING", "FAILED", "COMPLETED"}, next : {0, LastStep}]
  /\ batch.st = "COMPLETED" <=> batch.next = LastStep
  /\ call \in [Calls -> [at : {"idle", "writing", "written", "failing", "done"},
                         start : {0, LastStep}]]
  /\ \A q \in Calls : call[q].at \in {"writing", "failing"} => call[q].start = 0
  /\ told => batch.st = "COMPLETED"
EvidenceShape ==
  /\ observed \in [Steps -> {NoDigest, Own, Changed}]
  /\ materialized \in [Steps -> Nat]
  /\ \A r \in Steps : materialized[r] = IF observed[r] = NoDigest THEN 0 ELSE 1
HistoryIsWritten ==
  batch.st = "COMPLETED" \/ (\E q \in Calls : call[q].at = "written")
    => \A r \in Steps : observed[r] = Own
BatchIsHonest == BatchShape /\ EvidenceShape /\ HistoryIsWritten

\* A revision with an evidence row is written again by no transaction.
LEMMA EvidenceStaysWritten ==
  ASSUME EvidenceShape, NEW revisions \in SUBSET Steps, NEW digest \in {Own, Changed},
         \A r \in revisions : observed[r] = NoDigest,
         Materialize(revisions, digest)
  PROVE  /\ EvidenceShape'
         /\ \A r \in Steps : observed[r] # NoDigest => observed'[r] = observed[r]
<1>1. \A r \in Steps : /\ observed'[r] = IF r \in revisions THEN digest ELSE observed[r]
                       /\ materialized'[r] = materialized[r] + IF r \in revisions THEN 1 ELSE 0
  BY DEF Materialize
<1>2. observed' \in [Steps -> {NoDigest, Own, Changed}] /\ materialized' \in [Steps -> Nat]
  BY DEF Materialize, EvidenceShape
<1>3. \A r \in Steps : materialized'[r] = IF observed'[r] = NoDigest THEN 0 ELSE 1
  BY <1>1 DEF EvidenceShape, NoDigest, Own, Changed
<1>4. QED  BY <1>1, <1>2, <1>3 DEF EvidenceShape

\* No call, no other import and no edit makes the operation dishonest.
LEMMA BatchStep ==
  ASSUME BatchIsHonest, [OperationNext]_operationVars
  PROVE  BatchIsHonest'
<1> USE OperationAssumption DEF BatchIsHonest
<1>1. ASSUME NEW q \in Calls, Apply(q) \/ Resume(q)
      PROVE  BatchIsHonest'
  <2>1. batch'.st = "COMPLETED" <=> batch.st = "COMPLETED"
    BY <1>1 DEF Apply, Resume, BatchShape
  <2>2. /\ batch' \in [st : {"none", "PENDING", "FAILED", "COMPLETED"}, next : {0, LastStep}]
        /\ batch'.st = "COMPLETED" <=> batch'.next = LastStep
    BY <1>1 DEF Apply, Resume, BatchShape
  <2>3. call' = [call EXCEPT ![q] = [at |-> IF batch.st = "COMPLETED" THEN "done" ELSE "writing",
                                     start |-> batch'.next]]
    BY <1>1 DEF Apply, Resume
  <2>4. /\ observed' = observed /\ materialized' = materialized
        /\ told' => batch.st = "COMPLETED"
    BY <1>1 DEF Apply, Resume, BatchShape, planVars
  <2>5. EvidenceShape'
    BY <2>4 DEF EvidenceShape
  <2>6. BatchShape'
    <3>1. batch.st # "COMPLETED" => batch'.next = 0
      BY <2>1, <2>2
    <3>2. QED  BY <2>1, <2>2, <2>3, <2>4, <3>1 DEF BatchShape
  <2>7. HistoryIsWritten'
    BY <2>1, <2>3, <2>4 DEF HistoryIsWritten, BatchShape
  <2>8. QED  BY <2>5, <2>6, <2>7
<1>2. ASSUME NEW q \in Calls, WriteBatch(q)
      PROVE  BatchIsHonest'
  <2>1. /\ call[q].at = "writing" /\ call[q].start = 0
        /\ Materialize(ToWrite(0), Own) /\ MayWrite(0)
    BY <1>2 DEF WriteBatch, BatchShape
  <2>2. ToWrite(0) \in SUBSET Steps /\ \A r \in ToWrite(0) : observed[r] = NoDigest
    BY <2>1 DEF ToWrite, MayWrite, Materializes
  <2>3. EvidenceShape'
    BY <2>1, <2>2, EvidenceStaysWritten
  <2>4. \A r \in Steps : observed'[r] = Own
    BY <2>1 DEF Materialize, ToWrite, Steps
  <2>5. PICK at \in {"written", "failing"} : call' = [call EXCEPT ![q].at = at]
    BY <1>2 DEF WriteBatch, Advance
  <2>6. batch' = batch /\ told' = told
    BY <1>2 DEF WriteBatch
  <2>7. BatchShape'
    BY <2>1, <2>5, <2>6 DEF BatchShape
  <2>8. QED  BY <2>3, <2>4, <2>7 DEF HistoryIsWritten
<1>3. ASSUME NEW q \in Calls, BatchFails(q) \/ CutCall(q)
      PROVE  BatchIsHonest'
  <2>1. PICK at \in {"failing", "done"} :
          call' = [call EXCEPT ![q].at = at] /\ (at = "failing" => call[q].at = "writing")
    BY <1>3 DEF BatchFails, CutCall, Advance
  <2>2. batch' = batch /\ observed' = observed /\ materialized' = materialized /\ told' = told
    BY <1>3 DEF BatchFails, CutCall, planVars
  <2>3. EvidenceShape'
    BY <2>2 DEF EvidenceShape
  <2>4. QED  BY <2>1, <2>2, <2>3 DEF BatchShape, HistoryIsWritten
<1>4. ASSUME NEW q \in Calls, MarkCompleted(q) \/ MarkBatchFailed(q)
      PROVE  BatchIsHonest'
  <2>1. observed' = observed /\ materialized' = materialized
    BY <1>4 DEF MarkCompleted, MarkBatchFailed, planVars
  <2>2. EvidenceShape'
    BY <2>1 DEF EvidenceShape
  <2>3. CASE MarkCompleted(q)
    BY <2>1, <2>2, <2>3 DEF MarkCompleted, SetBatch, MaySet, Advance, BatchShape, HistoryIsWritten
  <2>4. CASE MarkBatchFailed(q)
    BY <2>1, <2>2, <2>4 DEF MarkBatchFailed, SetBatch, MaySet, Advance, BatchShape,
                            HistoryIsWritten
  <2>5. QED  BY <1>4, <2>3, <2>4
<1>5. ASSUME NEW r \in Steps, NEW digest \in {Own, Changed}, OtherImport(r, digest)
      PROVE  BatchIsHonest'
  <2>1. observed[r] = NoDigest /\ Materialize({r}, digest)
    BY <1>5 DEF OtherImport, Materializes
  <2>2. /\ EvidenceShape'
        /\ \A s \in Steps : observed[s] # NoDigest => observed'[s] = observed[s]
    BY <2>1, EvidenceStaysWritten
  <2>3. batch' = batch /\ call' = call /\ told' = told
    BY <1>5 DEF OtherImport
  <2>4. QED
    BY <2>1, <2>2, <2>3 DEF BatchShape, HistoryIsWritten, NoDigest, Own
<1>6. CASE EditFamily \/ UNCHANGED operationVars
  <2>1. /\ batch' = batch /\ call' = call /\ told' = told
        /\ observed' = observed /\ materialized' = materialized
    BY <1>6 DEF EditFamily, operationVars, planVars
  <2>2. QED  BY <2>1 DEF BatchShape, EvidenceShape, HistoryIsWritten
<1>7. QED
  BY <1>1, <1>2, <1>3, <1>4, <1>5, <1>6 DEF OperationNext

\* An import of a whole history that was reported complete stays complete, every
\* revision holding the content it brought, and no revision becomes a plan version
\* twice, for any number of revisions and calls (update_operation's
\* next_revision_index <= cursor, find_revision's NOOP and the unique index of plans).
THEOREM CompletionIsFinal == OperationSpec => []CompletedImportIsKept
<1>1. OperationInit => BatchIsHonest
  BY OperationAssumption DEF OperationInit, BatchIsHonest, BatchShape, EvidenceShape,
                             HistoryIsWritten
<1>2. BatchIsHonest => CompletedImportIsKept
  BY DEF BatchIsHonest, BatchShape, EvidenceShape, HistoryIsWritten, CompletedImportIsKept
<1>3. QED  BY <1>1, <1>2, BatchStep, PTL DEF OperationSpec

-----------------------------------------------------------------------------
Choices == {Undecided} \cup [st : {"bound"}, d : Decisions]
SessionShape ==
  /\ plan \in Nat
  /\ session \in [st : {"READY", "WAITING_NEXT_CONFIRMATION", "COMPLETED", "CANCELLED", "gone"},
                  expired : BOOLEAN, index : 0..LastRevision,
                  ready : {"PENDING", "PARTIAL", "COMPLETED"}, content : Nat,
                  base : Nat, bound : Choices, last : Nat]
  /\ session.base <= plan
\* Who may still finish an enrichment finds a bundle nobody has decided on: the
\* operation is over before the bundle is complete.
DecidedIsFenced ==
  /\ operation.st \in {"PENDING", "RUNNING"} => session.ready = "PENDING"
  /\ session.ready # "COMPLETED" => session.bound = Undecided
\* The drafts that are out were made from what the session holds.
DraftsAreCurrent ==
  /\ session.bound = Undecided => drafts = {} /\ session.index = 0
  /\ \A draft \in drafts : /\ draft.rev \in SourceRevisions
                           /\ draft.content = session.content /\ draft.by = session.bound
\* The commits are those of CommitsFollowDecisions, and the last of them is the
\* predecessor the session expects.
CommitsAreOwn ==
  /\ commits \in Seq([rev : Nat, content : Nat, by : Choices, on : Nat])
  /\ CommitsFollowDecisions
  /\ session.index > 0 => /\ session.last = commits[session.index].on + 1
                          /\ session.last <= plan
SessionIsSound == SessionShape /\ DecidedIsFenced /\ DraftsAreCurrent /\ CommitsAreOwn

\* An enricher stores its bundle only where nothing was decided yet; nothing else
\* that it does touches the session.
LEMMA EnricherStepIsSound ==
  ASSUME SessionIsSound, NEW e \in Enrichers, EnricherStep(e)
  PROVE  SessionIsSound'
<1> USE SessionAssumption DEF SessionIsSound
<1>1. plan' = plan /\ UNCHANGED clientVars
  BY DEF EnricherStep, Start, Claim, ClaimFails, ReadSession, Progress, Fetch, Finish, Fail, Die
<1>2. CASE session' = session
  <2>1. operation'.st \in {"PENDING", "RUNNING"} => operation.st \in {"PENDING", "RUNNING"}
    BY <1>2 DEF EnricherStep, Start, Claim, ClaimFails, ReadSession, Progress, Fetch, Finish,
                Fail, Die, Stamp, HoldsLease, MayFinish, Stored, StoreBundle
  <2>2. QED
    BY <1>1, <1>2, <2>1 DEF clientVars, SessionShape, DecidedIsFenced, DraftsAreCurrent,
                            CommitsAreOwn, CommitsFollowDecisions
<1>3. CASE session' # session
  <2>1. /\ MayFinish(e) /\ session' = Stored(e)
        /\ operation'.st = Stored(e).ready
    BY <1>3 DEF EnricherStep, Start, Claim, ClaimFails, ReadSession, Progress, Fetch, Finish,
                Fail, Die, Stamp, StoreBundle
  <2>2. session.bound = Undecided /\ drafts = {} /\ session.index = 0
    BY <2>1 DEF MayFinish, HoldsLease, DecidedIsFenced, DraftsAreCurrent
  <2>3. /\ session'.ready \in {"PARTIAL", "COMPLETED"} /\ session'.bound = Undecided
        /\ session'.content = e /\ session'.index = session.index /\ session'.base = session.base
        /\ SessionShape'
    BY <1>1, <2>1 DEF Stored, SessionShape, Choices
  <2>4. operation'.st \in {"PARTIAL", "COMPLETED"}
    BY <2>1, <2>3 DEF Stored
  <2>5. DecidedIsFenced' /\ DraftsAreCurrent'
    BY <1>1, <2>2, <2>3, <2>4 DEF DecidedIsFenced, DraftsAreCurrent, clientVars
  <2>6. CommitsAreOwn'
    BY <1>1, <2>2, <2>3 DEF CommitsAreOwn, CommitsFollowDecisions, clientVars
  <2>7. QED  BY <2>3, <2>5, <2>6
<1>4. QED  BY <1>2, <1>3

\* The user decides once, and every draft that is opened carries what was decided.
LEMMA ClientStepIsSound ==
  ASSUME SessionIsSound,
         \/ Refresh \/ Cancel \/ Expire \/ CleanupExpired \/ EditPlan \/ CreateOperation
         \/ \E d \in Decisions : Bind(d)
         \/ \E r \in SourceRevisions : OpenDraft(r)
  PROVE  SessionIsSound'
<1> USE SessionAssumption DEF SessionIsSound
<1>1. ASSUME NEW d \in Decisions, Bind(d)
      PROVE  SessionIsSound'
  <2>1. session'.bound # Undecided /\ session'.bound \in Choices
    BY <1>1 DEF Bind, Undecided, Choices, SessionShape
  <2>2. /\ session' = [session EXCEPT !.bound = session'.bound]
        /\ session.ready = "COMPLETED" /\ drafts = {} /\ session.index = 0
        /\ UNCHANGED <<plan, operation, drafts, commits>>
    BY <1>1 DEF Bind, clientVars, SessionShape, DraftsAreCurrent
  <2>3. SessionShape'
    BY <2>1, <2>2 DEF SessionShape
  <2>4. /\ session'.index = 0 /\ session'.ready = session.ready
        /\ session'.content = session.content /\ session'.base = session.base
    BY <2>2 DEF SessionShape
  <2>5. QED
    BY <2>1, <2>2, <2>3, <2>4 DEF DecidedIsFenced, DraftsAreCurrent, CommitsAreOwn,
                                  CommitsFollowDecisions
<1>2. ASSUME NEW r \in SourceRevisions, OpenDraft(r)
      PROVE  SessionIsSound'
  BY <1>2 DEF OpenDraft, OnlyClient, SessionShape, DecidedIsFenced, DraftsAreCurrent,
              CommitsAreOwn, CommitsFollowDecisions
<1>3. CASE Cancel \/ Expire \/ CleanupExpired
  <2>1. /\ UNCHANGED <<plan, operation, drafts, commits>>
        /\ session' \in [st : {"READY", "WAITING_NEXT_CONFIRMATION", "COMPLETED", "CANCELLED", "gone"},
                          expired : BOOLEAN, index : 0..LastRevision,
                          ready : {"PENDING", "PARTIAL", "COMPLETED"}, content : Nat,
                          base : Nat, bound : Choices, last : Nat]
        /\ session'.index = session.index /\ session'.ready = session.ready
        /\ session'.content = session.content /\ session'.base = session.base
        /\ session'.bound = session.bound /\ session'.last = session.last
    <3>1. UNCHANGED <<plan, operation, drafts, commits>>
      BY <1>3 DEF Cancel, Expire, CleanupExpired, clientVars
    <3>2. \/ \E st \in {"CANCELLED", "gone"} : session' = [session EXCEPT !.st = st]
          \/ session' = [session EXCEPT !.expired = TRUE]
      BY <1>3 DEF Cancel, Expire, CleanupExpired
    <3>3. CASE \E st \in {"CANCELLED", "gone"} : session' = [session EXCEPT !.st = st]
      BY <3>1, <3>3 DEF SessionShape
    <3>4. CASE session' = [session EXCEPT !.expired = TRUE]
      BY <3>1, <3>4 DEF SessionShape
    <3>5. QED  BY <3>2, <3>3, <3>4
  <2>2. QED
    <3>1. SessionShape' /\ DecidedIsFenced' /\ DraftsAreCurrent'
      BY <2>1 DEF SessionShape, DecidedIsFenced, DraftsAreCurrent
    <3>2. CommitsAreOwn'
      BY <2>1 DEF CommitsAreOwn, CommitsFollowDecisions
    <3>3. QED  BY <3>1, <3>2
<1>4. CASE Refresh \/ EditPlan \/ CreateOperation
  <2>1. /\ UNCHANGED <<session, drafts, commits>>
        /\ plan' \in Nat /\ plan' >= plan
        /\ operation'.st \in {"PENDING", "RUNNING"} => session.ready = "PENDING"
    BY <1>4 DEF Refresh, EditPlan, CreateOperation, OnlyClient, Stamp, clientVars,
                SessionShape, DecidedIsFenced
  <2>2. SessionShape' /\ DecidedIsFenced' /\ DraftsAreCurrent'
    BY <2>1 DEF SessionShape, DecidedIsFenced, DraftsAreCurrent
  <2>3. CommitsAreOwn'
    BY <2>1 DEF CommitsAreOwn, CommitsFollowDecisions, SessionShape
  <2>4. QED  BY <2>2, <2>3
<1>5. QED  BY <1>1, <1>2, <1>3, <1>4

\* A revision is written on top of the plan the session expects, or of nothing.
LEMMA PushIsSound ==
  ASSUME SessionIsSound, NEW draft \in drafts, PushRevision(draft)
  PROVE  SessionIsSound'
<1> USE SessionAssumption DEF SessionIsSound
<1> DEFINE commit == CommitOf(draft, plan)
<1>1. /\ draft.rev \in SourceRevisions /\ draft.rev = session.index + 1
      /\ draft.content = session.content /\ draft.by = session.bound
      /\ session.bound # Undecided
  BY DEF PushRevision, DraftsAreCurrent
<1>2. /\ plan' = plan + 1 /\ commits' = Append(commits, commit)
      /\ UNCHANGED <<operation, drafts>>
      /\ session' = Committed(session.index + 1, plan + 1)
  BY <1>1 DEF PushRevision
<1>3. /\ SessionShape'
      /\ session'.index = session.index + 1 /\ session'.last = plan + 1
      /\ session'.ready = session.ready /\ session'.bound = session.bound
      /\ session'.content = session.content /\ session'.base = session.base
  <2>1. PICK st \in {"COMPLETED", "WAITING_NEXT_CONFIRMATION"} :
          session' = [session EXCEPT !.index = session.index + 1, !.last = plan + 1, !.st = st]
    BY <1>2 DEF Committed
  <2>2. session.index + 1 \in 0..LastRevision
    BY <1>1 DEF SourceRevisions
  <2>3. /\ plan \in Nat /\ plan + 1 \in Nat /\ session.base <= plan + 1
        /\ session'.index = session.index + 1 /\ session'.last = plan + 1
        /\ session'.ready = session.ready /\ session'.bound = session.bound
        /\ session'.content = session.content /\ session'.base = session.base
    BY <2>1 DEF SessionShape
  <2>4. session' \in [st : {"READY", "WAITING_NEXT_CONFIRMATION", "COMPLETED", "CANCELLED", "gone"},
                     expired : BOOLEAN, index : 0..LastRevision,
                     ready : {"PENDING", "PARTIAL", "COMPLETED"}, content : Nat,
                     base : Nat, bound : Choices, last : Nat]
    BY <2>1, <2>2, <2>3 DEF SessionShape
  <2>5. QED  BY <1>2, <2>3, <2>4 DEF SessionShape
<1>4. plan = IF session.index = 0 THEN session.base ELSE session.last
  BY DEF PushRevision, ExpectedPredecessor, CommitsAreOwn, CommitsFollowDecisions, SessionShape
<1>5. commit \in [rev : Nat, content : Nat, by : Choices, on : Nat]
  BY <1>1 DEF CommitOf, SessionShape, SourceRevisions
<1>6. /\ Len(commits') = session.index + 1
      /\ \A i \in 1..session.index : commits'[i] = commits[i]
      /\ commits'[session.index + 1] = commit
      /\ commits' \in Seq([rev : Nat, content : Nat, by : Choices, on : Nat])
  <2> DEFINE C == [rev : Nat, content : Nat, by : Choices, on : Nat]
  <2>1. commits \in Seq(C) /\ commit \in C /\ Len(commits) = session.index
    BY <1>5 DEF CommitsAreOwn, CommitsFollowDecisions
  <2> HIDE DEF C, commit
  <2>2. commits' = Append(commits, commit)
    BY <1>2
  <2>3. /\ Append(commits, commit) \in Seq(C)
        /\ Len(Append(commits, commit)) = Len(commits) + 1
        /\ \A i \in 1..Len(commits) : Append(commits, commit)[i] = commits[i]
        /\ Append(commits, commit)[Len(commits) + 1] = commit
    BY <2>1, AppendProperties
  <2>4. QED  BY <2>1, <2>2, <2>3 DEF C
<1>7. CommitsAreOwn'
  <2>1. commit.on = IF session.index = 0 THEN session.base ELSE commits[session.index].on + 1
    <3>1. commit.on = plan
      BY DEF CommitOf
    <3>2. session.index # 0 => session.last = commits[session.index].on + 1
      <4>1. session.index # 0 => session.index > 0
        BY DEF SessionShape
      <4>2. QED  BY <4>1 DEF CommitsAreOwn
    <3>3. QED  BY <1>4, <3>1, <3>2
  <2>2. DOMAIN commits' = 1..(session.index + 1) /\ DOMAIN commits = 1..session.index
    <3>1. /\ commits \in Seq([rev : Nat, content : Nat, by : Choices, on : Nat])
          /\ Len(commits) = session.index
      BY DEF CommitsAreOwn, CommitsFollowDecisions
    <3>2. QED  BY <1>6, <3>1, LenProperties
  <2>3. CommitsFollowDecisions'
    <3>1. ASSUME NEW i \in 1..session.index
          PROVE  /\ commits'[i].rev = i /\ commits'[i].content = session.content
                 /\ commits'[i].by = session.bound
                 /\ commits'[i].on = IF i = 1 THEN session.base ELSE commits'[i - 1].on + 1
      <4>1. i \in DOMAIN commits /\ commits'[i] = commits[i]
        BY <1>6, <2>2
      <4>2. i # 1 => i - 1 \in 1..session.index
        BY DEF SessionShape
      <4>3. i # 1 => commits'[i - 1] = commits[i - 1]
        BY <1>6, <4>2
      <4>4. /\ commits[i].rev = i /\ commits[i].content = session.content
            /\ commits[i].by = session.bound
            /\ commits[i].on = IF i = 1 THEN session.base ELSE commits[i - 1].on + 1
        BY <4>1 DEF CommitsAreOwn, CommitsFollowDecisions
      <4>5. QED  BY <4>1, <4>3, <4>4
    <3>2. /\ commit.rev = session.index + 1 /\ commit.content = session.content
          /\ commit.by = session.bound
      BY <1>1 DEF CommitOf
    <3>3. session.index \in Nat
      BY DEF SessionShape
    <3>4. commits'[session.index + 1].on = IF session.index + 1 = 1 THEN session.base
                                           ELSE commits'[session.index].on + 1
      <4>1. session.index # 0 => session.index \in 1..session.index
        BY <3>3
      <4>2. session.index # 0 => commits'[session.index] = commits[session.index]
        BY <1>6, <4>1
      <4>3. session.index + 1 = 1 <=> session.index = 0
        BY <3>3
      <4>4. QED  BY <1>6, <2>1, <4>2, <4>3
    <3>5. \A i \in 1..(session.index + 1) :
            /\ commits'[i].rev = i /\ commits'[i].content = session.content
            /\ commits'[i].by = session.bound
            /\ commits'[i].on = IF i = 1 THEN session.base ELSE commits'[i - 1].on + 1
      <4>1. ASSUME NEW i \in 1..(session.index + 1)
            PROVE  i \in 1..session.index \/ i = session.index + 1
        BY <3>3
      <4>2. (session.index + 1) - 1 = session.index
        BY <3>3
      <4>3. QED  BY <1>6, <3>1, <3>2, <3>4, <4>1, <4>2
    <3>6. QED
      BY <1>1, <1>3, <1>6, <2>2, <3>5 DEF CommitsFollowDecisions
  <2>4. commits'[session'.index].on = plan
    BY <1>3, <1>6 DEF CommitOf
  <2>5. session'.last = plan + 1 /\ plan' = plan + 1 /\ plan \in Nat
    BY <1>2, <1>3 DEF SessionShape
  <2>6. session'.last = commits'[session'.index].on + 1 /\ session'.last <= plan'
    BY <2>4, <2>5
  <2>7. commits' \in Seq([rev : Nat, content : Nat, by : Choices, on : Nat])
    BY <1>6
  <2>8. QED  BY <2>3, <2>6, <2>7 DEF CommitsAreOwn
<1>8. DecidedIsFenced' /\ DraftsAreCurrent'
  BY <1>1, <1>2, <1>3 DEF DecidedIsFenced, DraftsAreCurrent
<1>9. QED  BY <1>3, <1>7, <1>8

\* So is a whole chain, which starts where no plan is.
LEMMA FinalizeIsSound ==
  ASSUME SessionIsSound, NEW chain \in Chains, FinalizeDraft(chain)
  PROVE  SessionIsSound'
<1> USE SessionAssumption DEF SessionIsSound
<1>1. \A r \in SourceRevisions :
        /\ chain[r].rev = r /\ chain[r] \in drafts
        /\ chain[r].content = session.content /\ chain[r].by = session.bound
  BY DEF Chains, DraftsAreCurrent
<1>2. session.bound # Undecided /\ session.base = 0 /\ plan = 0
  <2>1. 1 \in SourceRevisions
    BY DEF SourceRevisions
  <2>2. QED  BY <1>1, <2>1 DEF DraftsAreCurrent, FinalizeDraft, SessionShape
<1>3. /\ plan' = LastRevision /\ UNCHANGED <<operation, drafts>>
      /\ session' = Committed(LastRevision, LastRevision)
      /\ commits' = [r \in 1..LastRevision |-> CommitOf(chain[r], r - 1)]
  BY DEF FinalizeDraft, SourceRevisions
<1>4. /\ SessionShape'
      /\ session'.index = LastRevision /\ session'.last = LastRevision
      /\ session'.ready = session.ready /\ session'.bound = session.bound
      /\ session'.content = session.content /\ session'.base = 0
  <2>1. session' = [session EXCEPT !.index = LastRevision, !.last = LastRevision,
                                   !.st = "COMPLETED"]
    BY <1>3 DEF Committed
  <2>2. /\ session'.index = LastRevision /\ session'.last = LastRevision
        /\ session'.ready = session.ready /\ session'.bound = session.bound
        /\ session'.content = session.content /\ session'.base = 0
    BY <1>2, <2>1 DEF SessionShape
  <2>3. session' \in [st : {"READY", "WAITING_NEXT_CONFIRMATION", "COMPLETED", "CANCELLED", "gone"},
                     expired : BOOLEAN, index : 0..LastRevision,
                     ready : {"PENDING", "PARTIAL", "COMPLETED"}, content : Nat,
                     base : Nat, bound : Choices, last : Nat]
    <3> DEFINE T == [st : {"READY", "WAITING_NEXT_CONFIRMATION", "COMPLETED", "CANCELLED", "gone"},
                     expired : BOOLEAN, index : 0..LastRevision,
                     ready : {"PENDING", "PARTIAL", "COMPLETED"}, content : Nat,
                     base : Nat, bound : Choices, last : Nat]
    <3>1. session \in T
      BY DEF SessionShape
    <3>2. LastRevision \in 0..LastRevision /\ LastRevision \in Nat
      BY SessionAssumption
    <3>3. [session EXCEPT !.index = LastRevision] \in T
      BY <3>1, <3>2
    <3>4. [[session EXCEPT !.index = LastRevision] EXCEPT !.last = LastRevision] \in T
      BY <3>2, <3>3
    <3>5. [[[session EXCEPT !.index = LastRevision] EXCEPT !.last = LastRevision]
             EXCEPT !.st = "COMPLETED"] \in T
      BY <3>4
    <3>6. session' = [[[session EXCEPT !.index = LastRevision] EXCEPT !.last = LastRevision]
                        EXCEPT !.st = "COMPLETED"]
      BY <2>1
    <3>7. QED  BY <3>5, <3>6
  <2>4. QED  BY <1>3, <2>2, <2>3 DEF SessionShape
<1>5. \A r \in 1..LastRevision :
        /\ commits'[r] \in [rev : Nat, content : Nat, by : Choices, on : Nat]
        /\ commits'[r].rev = r /\ commits'[r].content = session.content
        /\ commits'[r].by = session.bound /\ commits'[r].on = r - 1
  BY <1>1, <1>3 DEF CommitOf, SourceRevisions, SessionShape
<1>6. /\ commits' \in Seq([rev : Nat, content : Nat, by : Choices, on : Nat])
      /\ Len(commits') = LastRevision /\ DOMAIN commits' = 1..LastRevision
  <2>1. commits' \in [1..LastRevision -> [rev : Nat, content : Nat, by : Choices, on : Nat]]
    BY <1>3, <1>5
  <2>2. commits' \in Seq([rev : Nat, content : Nat, by : Choices, on : Nat])
    <3> DEFINE S == [rev : Nat, content : Nat, by : Choices, on : Nat]
    <3> HIDE DEF S
    <3>0. LastRevision \in Nat
      BY SessionAssumption
    <3>1. [1..LastRevision -> S] \in {[1..n -> S] : n \in Nat}
      BY <3>0, Zenon
    <3>2. commits' \in UNION {[1..n -> S] : n \in Nat}
      BY <2>1, <3>1 DEF S
    <3>3. commits' \in Seq(S)
      BY <3>2, SeqDef, Zenon
    <3>4. QED  BY <3>3 DEF S
  <2>3. DOMAIN commits' = 1..LastRevision /\ DOMAIN commits' = 1..Len(commits') /\ Len(commits') \in Nat
    BY <2>1, <2>2, LenProperties
  <2>4. QED  BY <2>2, <2>3
<1>7. CommitsAreOwn'
  <2>1. \A i \in 1..LastRevision : i # 1 => i - 1 \in 1..LastRevision /\ commits'[i - 1].on = i - 2
    BY <1>5
  <2>2. CommitsFollowDecisions'
    <3>1. \A i \in 1..LastRevision :
            commits'[i].on = IF i = 1 THEN 0 ELSE commits'[i - 1].on + 1
      <4>1. ASSUME NEW i \in 1..LastRevision
            PROVE  commits'[i].on = IF i = 1 THEN 0 ELSE commits'[i - 1].on + 1
        BY <1>5, <2>1
      <4>2. QED  BY <4>1
    <3>2. \A i \in 1..LastRevision : /\ commits'[i].rev = i
                                     /\ commits'[i].content = session'.content
                                     /\ commits'[i].by = session'.bound
      BY <1>4, <1>5
    <3>3. session'.bound # Undecided /\ session'.base = 0 /\ session'.index = LastRevision
      BY <1>2, <1>4
    <3>4. QED  BY <1>6, <3>1, <3>2, <3>3 DEF CommitsFollowDecisions
  <2>3. commits'[LastRevision].on + 1 = LastRevision
    BY <1>5
  <2>4. QED  BY <1>3, <1>4, <1>6, <2>2, <2>3 DEF CommitsAreOwn
<1>8. DecidedIsFenced' /\ DraftsAreCurrent'
  BY <1>2, <1>3, <1>4 DEF DecidedIsFenced, DraftsAreCurrent
<1>9. QED  BY <1>4, <1>7, <1>8

\* What an import session commits are its revisions in source order, made from the
\* bundle and the decisions it holds to its end, each on top of the plan it expects
\* (the lease of update_operation, bind_decision_authority and
\* _validate_plan_target_predecessor), for any number of revisions and enrichers.
THEOREM DecisionsAreKept == SessionSpec => []CommitsFollowDecisions
<1>1. SessionInit => SessionIsSound
  <2>1. ASSUME SessionInit
        PROVE  SessionIsSound
    <3>1. SessionShape
      BY <2>1, SessionAssumption DEF SessionInit, SessionShape, Choices
    <3>2. DecidedIsFenced /\ DraftsAreCurrent
      BY <2>1 DEF SessionInit, DecidedIsFenced, DraftsAreCurrent
    <3>3. CommitsAreOwn
      BY <2>1 DEF SessionInit, CommitsAreOwn, CommitsFollowDecisions
    <3>4. QED  BY <3>1, <3>2, <3>3 DEF SessionIsSound
  <2>2. QED  BY <2>1
<1>2. SessionIsSound /\ [SessionNext]_sessionVars => SessionIsSound'
  <2>1. ASSUME SessionIsSound, UNCHANGED sessionVars
        PROVE  SessionIsSound'
    BY <2>1 DEF sessionVars, SessionIsSound, SessionShape, DecidedIsFenced, DraftsAreCurrent,
                CommitsAreOwn, CommitsFollowDecisions
  <2>2. QED
    BY <2>1, EnricherStepIsSound, ClientStepIsSound, PushIsSound, FinalizeIsSound DEF SessionNext
<1>3. SessionIsSound => CommitsFollowDecisions
  BY DEF SessionIsSound, CommitsAreOwn
<1>4. QED  BY <1>1, <1>2, <1>3, PTL DEF SessionSpec

=============================================================================
