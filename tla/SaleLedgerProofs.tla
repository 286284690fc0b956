-------------------------- MODULE SaleLedgerProofs --------------------------
(***************************************************************************)
(* What SaleLedger guarantees for any price, any schedules and any number  *)
(* of versions, receipts and allocations: the plan and its restructures    *)
(* first, then the cash, whose sums SumLemmas adds up.                     *)
(***************************************************************************)
EXTENDS SaleLedger, SumLemmas, TLAPS

\* A plan that is not drawn has no versions, and none was collected on; only a
\* collected plan is restructured.
PlanMarked ==
    /\ ~plan.drawn => \A v \in Versions : version[v].status = "none"
    /\ plan.collections_started => plan.drawn
    /\ restructure # NoRestructure
          => plan.collections_started /\ restructure.replacement \in Versions
    /\ \A r \in Receipts : receipt[r].status = "confirmed" /\ ~receipt[r].early
                              => plan.collections_started

Issued(v) == version[v].status \in {"active", "superseded"}

\* Only a schedule that was put in force is ever paid or disputed.
OnIssued ==
    /\ \A a \in allocations : Issued(a.version)
    /\ \A d \in disputed : d[1] \in Versions /\ Issued(d[1])

Inv ==
    /\ TypeOK
    /\ PlanMarked
    /\ OneGoverningSchedule
    /\ OnIssued
    /\ CashStaysOnSchedule
    /\ ClearedMeansPaid

-----------------------------------------------------------------------------
(* Clearance *)

\* Whether the account is clear depends on the confirmed cash, the schedule it
\* is applied to and the disputes on it, and on nothing else.
LEMMA AccountSame ==
    ASSUME Settled' = Settled, ConfirmedCash' = ConfirmedCash,
           Governing' = Governing, disputed' = disputed,
           \A v \in Governing : version'[v].schedule = version[v].schedule,
           sale'.status # "cancelled", AccountClear
    PROVE  AccountClear'
<1>1. \A v : Settled \cap OnVersion(v) = {a \in Settled : a.version = v}
  BY DEF Settled, OnVersion
<1>2. \A v : Settled' \cap OnVersion(v)' = {a \in Settled' : a.version = v}
  BY DEF Settled, OnVersion
<1>3. \A v : Settled' \cap OnVersion(v)' = Settled \cap OnVersion(v)
  BY <1>1, <1>2
<1>4. PICK v \in Governing :
         /\ Total(version[v].schedule) <= AmountOf(Settled \cap OnVersion(v))
         /\ \A d \in disputed : d[1] # v
  BY DEF AccountClear
<1>5. AmountOf(ConfirmedCash') <= AmountOf(Settled')
  BY DEF AccountClear
<1>6. Total(version'[v].schedule) <= AmountOf(Settled' \cap OnVersion(v)')
  BY <1>3, <1>4
<1> QED
  BY <1>4, <1>5, <1>6 DEF AccountClear

\* The premise of ClearedMeansPaid.
Owing == cleared /\ sale.status # "cancelled" /\ \A r \in Confirmed : ~receipt[r].early

\* An operation that moves none of that keeps what a clearance says.
LEMMA ClearanceKept ==
    ASSUME ClearedMeansPaid, cleared' = cleared, Confirmed' = Confirmed,
           \A r \in Confirmed : receipt'[r] = receipt[r],
           Settled' = Settled, Governing' = Governing, disputed' = disputed,
           \A v \in Governing : version'[v].schedule = version[v].schedule,
           sale'.status # "cancelled" => sale.status # "cancelled"
    PROVE  ClearedMeansPaid'
<1>1. ConfirmedCash' = ConfirmedCash
  BY DEF ConfirmedCash
<1>2. SUFFICES ASSUME Owing' PROVE AccountClear'
  BY DEF Owing, ClearedMeansPaid
<1>3. AccountClear
  BY <1>2 DEF Owing, ClearedMeansPaid
<1> QED
  BY <1>1, <1>2, <1>3, AccountSame DEF Owing

\* An operation that recalculates does too.
LEMMA ClearanceRecalculated ==
    ASSUME Recalculate PROVE ClearedMeansPaid'
BY DEF Recalculate, ClearedMeansPaid

-----------------------------------------------------------------------------
(* Families of operations *)

\* The contract moves and nothing else does; a cancelled one stays cancelled.
LEMMA ContractMoves ==
    ASSUME Inv, UNCHANGED <<schedule, cash, exceptions, cleared>>, sale' \in SaleRow,
           sale'.status # "cancelled" => sale.status # "cancelled"
    PROVE  Inv'
<1> USE DEF schedule, cash, exceptions
<1>1. TypeOK'
  BY DEF Inv, TypeOK
<1>2. PlanMarked' /\ OnIssued'
  BY DEF Inv, PlanMarked, OnIssued, Issued
<1>3. OneGoverningSchedule'
  BY DEF Inv, OneGoverningSchedule, Governing, OpenVersions, Reconciled
<1>4. Confirmed' = Confirmed /\ Settled' = Settled /\ Governing' = Governing
  BY DEF Confirmed, Settled, Governing
<1>5. CashStaysOnSchedule'
  BY <1>4 DEF Inv, CashStaysOnSchedule
<1>6. ClearedMeansPaid'
  BY <1>4, ClearanceKept DEF Inv
<1> QED
  BY <1>1, <1>2, <1>3, <1>5, <1>6 DEF Inv

\* A version is prepared: no version in force, now or before, is touched.
LEMMA VersionPrepared ==
    ASSUME Inv, UNCHANGED <<contract, cash, exceptions, cleared>>,
           plan' \in PlanRow, version' \in [Versions -> VersionRow],
           \A v \in Versions : Issued(v) \/ Issued(v)' => version'[v] = version[v],
           \A v, w \in Versions : version'[v].status \in VersionOpen
                                     /\ version'[w].status \in VersionOpen => v = w,
           PlanMarked'
    PROVE  Inv'
<1> USE DEF contract, cash, exceptions
<1>1. TypeOK'
  BY DEF Inv, TypeOK
<1>2. OnIssued'
  BY DEF Inv, TypeOK, OnIssued, Issued
<1>3. Governing' = Governing /\ \A v \in Governing : version'[v] = version[v]
  BY DEF Governing, Issued
<1>4. OneGoverningSchedule'
  BY <1>3 DEF Inv, OneGoverningSchedule, OpenVersions, Reconciled, Governing
<1>5. Confirmed' = Confirmed /\ Settled' = Settled
  BY DEF Confirmed, Settled
<1>6. CashStaysOnSchedule'
  BY <1>3, <1>5 DEF Inv, CashStaysOnSchedule
<1>7. ClearedMeansPaid'
  BY <1>3, <1>5, ClearanceKept DEF Inv, Confirmed
<1> QED
  BY <1>1, <1>2, <1>4, <1>6, <1>7 DEF Inv

\* Cash or disputes move on the versions as they stand.
LEMMA CashMoves ==
    ASSUME Inv, UNCHANGED <<contract, version, restructure>>,
           TypeOK', PlanMarked', OnIssued', CashStaysOnSchedule', ClearedMeansPaid'
    PROVE  Inv'
<1>1. OneGoverningSchedule'
  BY DEF Inv, OneGoverningSchedule, Governing, OpenVersions, Reconciled
<1> QED
  BY <1>1 DEF Inv
-----------------------------------------------------------------------------
(* One step *)

LEMMA ContractSteps ==
    ASSUME Inv,
           activate_sale \/ start_cancellation \/ approve_cancellation_terms
             \/ withdraw_cancellation \/ complete_cancellation
    PROVE  Inv'
<1> USE DEF Inv, TypeOK, SaleRow
<1>1. CASE activate_sale
  BY <1>1, ContractMoves DEF activate_sale
<1>2. CASE start_cancellation
  BY <1>2, ContractMoves DEF start_cancellation
<1>3. CASE approve_cancellation_terms
  BY <1>3, ContractMoves DEF approve_cancellation_terms
<1>4. CASE withdraw_cancellation
  BY <1>4, ContractMoves DEF withdraw_cancellation
<1>5. CASE complete_cancellation
  BY <1>5, ContractMoves DEF complete_cancellation
<1> QED
  BY <1>1, <1>2, <1>3, <1>4, <1>5

\* The steps that prepare a version, each an instance of VersionPrepared.
LEMMA PlanSteps ==
    ASSUME Inv, create_plan \/ delete_plan
    PROVE  Inv'
<1>1. CASE create_plan
  <2>1. PICK s \in {<<>>} \cup {t \in Schedules : Total(t) = Price} :
          version' = [version EXCEPT ![1] = [status |-> "draft", schedule |-> s]]
    BY <1>1 DEF create_plan
  <2>2. s \in Seq(Nat)
    <3>1. <<>> \in Seq(Nat) /\ Schedules \subseteq Seq(Nat)
      BY SaleLedgerAssumption DEF SaleLedgerAssumption
    <3> QED
      BY <3>1
  <2>3. version' \in [Versions -> VersionRow] /\ plan' \in PlanRow
    BY <1>1, <2>1, <2>2 DEF create_plan, Inv, TypeOK, VersionRow, VersionStatuses,
       VersionOpen, PlanRow
  <2>4. \A v \in Versions : version[v].status = "none"
    BY <1>1 DEF create_plan, Inv, PlanMarked
  <2>5. \A v \in Versions : version'[v].status \in {"none", "draft"}
    BY <2>1, <2>4 DEF Inv, TypeOK
  <2>6. \A v \in Versions : Issued(v) \/ Issued(v)' => version'[v] = version[v]
    BY <2>4, <2>5 DEF Issued
  <2>7. \A v, w \in Versions : version'[v].status \in VersionOpen
                                  /\ version'[w].status \in VersionOpen => v = w
    BY <2>1, <2>4 DEF Inv, TypeOK, VersionOpen
  <2>8. PlanMarked'
    BY <1>1, <2>3 DEF create_plan, Inv, PlanMarked, TypeOK, PlanRow, cash
  <2>9. UNCHANGED <<contract, cash, exceptions, cleared>>
    BY <1>1 DEF create_plan
  <2> QED
    BY <2>3, <2>6, <2>7, <2>8, <2>9, VersionPrepared
<1>2. CASE delete_plan
  <2>1. version' \in [Versions -> VersionRow] /\ plan' \in PlanRow
    <3>1. <<>> \in Seq(Nat) /\ plan \in PlanRow
      BY DEF Inv, TypeOK
    <3>2. NoVersion \in VersionRow
      BY <3>1 DEF NoVersion, VersionRow, VersionStatuses
    <3> QED
      BY <1>2, <3>1, <3>2 DEF delete_plan, PlanRow
  <2>2. \A v \in Versions : version'[v].status = "none"
    BY <1>2 DEF delete_plan, NoVersion
  <2>3. \A v \in Versions : ~Issued(v) /\ ~Issued(v)'
    BY <1>2, <2>2 DEF delete_plan, Issued, Used
  <2>4. PlanMarked'
    BY <1>2, <2>2 DEF delete_plan, Inv, PlanMarked, TypeOK, PlanRow, cash
  <2>5. UNCHANGED <<contract, cash, exceptions, cleared>>
    BY <1>2 DEF delete_plan
  <2>6. \A v \in Versions : Issued(v) \/ Issued(v)' => version'[v] = version[v]
    BY <2>3
  <2>7. \A v, w \in Versions : version'[v].status \in VersionOpen
                                  /\ version'[w].status \in VersionOpen => v = w
    BY <2>2 DEF VersionOpen
  <2> QED
    BY <2>1, <2>4, <2>5, <2>6, <2>7, VersionPrepared
<1> QED
  BY <1>1, <1>2

\* A revision is copied from the schedule in force.
LEMMA RevisionStep ==
    ASSUME Inv, NEW v \in Versions, CanRevise(v), version' = Revised(v),
           UNCHANGED <<contract, plan, cash, exceptions, cleared>>,
           restructure' # NoRestructure
              => plan.collections_started /\ restructure'.replacement \in Versions
    PROVE  Inv'
<1>1. version[v].status = "none"
  BY DEF CanRevise, NextNumber, Used
<1>2. (IF Governing = {} THEN <<>>
       ELSE version[CHOOSE w \in Governing : TRUE].schedule) \in Seq(Nat)
  BY DEF Inv, TypeOK, VersionRow, Governing
<1>3. version' \in [Versions -> VersionRow]
  BY <1>2 DEF Revised, Inv, TypeOK, VersionRow, VersionStatuses, VersionOpen
<1>4. \A w \in Versions : IF w = v THEN version'[w].status = "draft"
                          ELSE version'[w] = version[w]
  BY DEF Revised, Inv, TypeOK
<1>5. \A w \in Versions : Issued(w) \/ Issued(w)' => version'[w] = version[w]
  BY <1>1, <1>4 DEF Issued
<1>6. \A w, x \in Versions : version'[w].status \in VersionOpen
                                /\ version'[x].status \in VersionOpen => w = x
  BY <1>4 DEF CanRevise, OpenVersions
<1>7. PlanMarked'
  BY <1>4 DEF CanRevise, Inv, PlanMarked, cash
<1> QED
  BY <1>3, <1>5, <1>6, <1>7, VersionPrepared DEF Inv, TypeOK

\* A version in preparation changes its status or its schedule and is not put in
\* force.
LEMMA ReviewStep ==
    ASSUME Inv, NEW v \in Versions, version[v].status \in VersionOpen,
           NEW row \in VersionRow, row.status \notin {"none", "active", "superseded"},
           version' = [version EXCEPT ![v] = row],
           UNCHANGED <<contract, plan, restructure, cash, exceptions, cleared>>
    PROVE  Inv'
<1>1. version' \in [Versions -> VersionRow]
  BY DEF Inv, TypeOK
<1>2. \A w \in Versions : version'[w] = IF w = v THEN row ELSE version[w]
  BY DEF Inv, TypeOK
<1>3. \A w \in Versions : Issued(w) \/ Issued(w)' => version'[w] = version[w]
  BY <1>2 DEF Issued, VersionOpen
<1>4. \A w, x \in Versions : version'[w].status \in VersionOpen
                                /\ version'[x].status \in VersionOpen => w = x
  BY <1>2 DEF Inv, OneGoverningSchedule, OpenVersions
<1>5. PlanMarked'
  BY <1>2 DEF Inv, PlanMarked, cash, VersionOpen
<1>6. UNCHANGED <<contract, cash, exceptions, cleared>> /\ plan' \in PlanRow
  BY DEF Inv, TypeOK
<1> QED
  BY <1>1, <1>3, <1>4, <1>5, <1>6, VersionPrepared

LEMMA ReviewSteps ==
    ASSUME Inv, NEW v \in Versions,
           \/ submit_version(v) \/ approve_version(v) \/ reject_version(v)
           \/ discard_version(v) \/ \E s \in Schedules : replace_schedule(v, s)
    PROVE  Inv'
<1>0. version \in [Versions -> VersionRow]
  BY DEF Inv, TypeOK
<1> USE DEF VersionRow, VersionStatuses, VersionOpen
<1>1. CASE submit_version(v)
  <2>1. [version[v] EXCEPT !.status = "submitted"] \in VersionRow
    BY <1>0
  <2>2. version' = [version EXCEPT ![v] = [version[v] EXCEPT !.status = "submitted"]]
    BY <1>0, <1>1 DEF submit_version
  <2> QED
    BY <1>0, <1>1, <2>1, <2>2, ReviewStep DEF submit_version
<1>2. CASE approve_version(v)
  <2>1. [version[v] EXCEPT !.status = "approved"] \in VersionRow
    BY <1>0
  <2>2. version' = [version EXCEPT ![v] = [version[v] EXCEPT !.status = "approved"]]
    BY <1>0, <1>2 DEF approve_version
  <2> QED
    BY <1>0, <1>2, <2>1, <2>2, ReviewStep DEF approve_version
<1>3. CASE reject_version(v)
  <2>1. [version[v] EXCEPT !.status = "rejected"] \in VersionRow
    BY <1>0
  <2>2. version' = [version EXCEPT ![v] = [version[v] EXCEPT !.status = "rejected"]]
    BY <1>0, <1>3 DEF reject_version
  <2> QED
    BY <1>0, <1>3, <2>1, <2>2, ReviewStep DEF reject_version
<1>4. CASE discard_version(v)
  <2> DEFINE row == [version[v] EXCEPT !.status = "discarded", !.schedule = <<>>]
  <2>1. row \in VersionRow /\ row.status = "discarded"
    <3>1. <<>> \in Seq(Nat) /\ version[v] \in VersionRow
      BY <1>0
    <3> QED
      BY <3>1
  <2>2. version' = [version EXCEPT ![v] = row]
    BY <1>0, <1>4 DEF discard_version
  <2> QED
    BY <1>0, <1>4, <2>1, <2>2, ReviewStep DEF discard_version
<1>5. ASSUME NEW s \in Schedules, replace_schedule(v, s) PROVE Inv'
  <2>1. [version[v] EXCEPT !.schedule = s] \in VersionRow
    BY <1>0, SaleLedgerAssumption
  <2>2. version' = [version EXCEPT ![v] = [version[v] EXCEPT !.schedule = s]]
    BY <1>0, <1>5 DEF replace_schedule
  <2> QED
    BY <1>0, <1>5, <2>1, <2>2, ReviewStep DEF replace_schedule
<1> QED
  BY <1>1, <1>2, <1>3, <1>4, <1>5

-----------------------------------------------------------------------------
(* A version is put in force *)

\* What _activate_locked does to the versions.
LEMMA Activation ==
    ASSUME Inv, NEW v \in Versions, MayGovern(v), version' = Activated(v)
    PROVE  /\ version' \in [Versions -> VersionRow]
           /\ Governing' = {v} /\ v \notin Governing /\ ~Issued(v)
           /\ \A w \in Versions : version'[w].schedule = version[w].schedule
           /\ \A w \in Versions : Issued(w) => Issued(w)'
           /\ plan.drawn
           /\ OneGoverningSchedule'
<1>0. version \in [Versions -> VersionRow] /\ version[v].status = "approved"
  BY DEF Inv, TypeOK, MayGovern
<1>1. v \notin Governing /\ ~Issued(v)
  BY <1>0 DEF Governing, Issued
<1>2. \A w \in Versions :
         version'[w] = IF w = v THEN [version[w] EXCEPT !.status = "active"]
                       ELSE IF w \in Governing THEN [version[w] EXCEPT !.status = "superseded"]
                       ELSE version[w]
  BY DEF Activated
<1>3. version' \in [Versions -> VersionRow]
  <2>1. \A w \in Versions : version[w] \in VersionRow
    BY <1>0
  <2>2. \A w \in Versions : version'[w] \in VersionRow
    BY <1>2, <2>1 DEF VersionRow, VersionStatuses
  <2>3. version' = [w \in Versions |-> version'[w]]
    BY DEF Activated
  <2> QED
    BY <2>2, <2>3
<1>4. \A w \in Versions :
         /\ version'[w].schedule = version[w].schedule
         /\ version'[w].status = IF w = v THEN "active"
                                 ELSE IF version[w].status = "active" THEN "superseded"
                                 ELSE version[w].status
  BY ZenonT(40), <1>0, <1>2 DEF VersionRow, Governing
<1>5. Governing' = {v}
  BY <1>4 DEF Governing
<1>6. \A w \in Versions : Issued(w) => Issued(w)'
  BY <1>4 DEF Issued
<1>7. plan.drawn
  BY <1>0 DEF Inv, PlanMarked
<1>8. OneGoverningSchedule'
  <2>1. OpenVersions' \subseteq OpenVersions
    BY <1>4 DEF OpenVersions, VersionOpen
  <2>2. Reconciled(v)'
    BY <1>4 DEF MayGovern, Reconciled
  <2> QED
    BY <1>5, <2>1, <2>2 DEF Inv, OneGoverningSchedule
<1> QED
  BY <1>1, <1>3, <1>4, <1>5, <1>6, <1>7, <1>8

\* The ordinary way.  It replaces a standing schedule only when no cash was
\* confirmed against the plan, and then whatever was clear stays clear.
LEMMA ActivateStep ==
    ASSUME Inv, NEW v \in Versions, activate_version(v)
    PROVE  Inv'
<1>0. /\ MayGovern(v) /\ version' = Activated(v)
      /\ plan.collections_started => Governing = {}
      /\ UNCHANGED <<sale, plan, restructure, receipt, allocations, disputed, waived, cleared>>
  BY DEF activate_version, contract, cash, exceptions
<1>1. /\ version' \in [Versions -> VersionRow]
      /\ Governing' = {v} /\ ~Issued(v)
      /\ \A w \in Versions : version'[w].schedule = version[w].schedule
      /\ \A w \in Versions : Issued(w) => Issued(w)'
      /\ plan.drawn /\ OneGoverningSchedule'
  BY <1>0, Activation
<1>2. TypeOK'
  BY <1>0, <1>1 DEF Inv, TypeOK
<1>3. PlanMarked'
  BY <1>0, <1>1 DEF Inv, PlanMarked
<1>4. OnIssued'
  BY <1>0, <1>1 DEF Inv, TypeOK, OnIssued
<1>5. Settled' = Settled /\ Confirmed' = Confirmed /\ ConfirmedCash' = ConfirmedCash
  BY <1>0 DEF Settled, Confirmed, ConfirmedCash
<1>6. \A a \in Settled : ~receipt[a.receipt].early => plan.collections_started
  BY DEF Inv, TypeOK, PlanMarked, Settled
<1>7. CashStaysOnSchedule'
  BY <1>0, <1>5, <1>6 DEF Inv, CashStaysOnSchedule
<1>8. ClearedMeansPaid'
  <2>1. SUFFICES ASSUME Owing' PROVE AccountClear'
    BY DEF Owing, ClearedMeansPaid
  <2>2. Owing
    BY <1>0, <1>5, <2>1 DEF Owing
  <2>3. PICK g \in Governing :
           Total(version[g].schedule) <= AmountOf(Settled \cap OnVersion(g))
    BY <2>2 DEF Owing, Inv, ClearedMeansPaid, AccountClear
  <2>4. Settled = {}
    <3>1. Confirmed = {}
      BY <1>0, <2>2, <2>3 DEF Owing, Inv, PlanMarked, Confirmed
    <3> QED
      BY <3>1 DEF Settled, Confirmed, Inv, TypeOK
  <2>5. Total(version'[v].schedule) = Total(version[g].schedule)
    BY <1>0, <1>1, <2>3 DEF MayGovern, Reconciled, Inv, OneGoverningSchedule
  <2>6. Settled' \cap OnVersion(v)' = Settled \cap OnVersion(g)
    BY <1>5, <2>4
  <2>7. \A d \in disputed' : d[1] # v
    BY <1>0, <1>1 DEF Inv, OnIssued
  <2>8. AmountOf(ConfirmedCash') <= AmountOf(Settled') /\ sale'.status # "cancelled"
    BY <1>0, <1>5, <2>2 DEF Owing, Inv, ClearedMeansPaid, AccountClear
  <2> QED
    BY <1>1, <2>3, <2>5, <2>6, <2>7, <2>8 DEF AccountClear
<1> QED
  BY <1>1, <1>2, <1>3, <1>4, <1>7, <1>8 DEF Inv

\* A restructure carries every row of the schedule it replaces onto the new one.
LEMMA ApplyStep ==
    ASSUME Inv, apply_restructure
    PROVE  Inv'
<1>a. PICK v, w : v = restructure.source /\ w = restructure.replacement
  OBVIOUS
<1>0. /\ restructure # NoRestructure /\ v \in Governing /\ MayGovern(w)
      /\ allocations' = (allocations \ OnVersion(v)) \cup CarryForward(v, w)
      /\ version' = Activated(w) /\ restructure' = NoRestructure
      /\ UNCHANGED <<sale, plan, receipt, disputed, waived>>
      /\ Recalculate
  BY <1>a DEF apply_restructure, contract, exceptions
<1>1. w \in Versions
  BY <1>a, <1>0 DEF Inv, PlanMarked
<1>2. /\ version' \in [Versions -> VersionRow]
      /\ Governing' = {w}
      /\ \A x \in Versions : Issued(x) => Issued(x)'
      /\ plan.drawn /\ OneGoverningSchedule'
  BY <1>0, <1>1, Activation
<1>3. \A a \in CarryForward(v, w) : a.receipt \in Receipts /\ a.version = w
  BY DEF CarryForward
<1>4. \A a \in allocations' :
         \/ a \in allocations /\ a.version # v
         \/ a.receipt \in Receipts /\ a.version = w
  BY <1>0, <1>3 DEF OnVersion
<1>5. TypeOK'
  BY <1>0, <1>1, <1>2, <1>4 DEF Inv, TypeOK, Recalculate
<1>6. PlanMarked'
  BY <1>0, <1>2 DEF Inv, PlanMarked
<1>7. Issued(w)'
  BY <1>2 DEF Governing, Issued
<1>8. OnIssued'
  BY <1>0, <1>2, <1>4, <1>7 DEF Inv, TypeOK, OnIssued
<1>9. CashStaysOnSchedule'
  <2>1. SUFFICES ASSUME NEW a \in Settled', ~receipt'[a.receipt].early
                 PROVE  a.version = w
    BY <1>2 DEF CashStaysOnSchedule
  <2>2. a \in allocations' /\ receipt[a.receipt].status = "confirmed"
    BY <1>0 DEF Settled
  <2>3. CASE a \in allocations /\ a.version # v
    BY <1>0, <2>1, <2>2, <2>3 DEF Settled, Inv, CashStaysOnSchedule, OneGoverningSchedule
  <2> QED
    BY <1>4, <2>2, <2>3
<1>10. ClearedMeansPaid'
  BY <1>0, ClearanceRecalculated
<1> QED
  BY <1>2, <1>5, <1>6, <1>8, <1>9, <1>10 DEF Inv

-----------------------------------------------------------------------------
(* Cash moves *)

\* Rows of receipts that are neither confirmed now nor after move no cash.
LEMMA NoConfirmedCash ==
    ASSUME Inv, UNCHANGED <<contract, schedule, exceptions, cleared>>,
           receipt' \in [Receipts -> ReceiptRow],
           \A r \in Receipts : receipt[r].status = "confirmed" \/ receipt'[r].status = "confirmed"
                                  => receipt'[r] = receipt[r],
           \A a \in allocations' : a \notin allocations
               => a.receipt \in Receipts /\ a.version \in Governing,
           Settled' = Settled
    PROVE  Inv'
<1> USE DEF contract, schedule, exceptions
<1>1. TypeOK'
  BY DEF Inv, TypeOK, Governing
<1>2. PlanMarked'
  BY DEF Inv, PlanMarked
<1>3. OnIssued'
  BY DEF Inv, OnIssued, Issued, Governing
<1>4. /\ Confirmed' = Confirmed /\ Governing' = Governing
      /\ \A r \in Confirmed : receipt'[r] = receipt[r]
  BY DEF Confirmed, Governing
<1>5. CashStaysOnSchedule'
  <2>1. SUFFICES ASSUME NEW a \in Settled, ~receipt'[a.receipt].early
                 PROVE  a.version \in Governing
    BY <1>4 DEF CashStaysOnSchedule
  <2>2. receipt'[a.receipt] = receipt[a.receipt]
    BY DEF Settled, Inv, TypeOK
  <2> QED
    BY <2>1, <2>2 DEF Inv, CashStaysOnSchedule
<1>6. ClearedMeansPaid'
  BY <1>4, ClearanceKept DEF Inv
<1> QED
  BY <1>1, <1>2, <1>3, <1>5, <1>6, CashMoves

LEMMA ReceiptSteps ==
    ASSUME Inv, NEW r \in Receipts,
           void_receipt(r) \/ \E amount \in 1..Price : record_receipt(r, amount)
    PROVE  Inv'
<1>0. receipt \in [Receipts -> ReceiptRow]
  BY DEF Inv, TypeOK
<1>1. ASSUME NEW amount \in 1..Price, record_receipt(r, amount) PROVE Inv'
  <2>1. receipt[r].status = "none"
    BY <1>1 DEF record_receipt, Receipts
  <2>2. amount \in Nat
    OBVIOUS
  <2>3. receipt' \in [Receipts -> ReceiptRow]
    BY <1>0, <1>1, <2>2 DEF record_receipt, ReceiptRow
  <2>4. \A q \in Receipts : IF q = r THEN receipt'[q].status = "recorded"
                            ELSE receipt'[q] = receipt[q]
    BY <1>0, <1>1 DEF record_receipt
  <2>5. allocations' = allocations /\ UNCHANGED <<contract, schedule, exceptions, cleared>>
    BY <1>1 DEF record_receipt
  <2>6. Settled' = Settled
    BY <2>1, <2>4, <2>5 DEF Settled, Inv, TypeOK
  <2> QED
    BY <2>1, <2>3, <2>4, <2>5, <2>6, NoConfirmedCash
<1>2. CASE void_receipt(r)
  <2>1. receipt' \in [Receipts -> ReceiptRow]
    BY <1>0, <1>2 DEF void_receipt, ReceiptRow
  <2>2. /\ receipt[r].status = "recorded"
        /\ \A q \in Receipts : IF q = r THEN receipt'[q].status = "reversed"
                               ELSE receipt'[q] = receipt[q]
    BY <1>0, <1>2 DEF void_receipt, ReceiptRow
  <2>3. allocations' = allocations /\ UNCHANGED <<contract, schedule, exceptions, cleared>>
    BY <1>2 DEF void_receipt
  <2>4. Settled' = Settled
    BY <2>2, <2>3 DEF Settled, Inv, TypeOK
  <2> QED
    BY <2>1, <2>2, <2>3, <2>4, NoConfirmedCash
<1> QED
  BY <1>1, <1>2

\* Confirmed cash lies on the schedule in force, and marks the plan it is on.
LEMMA ConfirmStep ==
    ASSUME Inv, NEW r \in Receipts, confirm_receipt(r)
    PROVE  Inv'
<1>0. /\ receipt \in [Receipts -> ReceiptRow] /\ plan \in PlanRow
      /\ receipt' = [receipt EXCEPT ![r].status = "confirmed", ![r].early = ~plan.drawn]
      /\ plan' = [plan EXCEPT !.collections_started = plan.collections_started \/ plan.drawn]
      /\ UNCHANGED <<sale, version, restructure, allocations, disputed, waived>>
      /\ Recalculate
      /\ \A a \in OfReceipt(r) : a.version \in Governing
  BY DEF confirm_receipt, Confirm, contract, exceptions, Inv, TypeOK
<1>1. /\ receipt' \in [Receipts -> ReceiptRow]
      /\ \A q \in Receipts : IF q = r THEN receipt'[q].early = ~plan.drawn
                             ELSE receipt'[q] = receipt[q]
  BY <1>0 DEF ReceiptRow, PlanRow
<1>2. /\ plan' \in PlanRow /\ plan'.drawn = plan.drawn
      /\ plan'.collections_started <=> plan.collections_started \/ plan.drawn
  BY <1>0 DEF PlanRow
<1>3. TypeOK'
  BY <1>0, <1>1, <1>2 DEF Inv, TypeOK, Recalculate
<1>4. PlanMarked'
  BY <1>0, <1>1, <1>2 DEF Inv, PlanMarked
<1>5. OnIssued'
  BY <1>0 DEF Inv, OnIssued, Issued
<1>6. CashStaysOnSchedule'
  <2>1. SUFFICES ASSUME NEW a \in Settled', ~receipt'[a.receipt].early
                 PROVE  a.version \in Governing
    BY <1>0 DEF CashStaysOnSchedule, Governing
  <2>2. a \in allocations /\ a.receipt \in Receipts
    BY <1>0 DEF Settled, Inv, TypeOK
  <2>3. CASE a.receipt = r
    BY <1>0, <2>2, <2>3 DEF OfReceipt
  <2>4. CASE a.receipt # r
    <3>1. receipt'[a.receipt] = receipt[a.receipt]
      BY <1>1, <2>2, <2>4
    <3> QED
      BY <2>1, <2>2, <3>1 DEF Settled, Inv, CashStaysOnSchedule
  <2> QED
    BY <2>3, <2>4
<1>7. ClearedMeansPaid'
  BY <1>0, ClearanceRecalculated
<1> QED
  BY <1>0, <1>3, <1>4, <1>5, <1>6, <1>7, CashMoves DEF contract

\* A reversed receipt takes its rows with it.
LEMMA ReverseStep ==
    ASSUME Inv, NEW r \in Receipts, reverse_receipt(r)
    PROVE  Inv'
<1>0. /\ receipt \in [Receipts -> ReceiptRow]
      /\ receipt' = [receipt EXCEPT ![r].status = "reversed"]
      /\ allocations' = allocations \ OfReceipt(r)
      /\ UNCHANGED <<sale, plan, version, restructure, disputed, waived>>
      /\ Recalculate
  BY DEF reverse_receipt, contract, schedule, exceptions, Inv, TypeOK
<1>1. /\ receipt' \in [Receipts -> ReceiptRow]
      /\ \A q \in Receipts : IF q = r THEN receipt'[q].status = "reversed"
                             ELSE receipt'[q] = receipt[q]
  BY <1>0 DEF ReceiptRow
<1>2. TypeOK'
  BY <1>0, <1>1 DEF Inv, TypeOK, Recalculate
<1>3. PlanMarked'
  BY <1>0, <1>1 DEF Inv, PlanMarked
<1>4. OnIssued'
  BY <1>0 DEF Inv, OnIssued, Issued
<1>5. CashStaysOnSchedule'
  <2>1. SUFFICES ASSUME NEW a \in Settled', ~receipt'[a.receipt].early
                 PROVE  a.version \in Governing
    BY <1>0 DEF CashStaysOnSchedule, Governing
  <2>2. a \in allocations /\ a.receipt \in Receipts /\ a.receipt # r
    BY <1>0 DEF Settled, Inv, TypeOK, OfReceipt
  <2>3. receipt'[a.receipt] = receipt[a.receipt]
    BY <1>1, <2>2
  <2> QED
    BY <2>1, <2>2, <2>3 DEF Settled, Inv, CashStaysOnSchedule
<1>6. ClearedMeansPaid'
  BY <1>0, ClearanceRecalculated
<1> QED
  BY <1>0, <1>2, <1>3, <1>4, <1>5, <1>6, CashMoves DEF contract

\* Rows are added to the schedule in force, or removed, with the receipts as
\* they are.
LEMMA AllocationMoves ==
    ASSUME Inv, UNCHANGED <<contract, schedule, receipt, exceptions>>,
           \A a \in allocations' : a \notin allocations
               => a.receipt \in Receipts /\ a.version \in Governing,
           Recalculate \/ (UNCHANGED cleared /\ Settled' = Settled)
    PROVE  Inv'
<1> USE DEF contract, schedule, exceptions
<1>1. CASE UNCHANGED cleared /\ Settled' = Settled
  <2>1. receipt' \in [Receipts -> ReceiptRow] /\ \A r \in Receipts : receipt'[r] = receipt[r]
    BY DEF Inv, TypeOK
  <2> QED
    BY <1>1, <2>1, NoConfirmedCash
<1>2. CASE Recalculate
  <2>1. TypeOK'
    BY <1>2 DEF Inv, TypeOK, Governing, Recalculate
  <2>2. PlanMarked'
    BY DEF Inv, PlanMarked
  <2>3. OnIssued'
    BY DEF Inv, OnIssued, Issued, Governing
  <2>4. CashStaysOnSchedule'
    BY DEF Inv, CashStaysOnSchedule, Settled, Governing
  <2>5. ClearedMeansPaid'
    BY <1>2, ClearanceRecalculated
  <2> QED
    BY <2>1, <2>2, <2>3, <2>4, <2>5, CashMoves
<1> QED
  BY <1>1, <1>2

LEMMA AllocationSteps ==
    ASSUME Inv,
           \/ \E r \in Receipts, i \in Positions, amount \in 1..Price :
                 create_allocation(r, i, amount)
           \/ \E a \in allocations : reverse_allocation(a)
    PROVE  Inv'
<1>1. ASSUME NEW r \in Receipts, NEW i, NEW amount, create_allocation(r, i, amount)
      PROVE  Inv'
  <2>1. PICK v \in Governing :
          /\ \E n : allocations' = allocations \cup
                {[receipt |-> r, version |-> v, position |-> i, amount |-> amount, row |-> n]}
          /\ UNCHANGED <<contract, schedule, receipt, exceptions>>
          /\ IF receipt[r].status = "confirmed" THEN Recalculate ELSE UNCHANGED cleared
    BY <1>1 DEF create_allocation
  <2>2. \A a \in allocations' : a \notin allocations
           => a.receipt \in Receipts /\ a.version \in Governing
    BY <2>1
  <2>3. receipt[r].status # "confirmed" => Settled' = Settled
    BY <2>1 DEF Settled
  <2> QED
    BY <2>1, <2>2, <2>3, AllocationMoves
<1>2. ASSUME NEW a \in allocations, reverse_allocation(a) PROVE Inv'
  <2>1. /\ allocations' = allocations \ {a}
        /\ UNCHANGED <<contract, schedule, receipt, exceptions>>
        /\ IF receipt[a.receipt].status = "confirmed" THEN Recalculate ELSE UNCHANGED cleared
    BY <1>2 DEF reverse_allocation
  <2>2. receipt[a.receipt].status # "confirmed" => Settled' = Settled
    BY <2>1 DEF Settled
  <2> QED
    BY <2>1, <2>2, AllocationMoves
<1> QED
  BY <1>1, <1>2

-----------------------------------------------------------------------------
(* Disputes, waivers, the clearance and restructures *)

\* What is left moves no cash: a dispute comes or goes, a clearance is granted,
\* the open restructure is dropped.
LEMMA ExceptionMoves ==
    ASSUME Inv, UNCHANGED <<contract, plan, version, cash>>,
           \/ UNCHANGED <<disputed, cleared>>
           \/ Recalculate
           \/ UNCHANGED disputed /\ cleared' = TRUE /\ AccountClear,
           \A d \in disputed' : d \notin disputed => d[1] \in Governing,
           restructure' = restructure \/ restructure' = NoRestructure
    PROVE  Inv'
<1> USE DEF contract, cash
<1>1. TypeOK'
  BY DEF Inv, TypeOK, Recalculate
<1>2. PlanMarked'
  BY DEF Inv, PlanMarked
<1>3. OnIssued'
  BY DEF Inv, OnIssued, Issued, Governing
<1>4. OneGoverningSchedule'
  BY DEF Inv, OneGoverningSchedule, Governing, OpenVersions, Reconciled
<1>5. /\ Settled' = Settled /\ Governing' = Governing
      /\ Confirmed' = Confirmed /\ ConfirmedCash' = ConfirmedCash
  BY DEF Settled, Governing, Confirmed, ConfirmedCash
<1>6. CashStaysOnSchedule'
  BY <1>5 DEF Inv, CashStaysOnSchedule
<1>7. ClearedMeansPaid'
  <2>1. CASE UNCHANGED <<disputed, cleared>>
    BY <1>5, <2>1, ClearanceKept DEF Inv
  <2>2. CASE Recalculate
    BY <2>2, ClearanceRecalculated
  <2>3. CASE UNCHANGED disputed /\ AccountClear
    BY <1>5, <2>3, AccountSame DEF ClearedMeansPaid
  <2> QED
    BY <2>1, <2>2, <2>3
<1> QED
  BY <1>1, <1>2, <1>3, <1>4, <1>6, <1>7 DEF Inv

LEMMA ExceptionSteps ==
    ASSUME Inv,
           \/ \E v \in Versions, i \in Contested : open_dispute(<<v, i>>) \/ submit_waiver(<<v, i>>)
           \/ \E d \in disputed : close_dispute(d)
           \/ \E d \in waived : end_waiver(d)
           \/ grant_collection_clearance
           \/ abandon_restructure
    PROVE  Inv'
<1> USE DEF schedule, cash, exceptions
<1>1. ASSUME NEW v \in Versions, NEW i, open_dispute(<<v, i>>) PROVE Inv'
  <2>1. v \in Governing
    BY <1>1 DEF open_dispute, Instalments
  <2>2. \A d \in disputed' : d \notin disputed => d[1] \in Governing
    BY <1>1, <2>1 DEF open_dispute
  <2> QED
    BY <1>1, <2>2, ExceptionMoves DEF open_dispute
<1>2. ASSUME NEW v, NEW i, submit_waiver(<<v, i>>) PROVE Inv'
  BY <1>2, ExceptionMoves DEF submit_waiver
<1>3. ASSUME NEW d \in disputed, close_dispute(d) PROVE Inv'
  BY <1>3, ExceptionMoves DEF close_dispute
<1>4. ASSUME NEW d \in waived, end_waiver(d) PROVE Inv'
  BY <1>4, ExceptionMoves DEF end_waiver
<1>5. CASE grant_collection_clearance
  BY <1>5, ExceptionMoves DEF grant_collection_clearance
<1>6. CASE abandon_restructure
  BY <1>6, ExceptionMoves DEF abandon_restructure
<1> QED
  BY <1>1, <1>2, <1>3, <1>4, <1>5, <1>6

LEMMA RevisionSteps ==
    ASSUME Inv, NEW w \in Versions,
           create_version(w) \/ \E v \in Versions : create_restructure(v, w)
    PROVE  Inv'
<1>1. CASE create_version(w)
  <2>1. restructure' # NoRestructure
           => plan.collections_started /\ restructure'.replacement \in Versions
    BY <1>1 DEF create_version, Inv, PlanMarked
  <2> QED
    BY <1>1, <2>1, RevisionStep DEF create_version
<1>2. ASSUME NEW v \in Versions, create_restructure(v, w) PROVE Inv'
  <2>1. restructure'.replacement = w /\ plan.collections_started
    BY <1>2 DEF create_restructure
  <2> QED
    BY <1>2, <2>1, RevisionStep DEF create_restructure
<1> QED
  BY <1>1, <1>2

-----------------------------------------------------------------------------
(* The invariant *)

LEMMA Initially ==
    ASSUME Init PROVE Inv
<1>1. NoVersion \in VersionRow
  <2>1. <<>> \in Seq(Nat)
    OBVIOUS
  <2> QED
    BY <2>1 DEF NoVersion, VersionRow, VersionStatuses
<1>2. NoReceipt \in ReceiptRow
  BY DEF NoReceipt, ReceiptRow
<1>3. TypeOK
  BY <1>1, <1>2 DEF Init, TypeOK, SaleRow, PlanRow
<1>4. PlanMarked
  BY DEF Init, PlanMarked, NoVersion, NoReceipt
<1>5. Governing = {} /\ OpenVersions = {}
  BY DEF Init, Governing, OpenVersions, NoVersion, VersionOpen
<1>6. OneGoverningSchedule /\ OnIssued /\ CashStaysOnSchedule /\ ClearedMeansPaid
  BY <1>5 DEF Init, OneGoverningSchedule, OnIssued, CashStaysOnSchedule, Settled,
     ClearedMeansPaid
<1> QED
  BY <1>3, <1>4, <1>6 DEF Inv

\* What a plan that was collected on remembers, operation by operation.
LEMMA PlanRemembers ==
    ASSUME Inv, Next
    PROVE  plan.collections_started => plan'.collections_started
<1>1. CASE create_plan
  BY <1>1 DEF create_plan, Inv, TypeOK, PlanRow
<1>2. CASE delete_plan
  BY <1>2 DEF delete_plan
<1>3. ASSUME NEW r \in Receipts, confirm_receipt(r)
      PROVE  plan.collections_started => plan'.collections_started
  BY <1>3 DEF confirm_receipt, Confirm, Inv, TypeOK, PlanRow
<1>4. CASE plan' = plan
  BY <1>4
<1> QED
  BY <1>1, <1>2, <1>3, <1>4 DEF Next, schedule, activate_sale, start_cancellation,
     approve_cancellation_terms, withdraw_cancellation, complete_cancellation,
     create_version, submit_version, approve_version, reject_version, discard_version,
     activate_version, replace_schedule, open_dispute, submit_waiver, void_receipt,
     reverse_receipt, record_receipt, create_allocation, reverse_allocation,
     close_dispute, end_waiver, grant_collection_clearance, create_restructure,
     abandon_restructure, apply_restructure

LEMMA OneStep ==
    ASSUME Inv, [Next]_vars PROVE Inv'
<1>1. CASE UNCHANGED vars
  BY <1>1, ContractMoves DEF vars, schedule, cash, exceptions, Inv, TypeOK
<1>2. ASSUME NEW v \in Versions,
             \/ create_version(v) \/ submit_version(v) \/ approve_version(v) \/ reject_version(v)
             \/ discard_version(v) \/ activate_version(v)
             \/ \E s \in Schedules : replace_schedule(v, s)
             \/ \E i \in Contested : open_dispute(<<v, i>>) \/ submit_waiver(<<v, i>>)
      PROVE  Inv'
  BY <1>2, RevisionSteps, ReviewSteps, ActivateStep, ExceptionSteps
<1>3. ASSUME NEW r \in Receipts,
             void_receipt(r) \/ confirm_receipt(r) \/ reverse_receipt(r)
      PROVE  Inv'
  BY <1>3, ReceiptSteps, ConfirmStep, ReverseStep
<1>4. ASSUME NEW amount \in 1..Price, NEW r \in Receipts,
             record_receipt(r, amount) \/ \E i \in Positions : create_allocation(r, i, amount)
      PROVE  Inv'
  BY <1>4, ReceiptSteps, AllocationSteps
<1>5. ASSUME NEW v \in Versions, NEW w \in Versions, create_restructure(v, w) PROVE Inv'
  BY <1>5, RevisionSteps
<1>6. CASE Next
  BY <1>2, <1>3, <1>4, <1>5, <1>6, ContractSteps, PlanSteps, AllocationSteps,
     ExceptionSteps, ApplyStep DEF Next
<1> QED
  BY <1>1, <1>6

\* Every reachable state satisfies the invariant.
THEOREM Invariant == Spec => []Inv
<1>1. Init => Inv
  BY Initially
<1>2. Inv /\ [Next]_vars => Inv'
  BY OneStep
<1> QED
  BY <1>1, <1>2, PTL DEF Spec

-----------------------------------------------------------------------------
(* What it gives *)

\* Contract, plan, versions, receipts and allocations keep their shape, whatever
\* is drawn, revised, paid and carried.
THEOREM TypeCorrect == Spec => []TypeOK
<1>1. Inv => TypeOK
  BY DEF Inv
<1> QED
  BY <1>1, Invariant, PTL

\* However plans are drawn, revised, rejected and restructured, at most one
\* version governs, at most one is in preparation, and the one that governs adds
\* up to the price.
THEOREM OneSchedule == Spec => []OneGoverningSchedule
<1>1. Inv => OneGoverningSchedule
  BY DEF Inv
<1> QED
  BY <1>1, Invariant, PTL

\* Cash confirmed while the plan existed is never left on a superseded schedule.
THEOREM CashStays == Spec => []CashStaysOnSchedule
<1>1. Inv => CashStaysOnSchedule
  BY DEF Inv
<1> QED
  BY <1>1, Invariant, PTL

\* A clearance stands only while the account is paid, applied and undisputed,
\* whichever operation moved the cash, the schedule or the disputes since.
THEOREM Cleared == Spec => []ClearedMeansPaid
<1>1. Inv => ClearedMeansPaid
  BY DEF Inv
<1> QED
  BY <1>1, Invariant, PTL

\* A plan cash was confirmed against is never deleted, and never forgets it.
THEOREM PlanKept == Spec => CollectedPlanKept
<1>1. Inv /\ [Next]_vars => [plan.collections_started => plan'.collections_started]_plan
  BY PlanRemembers DEF vars
<1> QED
  BY <1>1, Invariant, PTL DEF Spec, CollectedPlanKept

-----------------------------------------------------------------------------
(* What rows amount to *)

\* A table of rows whose amounts can be added up.
Counted(rows) == IsFiniteSet(rows) /\ \A a \in rows : a.amount \in Nat

\* The sum may run over any function that gives every row its amount.
LEMMA AmountAs ==
    ASSUME NEW rows, Counted(rows), NEW f, \A a \in rows : f[a] = a.amount
    PROVE  AmountOf(rows) = SumFunctionOnSet(f, rows)
<1> DEFINE amount == [a \in rows |-> a.amount]
<1>1. AmountOf(rows) = SumFunctionOnSet(amount, rows)
  BY DEF AmountOf, SumFunction
<1>2. \A a \in rows : amount[a] \in Int /\ amount[a] = f[a]
  BY DEF Counted
<1> HIDE DEF amount
<1> QED
  BY <1>1, <1>2, SumSame DEF Counted

LEMMA AmountNat ==
    ASSUME NEW rows, Counted(rows)
    PROVE  AmountOf(rows) \in Nat
<1> DEFINE amount == [a \in rows |-> a.amount]
<1>1. AmountOf(rows) = SumFunctionOnSet(amount, rows)
  BY DEF AmountOf, SumFunction
<1>2. \A a \in rows : amount[a] \in Nat
  BY DEF Counted
<1> HIDE DEF amount
<1> QED
  BY <1>1, <1>2, SumNat DEF Counted

LEMMA AmountNone == AmountOf({}) = 0
BY SumEmpty DEF AmountOf, SumFunction

LEMMA CountedPart ==
    ASSUME NEW rows, Counted(rows), NEW part, part \subseteq rows
    PROVE  Counted(part)
BY FS_Subset DEF Counted

LEMMA AmountWithin ==
    ASSUME NEW rows, Counted(rows), NEW part, part \subseteq rows
    PROVE  AmountOf(part) <= AmountOf(rows)
<1> DEFINE amount == [a \in rows |-> a.amount]
<1>1. \A a \in rows : amount[a] = a.amount /\ amount[a] \in Nat
  BY DEF Counted
<1> HIDE DEF amount
<1>2. AmountOf(rows) = SumFunctionOnSet(amount, rows)
  BY <1>1, AmountAs
<1>3. AmountOf(part) = SumFunctionOnSet(amount, part)
  BY <1>1, AmountAs, CountedPart
<1> QED
  BY <1>1, <1>2, <1>3, SumWithin DEF Counted

LEMMA AmountUnion ==
    ASSUME NEW rows, NEW more, Counted(rows), Counted(more), rows \cap more = {}
    PROVE  AmountOf(rows \cup more) = AmountOf(rows) + AmountOf(more)
<1> DEFINE amount == [a \in rows \cup more |-> a.amount]
<1>1. /\ \A a \in rows \cup more : amount[a] = a.amount /\ amount[a] \in Int
      /\ Counted(rows \cup more)
  <2>1. IsFiniteSet(rows) /\ IsFiniteSet(more)
    BY DEF Counted
  <2>2. IsFiniteSet(rows \cup more)
    BY <2>1, FS_Union
  <2> QED
    BY <2>2 DEF Counted
<1> HIDE DEF amount
<1>2. AmountOf(rows \cup more) = SumFunctionOnSet(amount, rows \cup more)
  BY <1>1, AmountAs
<1>3. AmountOf(rows) = SumFunctionOnSet(amount, rows)
  BY <1>1, AmountAs
<1>4. AmountOf(more) = SumFunctionOnSet(amount, more)
  BY <1>1, AmountAs
<1> QED
  BY <1>1, <1>2, <1>3, <1>4, SumUnion DEF Counted

LEMMA AmountAdd ==
    ASSUME NEW rows, Counted(rows), NEW a, a \notin rows, a.amount \in Nat
    PROVE  AmountOf(rows \cup {a}) = AmountOf(rows) + a.amount
<1> DEFINE amount == [b \in rows \cup {a} |-> b.amount]
<1>1. /\ \A b \in rows \cup {a} : amount[b] = b.amount /\ amount[b] \in Int
      /\ Counted(rows \cup {a})
  BY FS_AddElement DEF Counted
<1> HIDE DEF amount
<1>2. AmountOf(rows \cup {a}) = SumFunctionOnSet(amount, rows \cup {a})
  BY <1>1, AmountAs
<1>3. AmountOf(rows) = SumFunctionOnSet(amount, rows)
  BY <1>1, AmountAs
<1>4. SumFunctionOnSet(amount, rows \cup {a}) = amount[a] + SumFunctionOnSet(amount, rows)
  BY <1>1, SumAdd DEF Counted
<1>5. AmountOf(rows) \in Nat
  BY AmountNat
<1> QED
  BY <1>1, <1>2, <1>3, <1>4, <1>5

-----------------------------------------------------------------------------
(* The ledger *)

\* The rows can be counted, and a receipt that was never recorded has none.
RowsCounted ==
    /\ Counted(allocations)
    /\ \A r \in Receipts : receipt[r].status = "none" => OfReceipt(r) = {}

\* Rows stay or leave, and what they are measured against stays.
LEMMA CashKept ==
    ASSUME Inv, RowsCounted, NoCashTwice, TypeOK', allocations' \subseteq allocations,
           \A v \in Versions : Issued(v) => version'[v].schedule = version[v].schedule,
           \A r \in Receipts : OfReceipt(r)' # {} =>
                /\ receipt'[r].amount = receipt[r].amount
                /\ receipt'[r].status \notin {"none", "reversed"}
    PROVE  RowsCounted' /\ NoCashTwice'
<1>1. Counted(allocations')
  BY CountedPart DEF RowsCounted
<1>2. RowsCounted'
  BY <1>1 DEF RowsCounted
<1>3. \A a \in allocations' : <<a.version, a.position>> \in Instalments(a.version)'
  BY DEF NoCashTwice, Inv, OnIssued, TypeOK, Instalments
<1>4. ASSUME NEW r \in Receipts
      PROVE  /\ AmountOf(OfReceipt(r))' <= receipt'[r].amount
             /\ receipt'[r].status = "reversed" => OfReceipt(r)' = {}
  <2>1. receipt'[r].amount \in Nat
    BY DEF TypeOK, ReceiptRow
  <2>2. CASE OfReceipt(r)' = {}
    BY <2>1, <2>2, AmountNone
  <2>3. CASE OfReceipt(r)' # {}
    <3>1. OfReceipt(r)' \subseteq OfReceipt(r) /\ Counted(OfReceipt(r))
      BY CountedPart DEF OfReceipt, RowsCounted
    <3>2. Counted(OfReceipt(r)') /\ AmountOf(OfReceipt(r)') <= AmountOf(OfReceipt(r))
      BY <3>1, AmountWithin, CountedPart
    <3>3. AmountOf(OfReceipt(r)') \in Nat /\ AmountOf(OfReceipt(r)) \in Nat
      BY <3>1, <3>2, AmountNat
    <3>4. AmountOf(OfReceipt(r)) <= receipt'[r].amount
      BY <2>3 DEF NoCashTwice
    <3> QED
      BY <2>1, <2>3, <3>2, <3>3, <3>4
  <2> QED
    BY <2>2, <2>3
<1>5. ASSUME NEW v \in Versions, NEW i \in DOMAIN version'[v].schedule
      PROVE  AmountOf(OnInstalment(v, i))' <= version'[v].schedule[i]
  <2>1. version'[v].schedule[i] \in Nat
    BY DEF TypeOK, VersionRow
  <2>2. OnInstalment(v, i)' \subseteq OnInstalment(v, i) /\ Counted(OnInstalment(v, i))
    BY CountedPart DEF OnInstalment, OnVersion, RowsCounted
  <2>3. CASE Issued(v)
    <3>1. Counted(OnInstalment(v, i)')
          /\ AmountOf(OnInstalment(v, i)') <= AmountOf(OnInstalment(v, i))
      BY <2>2, AmountWithin, CountedPart
    <3>2. AmountOf(OnInstalment(v, i)') \in Nat /\ AmountOf(OnInstalment(v, i)) \in Nat
      BY <2>2, <3>1, AmountNat
    <3>3. AmountOf(OnInstalment(v, i)) <= version'[v].schedule[i]
      BY <2>3 DEF NoCashTwice
    <3> QED
      BY <2>1, <3>1, <3>2, <3>3
  <2>4. CASE ~Issued(v)
    <3>1. OnInstalment(v, i)' = {}
      BY <2>2, <2>4 DEF OnInstalment, OnVersion, Inv, OnIssued
    <3> QED
      BY <2>1, <3>1, AmountNone
  <2> QED
    BY <2>3, <2>4
<1> QED
  BY <1>2, <1>3, <1>4, <1>5 DEF NoCashTwice

-----------------------------------------------------------------------------
(* A row is added *)

LEMMA SmallestOne ==
    ASSUME NEW n \in Nat, NEW S, S \subseteq 1..n, S # {}
    PROVE  Min(S) \in S
<1> DEFINE Good == {k \in 0..n : (\E x \in S : x <= k)
                                    => \E x \in S : \A y \in S : x <= y}
<1>1. 0 \in Good
  OBVIOUS
<1>2. ASSUME NEW k \in 1..n, k - 1 \in Good
      PROVE  k \in Good
  <2>1. CASE \E x \in S : x <= k - 1
    BY <1>2, <2>1
  <2>2. CASE ~\E x \in S : x <= k - 1
    <3>1. \A x \in S : k <= x
      BY <2>2
    <3> QED
      BY <3>1
  <2> QED
    BY <2>1, <2>2
<1> HIDE DEF Good
<1>3. \A k \in 0..n : k \in Good
  BY <1>1, <1>2, Stepwise
<1>4. n \in Good
  BY <1>3
<1>5. \E x \in S : \A y \in S : x <= y
  <2>1. \E x \in S : x <= n
    <3>1. PICK x : x \in S
      OBVIOUS
    <3>2. x \in 1..n
      BY <3>1
    <3> QED
      BY <3>1, <3>2
  <2> QED
    BY <1>4, <2>1 DEF Good
<1> QED
  BY <1>5 DEF Min

LEMMA AllocationCounted ==
    ASSUME Inv, RowsCounted, NoCashTwice, NEW r \in Receipts, NEW i, NEW amount \in Nat,
           create_allocation(r, i, amount)
    PROVE  RowsCounted' /\ NoCashTwice'
<1>1. PICK v \in Governing :
        LET rows == {a \in OnInstalment(v, i) : a.receipt = r}
            free == {n \in 1..MaxRows : \A a \in rows : a.row # n}
        IN
        /\ i \in DOMAIN version[v].schedule
        /\ receipt[r].status \in {"recorded", "confirmed"}
        /\ HasRoom(r, v, i, amount)
        /\ free # {}
        /\ allocations' = allocations \cup
             {[receipt |-> r, version |-> v, position |-> i, amount |-> amount,
               row |-> Min(free)]}
        /\ UNCHANGED <<contract, schedule, receipt, exceptions>>
  BY DEF create_allocation
<1> DEFINE rows == {a \in OnInstalment(v, i) : a.receipt = r}
           free == {n \in 1..MaxRows : \A a \in rows : a.row # n}
           new == [receipt |-> r, version |-> v, position |-> i, amount |-> amount,
                   row |-> Min(free)]
<1>2. Min(free) \in free
  <2>1. MaxRows \in Nat /\ free \subseteq 1..MaxRows /\ free # {}
    BY <1>1, SaleLedgerAssumption
  <2> HIDE DEF free
  <2> QED
    BY <2>1, SmallestOne
<1>3. new \notin allocations
  <2>1. new \in allocations => new \in rows
    BY DEF OnInstalment, OnVersion
  <2> QED
    BY <1>2, <2>1
<1>4. /\ new.receipt = r /\ new.version = v /\ new.position = i /\ new.amount = amount
  OBVIOUS
<1>5. allocations' = allocations \cup {new}
  BY <1>1
<1> HIDE DEF new, rows, free
<1>6. /\ i \in DOMAIN version[v].schedule /\ v \in Versions
      /\ receipt[r].status \in {"recorded", "confirmed"}
      /\ AmountOf(OfReceipt(r)) + amount <= receipt[r].amount
      /\ AmountOf(OnInstalment(v, i)) + amount <= version[v].schedule[i]
      /\ UNCHANGED <<version, receipt>>
  BY <1>1 DEF HasRoom, Governing, schedule
<1>7. Counted(allocations')
  BY <1>4, <1>5, FS_AddElement DEF RowsCounted, Counted
<1>8. ASSUME NEW q \in Receipts
      PROVE  OfReceipt(q)' = IF q = r THEN OfReceipt(q) \cup {new} ELSE OfReceipt(q)
  BY <1>4, <1>5 DEF OfReceipt
<1>9. \A w, j : OnInstalment(w, j)' = IF w = v /\ j = i THEN OnInstalment(w, j) \cup {new}
                                     ELSE OnInstalment(w, j)
  BY <1>4, <1>5 DEF OnInstalment, OnVersion
<1>10. AmountOf(OfReceipt(r) \cup {new}) = AmountOf(OfReceipt(r)) + amount
  <2>1. Counted(OfReceipt(r)) /\ new \notin OfReceipt(r)
    BY <1>3, CountedPart DEF OfReceipt, RowsCounted
  <2> QED
    BY <1>4, <2>1, AmountAdd
<1>11. AmountOf(OnInstalment(v, i) \cup {new}) = AmountOf(OnInstalment(v, i)) + amount
  <2>1. Counted(OnInstalment(v, i)) /\ new \notin OnInstalment(v, i)
    BY <1>3, CountedPart DEF OnInstalment, OnVersion, RowsCounted
  <2> QED
    BY <1>4, <2>1, AmountAdd
<1>12. RowsCounted'
  BY <1>6, <1>7, <1>8 DEF RowsCounted
<1>13. \A a \in allocations' : <<a.version, a.position>> \in Instalments(a.version)'
  BY <1>4, <1>5, <1>6 DEF NoCashTwice, Instalments
<1>14. ASSUME NEW q \in Receipts
       PROVE  /\ AmountOf(OfReceipt(q))' <= receipt'[q].amount
              /\ receipt'[q].status = "reversed" => OfReceipt(q)' = {}
  BY <1>6, <1>8, <1>10 DEF NoCashTwice
<1>15. ASSUME NEW w \in Versions, NEW j \in DOMAIN version'[w].schedule
       PROVE  AmountOf(OnInstalment(w, j))' <= version'[w].schedule[j]
  BY <1>6, <1>9, <1>11 DEF NoCashTwice
<1> QED
  BY <1>12, <1>13, <1>14, <1>15 DEF NoCashTwice

-----------------------------------------------------------------------------
(* Pouring *)

\* What two stretches of a line have in common.
Common(a, b, c, d) ==
    LET from == Max({a, c})
        to == Min({b, d})
    IN IF to > from THEN to - from ELSE 0

LEMMA OfTwo ==
    ASSUME NEW a \in Nat, NEW b \in Nat
    PROVE  /\ Max({a, b}) = IF a >= b THEN a ELSE b
           /\ Min({a, b}) = IF a <= b THEN a ELSE b
<1>1. Max({a, b}) \in {a, b} /\ \A x \in {a, b} : Max({a, b}) >= x
  <2>1. \E x \in {a, b} : \A y \in {a, b} : x >= y
    OBVIOUS
  <2> QED
    BY <2>1 DEF Max
<1>2. Min({a, b}) \in {a, b} /\ \A x \in {a, b} : Min({a, b}) <= x
  <2>1. \E x \in {a, b} : \A y \in {a, b} : x <= y
    OBVIOUS
  <2> QED
    BY <2>1 DEF Min
<1> QED
  BY <1>1, <1>2

LEMMA CommonIs ==
    ASSUME NEW a \in Nat, NEW b \in Nat, NEW c \in Nat, NEW d \in Nat
    PROVE  Common(a, b, c, d) =
             (IF (IF b <= d THEN b ELSE d) > (IF a >= c THEN a ELSE c)
              THEN (IF b <= d THEN b ELSE d) - (IF a >= c THEN a ELSE c) ELSE 0)
<1>1. Max({a, c}) = IF a >= c THEN a ELSE c
  BY OfTwo
<1>2. Min({b, d}) = IF b <= d THEN b ELSE d
  BY OfTwo
<1> QED
  BY <1>1, <1>2 DEF Common

LEMMA CommonNat ==
    ASSUME NEW a \in Nat, NEW b \in Nat, NEW c \in Nat, NEW d \in Nat
    PROVE  Common(a, b, c, d) \in Nat
<1>1. Common(a, b, c, d) =
        (IF (IF b <= d THEN b ELSE d) > (IF a >= c THEN a ELSE c)
         THEN (IF b <= d THEN b ELSE d) - (IF a >= c THEN a ELSE c) ELSE 0)
  BY CommonIs
<1> QED
  BY <1>1

LEMMA CommonSwaps ==
    ASSUME NEW a \in Nat, NEW b \in Nat, NEW c \in Nat, NEW d \in Nat
    PROVE  Common(a, b, c, d) = Common(c, d, a, b)
<1>1. /\ Common(a, b, c, d) =
             (IF (IF b <= d THEN b ELSE d) > (IF a >= c THEN a ELSE c)
              THEN (IF b <= d THEN b ELSE d) - (IF a >= c THEN a ELSE c) ELSE 0)
  BY CommonIs
<1>2. /\ Common(c, d, a, b) =
             (IF (IF d <= b THEN d ELSE b) > (IF c >= a THEN c ELSE a)
              THEN (IF d <= b THEN d ELSE b) - (IF c >= a THEN c ELSE a) ELSE 0)
  BY CommonIs
<1> QED
  BY <1>1, <1>2

\* Two neighbouring stretches have in common with a third what the one they make
\* has.
LEMMA CommonJoins ==
    ASSUME NEW lo \in Nat, NEW hi \in Nat, NEW c \in Nat, NEW d \in Nat, NEW e \in Nat,
           lo <= hi, c <= d, d <= e
    PROVE  Common(lo, hi, c, d) + Common(lo, hi, d, e) = Common(lo, hi, c, e)
<1>1. Common(lo, hi, c, d) =
        (IF (IF hi <= d THEN hi ELSE d) > (IF lo >= c THEN lo ELSE c)
         THEN (IF hi <= d THEN hi ELSE d) - (IF lo >= c THEN lo ELSE c) ELSE 0)
  BY CommonIs
<1>2. Common(lo, hi, d, e) =
        (IF (IF hi <= e THEN hi ELSE e) > (IF lo >= d THEN lo ELSE d)
         THEN (IF hi <= e THEN hi ELSE e) - (IF lo >= d THEN lo ELSE d) ELSE 0)
  BY CommonIs
<1>3. Common(lo, hi, c, e) =
        (IF (IF hi <= e THEN hi ELSE e) > (IF lo >= c THEN lo ELSE c)
         THEN (IF hi <= e THEN hi ELSE e) - (IF lo >= c THEN lo ELSE c) ELSE 0)
  BY CommonIs
<1> QED
  BY <1>1, <1>2, <1>3

\* A stretch cut into pieces: what a second stretch has in common with the pieces
\* adds up to what it has in common with the whole.
LEMMA PouredInAll ==
    ASSUME NEW n \in Nat, NEW cut, NEW lo \in Nat, NEW hi \in Nat, lo <= hi,
           \A k \in 0..n : cut[k] \in Nat, cut[0] = 0,
           \A k \in 1..n : cut[k - 1] <= cut[k],
           NEW f, \A k \in 1..n : f[k] = Common(lo, hi, cut[k - 1], cut[k])
    PROVE  SumFunctionOnSet(f, 1..n) = Common(lo, hi, 0, cut[n])
<1> DEFINE Good == {k \in 0..n : /\ 0 <= cut[k]
                                 /\ SumFunctionOnSet(f, 1..k) = Common(lo, hi, 0, cut[k])}
<1>1. 0 \in Good
  <2>1. 1..0 = {}
    OBVIOUS
  <2>2. Common(lo, hi, 0, 0) = 0
    BY CommonIs
  <2> QED
    BY <2>1, <2>2, SumEmpty
<1>2. ASSUME NEW k \in 1..n, k - 1 \in Good
      PROVE  k \in Good
  <2>1. /\ k - 1 \in 0..n /\ k \in 0..n
        /\ cut[k - 1] \in Nat /\ cut[k] \in Nat /\ cut[k - 1] <= cut[k]
        /\ SumFunctionOnSet(f, 1..(k - 1)) = Common(lo, hi, 0, cut[k - 1])
    BY <1>2
  <2>2. \A j \in 1..n : f[j] \in Int
    <3>1. ASSUME NEW j \in 1..n
          PROVE  f[j] \in Int
      <4>1. j - 1 \in 0..n /\ j \in 0..n
        OBVIOUS
      <4>2. cut[j - 1] \in Nat /\ cut[j] \in Nat
        BY <4>1
      <4>3. Common(lo, hi, cut[j - 1], cut[j]) \in Nat
        BY <4>2, CommonNat
      <4> QED
        BY <4>3
    <3> QED
      BY <3>1
  <2>3. SumFunctionOnSet(f, (1..(k - 1)) \cup {k}) = f[k] + SumFunctionOnSet(f, 1..(k - 1))
    <3>1. /\ IsFiniteSet(1..(k - 1)) /\ k \notin 1..(k - 1)
      BY FS_Interval
    <3>2. \A j \in 1..(k - 1) : f[j] \in Int
      BY <2>2
    <3>3. f[k] \in Int
      BY <2>2
    <3> HIDE DEF Good
    <3>4. PICK S : S = 1..(k - 1)
      OBVIOUS
    <3> QED
      BY <3>1, <3>2, <3>3, <3>4, SumAdd
  <2>4. (1..(k - 1)) \cup {k} = 1..k
    OBVIOUS
  <2>5. f[k] = Common(lo, hi, cut[k - 1], cut[k])
    OBVIOUS
  <2>6. Common(lo, hi, 0, cut[k - 1]) + Common(lo, hi, cut[k - 1], cut[k])
          = Common(lo, hi, 0, cut[k])
    BY <2>1, CommonJoins
  <2>7. Common(lo, hi, 0, cut[k - 1]) \in Nat /\ Common(lo, hi, cut[k - 1], cut[k]) \in Nat
    BY <2>1, CommonNat
  <2>8. SumFunctionOnSet(f, 1..k) = Common(lo, hi, 0, cut[k])
    <3> HIDE DEF Good
    <3>1. PICK S : S = 1..(k - 1)
      OBVIOUS
    <3>2. SumFunctionOnSet(f, 1..k) = f[k] + SumFunctionOnSet(f, S)
      BY <2>3, <2>4, <3>1
    <3>3. SumFunctionOnSet(f, S) = Common(lo, hi, 0, cut[k - 1])
      BY <2>1, <3>1
    <3> QED
      BY <2>5, <2>6, <2>7, <3>2, <3>3
  <2> QED
    BY <2>1, <2>8
<1> HIDE DEF Good
<1>3. \A k \in 0..n : k \in Good
  BY <1>1, <1>2, Stepwise
<1>4. n \in Good
  BY <1>3
<1> QED
  BY <1>4 DEF Good

\* What the receipts up to the k-th have on a version, and what its instalments up
\* to the k-th ask.
Paid(v, k) == AmountOf({a \in OnVersion(v) : a.receipt <= k})
Asked(v, k) == SumFunctionOnSet(version[v].schedule, 1..k)

LEMMA PaidSteps ==
    ASSUME Inv, RowsCounted, NEW v
    PROVE  /\ \A k : Paid(v, k) \in Nat
           /\ Paid(v, 0) = 0
           /\ Paid(v, MaxReceipts) = AmountOf(OnVersion(v))
           /\ \A k \in Receipts :
                /\ AmountOf({a \in OnVersion(v) : a.receipt < k}) = Paid(v, k - 1)
                /\ AmountOf({a \in OnVersion(v) : a.receipt = k}) \in Nat
                /\ Paid(v, k) = Paid(v, k - 1) + AmountOf({a \in OnVersion(v) : a.receipt = k})
<1>1. /\ \A a \in OnVersion(v) : a.receipt \in Receipts
      /\ Counted(OnVersion(v))
      /\ MaxReceipts \in Nat
  BY CountedPart, SaleLedgerAssumption DEF Inv, TypeOK, OnVersion, RowsCounted
<1>2. ASSUME NEW k
      PROVE  /\ Counted({a \in OnVersion(v) : a.receipt <= k})
             /\ Counted({a \in OnVersion(v) : a.receipt = k})
  BY <1>1, CountedPart
<1>3. \A k : Paid(v, k) \in Nat
  BY <1>2, AmountNat DEF Paid
<1>4. Paid(v, 0) = 0
  <2>1. {a \in OnVersion(v) : a.receipt <= 0} = {}
    BY <1>1 DEF Receipts
  <2> QED
    BY <2>1, AmountNone DEF Paid
<1>5. Paid(v, MaxReceipts) = AmountOf(OnVersion(v))
  <2>1. {a \in OnVersion(v) : a.receipt <= MaxReceipts} = OnVersion(v)
    BY <1>1 DEF Receipts
  <2> QED
    BY <2>1 DEF Paid
<1>6. ASSUME NEW k \in Receipts
      PROVE  /\ AmountOf({a \in OnVersion(v) : a.receipt < k}) = Paid(v, k - 1)
             /\ AmountOf({a \in OnVersion(v) : a.receipt = k}) \in Nat
             /\ Paid(v, k) = Paid(v, k - 1) + AmountOf({a \in OnVersion(v) : a.receipt = k})
  <2>1. {a \in OnVersion(v) : a.receipt < k} = {a \in OnVersion(v) : a.receipt <= k - 1}
    BY <1>1 DEF Receipts
  <2>2. {a \in OnVersion(v) : a.receipt <= k}
          = {a \in OnVersion(v) : a.receipt <= k - 1} \cup {a \in OnVersion(v) : a.receipt = k}
    BY <1>1 DEF Receipts
  <2>3. {a \in OnVersion(v) : a.receipt <= k - 1} \cap {a \in OnVersion(v) : a.receipt = k} = {}
    BY <1>1 DEF Receipts
  <2>4. Paid(v, k) = Paid(v, k - 1) + AmountOf({a \in OnVersion(v) : a.receipt = k})
    BY <1>2, <2>2, <2>3, AmountUnion DEF Paid
  <2>5. AmountOf({a \in OnVersion(v) : a.receipt = k}) \in Nat
    BY <1>2, AmountNat
  <2> QED
    BY <2>1, <2>4, <2>5 DEF Paid
<1> QED
  BY <1>3, <1>4, <1>5, <1>6

LEMMA AskedSteps ==
    ASSUME TypeOK, NEW w \in Versions
    PROVE  /\ Len(version[w].schedule) \in Nat
           /\ DOMAIN version[w].schedule = 1..Len(version[w].schedule)
           /\ Asked(w, 0) = 0
           /\ \A k \in 0..Len(version[w].schedule) : Asked(w, k) \in Nat
           /\ Asked(w, Len(version[w].schedule)) = Total(version[w].schedule)
           /\ \A k \in DOMAIN version[w].schedule :
                /\ version[w].schedule[k] \in Nat
                /\ Asked(w, k) = Asked(w, k - 1) + version[w].schedule[k]
<1> DEFINE s == version[w].schedule
           n == Len(s)
<1>1. s \in Seq(Nat)
  BY DEF TypeOK, VersionRow
<1>2. n \in Nat /\ DOMAIN s = 1..n /\ \A k \in 1..n : s[k] \in Nat
  BY <1>1
<1>3. Asked(w, 0) = 0
  <2>1. 1..0 = {}
    OBVIOUS
  <2> QED
    BY <2>1, SumEmpty DEF Asked
<1>4. Asked(w, n) = Total(s)
  BY <1>2 DEF Asked, Total, SumFunction
<1> HIDE DEF s, n
<1>5. ASSUME NEW k \in 0..n
      PROVE  Asked(w, k) \in Nat
  <2>1. PICK S : S = 1..k
    OBVIOUS
  <2>2. IsFiniteSet(S) /\ \A j \in S : s[j] \in Nat
    <3>1. IsFiniteSet(1..k)
      BY FS_Interval
    <3>2. \A j \in 1..k : j \in 1..n
      BY <1>2
    <3> QED
      BY <1>2, <2>1, <3>1, <3>2
  <2>3. SumFunctionOnSet(s, S) \in Nat
    BY <2>2, SumNat
  <2> QED
    BY <2>1, <2>3 DEF Asked, s
<1>6. ASSUME NEW k \in 1..n
      PROVE  Asked(w, k) = Asked(w, k - 1) + s[k]
  <2>1. PICK S : S = 1..(k - 1)
    OBVIOUS
  <2>2. IsFiniteSet(S) /\ k \notin S /\ \A j \in S : s[j] \in Int
    BY <1>2, <2>1, FS_Interval
  <2>3. s[k] \in Int
    BY <1>2
  <2>4. SumFunctionOnSet(s, S \cup {k}) = s[k] + SumFunctionOnSet(s, S)
    BY <2>2, <2>3, SumAdd
  <2>5. S \cup {k} = 1..k
    BY <1>2, <2>1
  <2>6. SumFunctionOnSet(s, S) \in Int
    BY <2>2, SumInt
  <2>7. SumFunctionOnSet(s, 1..k) = s[k] + SumFunctionOnSet(s, S)
    BY <2>4, <2>5
  <2>8. Asked(w, k) = s[k] + Asked(w, k - 1) /\ Asked(w, k - 1) \in Int
    BY <2>1, <2>6, <2>7 DEF Asked, s
  <2> QED
    BY <2>3, <2>8
<1> QED
  BY <1>2, <1>3, <1>4, <1>5, <1>6 DEF s, n

\* Laid end to end, a receipt pays of an instalment what the two have in common.
LEMMA PouredIs ==
    ASSUME Inv, RowsCounted, NEW v, NEW w \in Versions, NEW r \in Receipts,
           NEW i \in DOMAIN version[w].schedule
    PROVE  /\ Poured(v, w, r, i) = Common(Paid(v, r - 1), Paid(v, r), Asked(w, i - 1), Asked(w, i))
           /\ Poured(v, w, r, i) \in Nat
<1>1. /\ AmountOf({a \in OnVersion(v) : a.receipt < r}) = Paid(v, r - 1)
      /\ Paid(v, r) = Paid(v, r - 1) + AmountOf({a \in OnVersion(v) : a.receipt = r})
      /\ Paid(v, r - 1) \in Nat /\ Paid(v, r) \in Nat
  BY PaidSteps
<1>2. /\ Asked(w, i) = Asked(w, i - 1) + version[w].schedule[i]
      /\ Asked(w, i - 1) \in Nat /\ Asked(w, i) \in Nat
  <2>1. TypeOK
    BY DEF Inv
  <2>2. DOMAIN version[w].schedule = 1..Len(version[w].schedule)
        /\ Len(version[w].schedule) \in Nat
    BY <2>1, AskedSteps
  <2>3. i \in 0..Len(version[w].schedule) /\ i - 1 \in 0..Len(version[w].schedule)
    BY <2>2
  <2> QED
    BY <2>1, <2>3, AskedSteps
<1>3. Poured(v, w, r, i) = Common(Paid(v, r - 1), Paid(v, r), Asked(w, i - 1), Asked(w, i))
  BY <1>1, <1>2 DEF Poured, Common, Asked
<1>4. Common(Paid(v, r - 1), Paid(v, r), Asked(w, i - 1), Asked(w, i)) \in Nat
  BY <1>1, <1>2, CommonNat
<1> QED
  BY <1>3, <1>4

-----------------------------------------------------------------------------
(* What is carried forward *)

Carried(v, w, r, i) ==
    [receipt |-> r, version |-> w, position |-> i, amount |-> Poured(v, w, r, i), row |-> 1]

LEMMA CarriedRows ==
    ASSUME Inv, RowsCounted, NEW v, NEW w \in Versions
    PROVE  /\ Counted(CarryForward(v, w))
           /\ \A a \in CarryForward(v, w) :
                /\ a.receipt \in Receipts /\ a.version = w
                /\ a.position \in DOMAIN version[w].schedule
           /\ \A r \in Receipts : {a \in CarryForward(v, w) : a.receipt = r}
                = {Carried(v, w, r, i) :
                     i \in {j \in DOMAIN version[w].schedule : Poured(v, w, r, j) > 0}}
<1> DEFINE D == DOMAIN version[w].schedule
           pairs == {q \in Receipts \X D : Poured(v, w, q[1], q[2]) > 0}
           h == [p \in pairs |-> Carried(v, w, p[1], p[2])]
<1>1. CarryForward(v, w) = {Carried(v, w, p[1], p[2]) : p \in pairs}
  BY DEF CarryForward, Carried
<1>2. IsFiniteSet(pairs)
  <2>1. IsFiniteSet(Receipts) /\ IsFiniteSet(D)
    <3>1. TypeOK
      BY DEF Inv
    <3>2. D = 1..Len(version[w].schedule) /\ Len(version[w].schedule) \in Nat
      BY <3>1, AskedSteps
    <3> QED
      BY <3>2, FS_Interval, SaleLedgerAssumption DEF Receipts
  <2>2. IsFiniteSet(Receipts \X D)
    BY <2>1, FS_Product
  <2> QED
    BY <2>2, FS_Subset
<1>3. IsFiniteSet(CarryForward(v, w))
  <2>1. CarryForward(v, w) = {h[p] : p \in pairs}
    BY <1>1
  <2> HIDE DEF h, pairs
  <2> QED
    BY <1>2, <2>1, FiniteImage
<1>4. \A a \in CarryForward(v, w) : \E r \in Receipts, i \in D :
         a = Carried(v, w, r, i) /\ Poured(v, w, r, i) > 0
  BY <1>1
<1>5. \A r \in Receipts, i \in D : Poured(v, w, r, i) > 0 => Carried(v, w, r, i) \in CarryForward(v, w)
  <2> SUFFICES ASSUME NEW r \in Receipts, NEW i \in D, Poured(v, w, r, i) > 0
               PROVE  Carried(v, w, r, i) \in CarryForward(v, w)
    OBVIOUS
  <2>1. <<r, i>> \in pairs
    OBVIOUS
  <2>2. Carried(v, w, r, i) = Carried(v, w, <<r, i>>[1], <<r, i>>[2])
    OBVIOUS
  <2> HIDE DEF pairs
  <2> QED
    BY <1>1, <2>1, <2>2
<1>6. \A r, i : /\ Carried(v, w, r, i).receipt = r /\ Carried(v, w, r, i).version = w
               /\ Carried(v, w, r, i).position = i
               /\ Carried(v, w, r, i).amount = Poured(v, w, r, i)
  BY DEF Carried
<1> HIDE DEF h, pairs
<1>7. \A a \in CarryForward(v, w) : a.amount \in Nat
  BY <1>4, <1>6, PouredIs
<1> QED
  BY <1>3, <1>4, <1>5, <1>6, <1>7 DEF Counted

\* The rows carried onto one instalment.
LEMMA CarriedOn ==
    ASSUME NEW v, NEW w, NEW i \in DOMAIN version[w].schedule
    PROVE  {a \in CarryForward(v, w) : a.position = i}
             = {Carried(v, w, r, i) : r \in {q \in Receipts : Poured(v, w, q, i) > 0}}
<1> DEFINE pairs == {q \in Receipts \X DOMAIN version[w].schedule : Poured(v, w, q[1], q[2]) > 0}
           rows == {a \in CarryForward(v, w) : a.position = i}
           onto == {Carried(v, w, r, i) : r \in {q \in Receipts : Poured(v, w, q, i) > 0}}
<1>1. CarryForward(v, w) = {Carried(v, w, p[1], p[2]) : p \in pairs}
  BY DEF CarryForward, Carried
<1>2. \A r, j : Carried(v, w, r, j).position = j
  BY DEF Carried
<1>3. ASSUME NEW a \in rows
      PROVE  a \in onto
  <2>1. PICK p \in pairs : a = Carried(v, w, p[1], p[2])
    BY <1>1
  <2>2. p[2] = i
    BY <1>2, <2>1
  <2>3. p[1] \in Receipts /\ Poured(v, w, p[1], i) > 0
    BY <2>1, <2>2
  <2> QED
    BY <2>1, <2>2, <2>3
<1>4. ASSUME NEW r \in Receipts, Poured(v, w, r, i) > 0
      PROVE  Carried(v, w, r, i) \in rows
  <2>1. <<r, i>> \in pairs
    BY <1>4
  <2>2. Carried(v, w, r, i) = Carried(v, w, <<r, i>>[1], <<r, i>>[2])
    OBVIOUS
  <2> HIDE DEF pairs
  <2>3. Carried(v, w, r, i) \in CarryForward(v, w)
    BY <1>1, <2>1, <2>2
  <2> QED
    BY <1>2, <2>3
<1> QED
  BY <1>3, <1>4

\* A receipt has as much on the new schedule as it had on the old, and no
\* instalment is given more than it asks.
LEMMA CarriedInFull ==
    ASSUME Inv, RowsCounted, NEW v, NEW w \in Versions,
           AmountOf(OnVersion(v)) <= Total(version[w].schedule)
    PROVE  /\ \A r \in Receipts :
                AmountOf({a \in CarryForward(v, w) : a.receipt = r})
                  = AmountOf({a \in OnVersion(v) : a.receipt = r})
           /\ \A i \in DOMAIN version[w].schedule :
                AmountOf({a \in CarryForward(v, w) : a.position = i}) <= version[w].schedule[i]
<1> DEFINE s == version[w].schedule
           n == Len(s)
<1>1. /\ n \in Nat /\ DOMAIN s = 1..n
      /\ Asked(w, 0) = 0 /\ Asked(w, n) = Total(s)
      /\ \A k \in 0..n : Asked(w, k) \in Nat
      /\ \A k \in 1..n : s[k] \in Nat /\ Asked(w, k) = Asked(w, k - 1) + s[k]
      /\ \A k \in 1..n : Asked(w, k - 1) <= Asked(w, k)
  <2>1. TypeOK
    BY DEF Inv
  <2>2. /\ n \in Nat /\ DOMAIN s = 1..n
        /\ Asked(w, 0) = 0 /\ Asked(w, n) = Total(s)
        /\ \A k \in 0..n : Asked(w, k) \in Nat
        /\ \A k \in DOMAIN s : s[k] \in Nat /\ Asked(w, k) = Asked(w, k - 1) + s[k]
    BY <2>1, AskedSteps
  <2> HIDE DEF s, n
  <2>3. ASSUME NEW k \in 1..n
        PROVE  Asked(w, k - 1) <= Asked(w, k)
    <3>1. k - 1 \in 0..n /\ k \in DOMAIN s
      BY <2>2
    <3>2. Asked(w, k - 1) \in Nat /\ s[k] \in Nat /\ Asked(w, k) = Asked(w, k - 1) + s[k]
      BY <2>2, <3>1
    <3> QED
      BY <3>2
  <2> QED
    BY <2>2, <2>3
<1>2. /\ \A k : Paid(v, k) \in Nat
      /\ Paid(v, 0) = 0 /\ MaxReceipts \in Nat /\ Receipts = 1..MaxReceipts
      /\ Paid(v, MaxReceipts) <= Asked(w, n)
      /\ \A k \in Receipts : Paid(v, k - 1) <= Paid(v, k)
  <2>1. /\ \A k : Paid(v, k) \in Nat
        /\ Paid(v, 0) = 0 /\ Paid(v, MaxReceipts) = AmountOf(OnVersion(v))
    BY PaidSteps
  <2>2. MaxReceipts \in Nat /\ Receipts = 1..MaxReceipts
    BY SaleLedgerAssumption DEF Receipts
  <2>3. ASSUME NEW k \in Receipts
        PROVE  Paid(v, k - 1) <= Paid(v, k)
    <3>1. PICK more \in Nat : Paid(v, k) = Paid(v, k - 1) + more
      BY PaidSteps
    <3> QED
      BY <2>1, <3>1
  <2> QED
    BY <1>1, <2>1, <2>2, <2>3
<1> HIDE DEF s, n
<1>3. \A r \in Receipts : Paid(v, r) <= Paid(v, MaxReceipts)
  <2>1. ASSUME NEW r \in Receipts
        PROVE  AmountOf({a \in OnVersion(v) : a.receipt <= r}) <= AmountOf(OnVersion(v))
    <3>1. Counted(OnVersion(v))
      BY CountedPart DEF RowsCounted, OnVersion
    <3> QED
      BY <3>1, AmountWithin
  <2> QED
    BY <2>1, PaidSteps DEF Paid
<1>4. \A r \in Receipts, i \in 1..n :
         /\ Poured(v, w, r, i) = Common(Paid(v, r - 1), Paid(v, r), Asked(w, i - 1), Asked(w, i))
         /\ Poured(v, w, r, i) \in Nat
  BY <1>1, PouredIs DEF s
<1>5. ASSUME NEW r \in Receipts
      PROVE  AmountOf({a \in CarryForward(v, w) : a.receipt = r})
               = AmountOf({a \in OnVersion(v) : a.receipt = r})
  <2> DEFINE f == [i \in 1..n |-> Poured(v, w, r, i)]
             cut == [k \in 0..n |-> Asked(w, k)]
             T == {j \in 1..n : Poured(v, w, r, j) > 0}
             h == [i \in T |-> Carried(v, w, r, i)]
             rows == {a \in CarryForward(v, w) : a.receipt = r}
             g == [a \in rows |-> a.amount]
  <2>1. r \in 1..MaxReceipts
    BY DEF Receipts
  <2>2. Paid(v, r - 1) \in Nat /\ Paid(v, r) \in Nat /\ Paid(v, r - 1) <= Paid(v, r)
    BY <1>2, <2>1
  <2>3. /\ cut[0] = 0 /\ cut[n] = Asked(w, n) /\ \A k \in 0..n : cut[k] \in Nat
        /\ \A k \in 1..n : cut[k - 1] <= cut[k]
        /\ \A k \in 1..n : f[k] = Common(Paid(v, r - 1), Paid(v, r), cut[k - 1], cut[k])
    BY <1>1, <1>4
  <2>4. \A i \in 1..n : f[i] \in Nat
    BY <1>4
  <2>5. T \subseteq 1..n /\ \A i \in (1..n) \ T : f[i] = 0
    BY <1>4
  <2>6. rows = {h[i] : i \in T}
    <3>1. rows = {Carried(v, w, r, i) : i \in {j \in DOMAIN s : Poured(v, w, r, j) > 0}}
      BY CarriedRows DEF s
    <3>2. {j \in DOMAIN s : Poured(v, w, r, j) > 0} = T
      BY <1>1
    <3> QED
      BY <3>1, <3>2
  <2>7. /\ \A i \in T : g[h[i]] = f[i]
        /\ \A i, j \in T : h[i] = h[j] => i = j
    <3>1. \A i \in T : h[i] \in rows /\ h[i].amount = f[i] /\ h[i].position = i
      BY <2>5, <2>6 DEF Carried
    <3> HIDE DEF h, rows, T, f
    <3> QED
      BY <3>1
  <2>8. Counted(rows) /\ AmountOf(rows) = SumFunctionOnSet(g, rows)
    <3>1. Counted(rows)
      BY CarriedRows, CountedPart
    <3>2. \A a \in rows : g[a] = a.amount
      OBVIOUS
    <3> HIDE DEF g, rows
    <3> QED
      BY <3>1, <3>2, AmountAs
  <2> HIDE DEF f, cut, T, h, rows, g
  <2>9. SumFunctionOnSet(f, 1..n) = Common(Paid(v, r - 1), Paid(v, r), 0, Asked(w, n))
    <3>1. PICK lo \in Nat, hi \in Nat : lo = Paid(v, r - 1) /\ hi = Paid(v, r)
      BY <2>2
    <3>2. /\ lo <= hi /\ n \in Nat /\ cut[0] = 0
          /\ \A k \in 0..n : cut[k] \in Nat
          /\ \A k \in 1..n : cut[k - 1] <= cut[k]
          /\ \A k \in 1..n : f[k] = Common(lo, hi, cut[k - 1], cut[k])
      BY <1>1, <2>2, <2>3, <3>1
    <3>3. SumFunctionOnSet(f, 1..n) = Common(lo, hi, 0, cut[n])
      BY <3>2, PouredInAll
    <3> QED
      BY <2>3, <3>1, <3>3
  <2>10. IsFiniteSet(1..n) /\ IsFiniteSet(T)
    <3>1. IsFiniteSet(1..n)
      BY <1>1, FS_Interval
    <3> QED
      BY <2>5, <3>1, FS_Subset
  <2>11. SumFunctionOnSet(g, rows) = SumFunctionOnSet(f, T)
    <3>1. \A i \in T : f[i] \in Int
      BY <2>4, <2>5
    <3>2. SumFunctionOnSet(g, {h[i] : i \in T}) = SumFunctionOnSet(f, T)
      BY <2>7, <2>10, <3>1, SumRenamed
    <3> QED
      BY <2>6, <3>2
  <2>12. SumFunctionOnSet(f, T) = SumFunctionOnSet(f, 1..n)
    <3>1. PICK S : S = 1..n
      OBVIOUS
    <3>2. IsFiniteSet(S) /\ T \subseteq S /\ (\A i \in S : f[i] \in Int) /\ \A i \in S \ T : f[i] = 0
      BY <2>4, <2>5, <2>10, <3>1
    <3>3. SumFunctionOnSet(f, T) = SumFunctionOnSet(f, S)
      BY <3>2, SumSupport
    <3> QED
      BY <3>1, <3>3
  <2>13. Common(Paid(v, r - 1), Paid(v, r), 0, Asked(w, n)) = Paid(v, r) - Paid(v, r - 1)
    <3>1. /\ Paid(v, r) <= Asked(w, n) /\ Asked(w, n) \in Nat
          /\ Paid(v, MaxReceipts) \in Nat
      BY <1>1, <1>2, <1>3
    <3>2. Common(Paid(v, r - 1), Paid(v, r), 0, Asked(w, n)) =
            (IF (IF Paid(v, r) <= Asked(w, n) THEN Paid(v, r) ELSE Asked(w, n))
                  > (IF Paid(v, r - 1) >= 0 THEN Paid(v, r - 1) ELSE 0)
             THEN (IF Paid(v, r) <= Asked(w, n) THEN Paid(v, r) ELSE Asked(w, n))
                    - (IF Paid(v, r - 1) >= 0 THEN Paid(v, r - 1) ELSE 0) ELSE 0)
      BY <2>2, <3>1, CommonIs
    <3> QED
      BY <2>2, <3>1, <3>2
  <2>14. AmountOf({a \in OnVersion(v) : a.receipt = r}) = Paid(v, r) - Paid(v, r - 1)
    <3>1. PICK more \in Nat : more = AmountOf({a \in OnVersion(v) : a.receipt = r})
                             /\ Paid(v, r) = Paid(v, r - 1) + more
      BY PaidSteps
    <3> QED
      BY <2>2, <3>1
  <2> QED
    BY <2>8, <2>9, <2>11, <2>12, <2>13, <2>14 DEF rows
<1>6. ASSUME NEW i \in 1..n
      PROVE  AmountOf({a \in CarryForward(v, w) : a.position = i}) <= s[i]
  <2> DEFINE f == [r \in Receipts |-> Poured(v, w, r, i)]
             cut == [k \in 0..MaxReceipts |-> Paid(v, k)]
             T == {q \in Receipts : Poured(v, w, q, i) > 0}
             h == [r \in T |-> Carried(v, w, r, i)]
             rows == {a \in CarryForward(v, w) : a.position = i}
             g == [a \in rows |-> a.amount]
  <2>2. /\ Asked(w, i - 1) \in Nat /\ Asked(w, i) \in Nat /\ Asked(w, i - 1) <= Asked(w, i)
        /\ s[i] \in Nat /\ Asked(w, i) = Asked(w, i - 1) + s[i]
    <3>1. i - 1 \in 0..n /\ i \in 0..n
      BY <1>1
    <3> QED
      BY <1>1, <3>1
  <2>3. /\ cut[0] = 0 /\ cut[MaxReceipts] = Paid(v, MaxReceipts)
        /\ \A k \in 0..MaxReceipts : cut[k] \in Nat
        /\ \A k \in 1..MaxReceipts : cut[k - 1] <= cut[k]
    BY <1>2
  <2>4. \A k \in 1..MaxReceipts : f[k] = Common(Asked(w, i - 1), Asked(w, i), cut[k - 1], cut[k])
    <3>1. ASSUME NEW k \in 1..MaxReceipts
          PROVE  f[k] = Common(Asked(w, i - 1), Asked(w, i), cut[k - 1], cut[k])
      <4>1. k \in Receipts /\ f[k] = Common(Paid(v, k - 1), Paid(v, k), Asked(w, i - 1), Asked(w, i))
        BY <1>4 DEF Receipts
      <4>2. cut[k - 1] = Paid(v, k - 1) /\ cut[k] = Paid(v, k)
        BY <1>2
      <4>3. Paid(v, k - 1) \in Nat /\ Paid(v, k) \in Nat
        BY <1>2
      <4> HIDE DEF f, cut
      <4> QED
        BY <2>2, <4>1, <4>2, <4>3, CommonSwaps
    <3> QED
      BY <3>1
  <2>5. /\ \A r \in Receipts : f[r] \in Nat
        /\ T \subseteq Receipts /\ \A r \in Receipts \ T : f[r] = 0
    BY <1>4
  <2>6. rows = {h[r] : r \in T}
    <3>1. i \in DOMAIN version[w].schedule
      BY <1>1 DEF s
    <3>2. rows = {Carried(v, w, r, i) : r \in T}
      BY <3>1, CarriedOn
    <3> QED
      BY <3>2
  <2>7. /\ \A r \in T : g[h[r]] = f[r]
        /\ \A r, q \in T : h[r] = h[q] => r = q
    <3>1. \A r \in T : h[r] \in rows /\ h[r].amount = f[r] /\ h[r].receipt = r
      BY <2>5, <2>6 DEF Carried
    <3> HIDE DEF h, rows, T, f
    <3> QED
      BY <3>1
  <2>8. Counted(rows) /\ AmountOf(rows) = SumFunctionOnSet(g, rows)
    <3>1. Counted(rows)
      BY CarriedRows, CountedPart
    <3>2. \A a \in rows : g[a] = a.amount
      OBVIOUS
    <3> HIDE DEF g, rows
    <3> QED
      BY <3>1, <3>2, AmountAs
  <2> HIDE DEF f, cut, T, h, rows, g
  <2>9. SumFunctionOnSet(f, 1..MaxReceipts)
          = Common(Asked(w, i - 1), Asked(w, i), 0, Paid(v, MaxReceipts))
    <3>1. PICK lo \in Nat, hi \in Nat : lo = Asked(w, i - 1) /\ hi = Asked(w, i)
      BY <2>2
    <3>2. /\ lo <= hi /\ MaxReceipts \in Nat /\ cut[0] = 0
          /\ \A k \in 0..MaxReceipts : cut[k] \in Nat
          /\ \A k \in 1..MaxReceipts : cut[k - 1] <= cut[k]
          /\ \A k \in 1..MaxReceipts : f[k] = Common(lo, hi, cut[k - 1], cut[k])
      BY <1>2, <2>2, <2>3, <2>4, <3>1
    <3>3. SumFunctionOnSet(f, 1..MaxReceipts) = Common(lo, hi, 0, cut[MaxReceipts])
      <4>1. PICK m \in Nat : m = MaxReceipts
        BY <3>2
      <4>2. PICK p, q : p = f /\ q = cut
        OBVIOUS
      <4>3. /\ lo <= hi /\ q[0] = 0 /\ \A k \in 0..m : q[k] \in Nat
            /\ \A k \in 1..m : q[k - 1] <= q[k]
            /\ \A k \in 1..m : p[k] = Common(lo, hi, q[k - 1], q[k])
        BY <3>2, <4>1, <4>2
      <4>4. SumFunctionOnSet(p, 1..m) = Common(lo, hi, 0, q[m])
        BY SMTT(30), <4>3, PouredInAll
      <4> QED
        BY <4>1, <4>2, <4>4
    <3> QED
      BY <2>3, <3>1, <3>3
  <2>10. IsFiniteSet(Receipts) /\ IsFiniteSet(T)
    <3>1. IsFiniteSet(Receipts)
      BY <1>2, FS_Interval DEF Receipts
    <3> QED
      BY <2>5, <3>1, FS_Subset
  <2>11. SumFunctionOnSet(g, rows) = SumFunctionOnSet(f, T)
    <3>1. \A r \in T : f[r] \in Int
      BY <2>5
    <3>2. SumFunctionOnSet(g, {h[r] : r \in T}) = SumFunctionOnSet(f, T)
      BY <2>7, <2>10, <3>1, SumRenamed
    <3> QED
      BY <2>6, <3>2
  <2>12. SumFunctionOnSet(f, T) = SumFunctionOnSet(f, Receipts)
    <3>1. \A r \in Receipts : f[r] \in Int
      BY <2>5
    <3> QED
      BY <2>5, <2>10, <3>1, SumSupport
  <2>13. Common(Asked(w, i - 1), Asked(w, i), 0, Paid(v, MaxReceipts)) <= s[i]
    <3>1. Paid(v, MaxReceipts) \in Nat
      BY <1>2
    <3>2. Common(Asked(w, i - 1), Asked(w, i), 0, Paid(v, MaxReceipts)) =
            (IF (IF Asked(w, i) <= Paid(v, MaxReceipts) THEN Asked(w, i) ELSE Paid(v, MaxReceipts))
                  > (IF Asked(w, i - 1) >= 0 THEN Asked(w, i - 1) ELSE 0)
             THEN (IF Asked(w, i) <= Paid(v, MaxReceipts) THEN Asked(w, i) ELSE Paid(v, MaxReceipts))
                    - (IF Asked(w, i - 1) >= 0 THEN Asked(w, i - 1) ELSE 0) ELSE 0)
      BY <2>2, <3>1, CommonIs
    <3> QED
      BY <2>2, <3>1, <3>2
  <2> QED
    BY <2>8, <2>9, <2>11, <2>12, <2>13 DEF rows, Receipts
<1> QED
  BY <1>1, <1>5, <1>6 DEF s

-----------------------------------------------------------------------------
(* The loop of plan_carry_forward: a recursive function is the one that takes  *)
(* its steps, so the closed form is shown to take them.                        *)

\* A function that takes the loop's steps is what the loop computes.
LEMMA LeftAfterIs ==
    ASSUME NEW n \in Nat, NEW remaining, NEW g \in [0..n -> Int],
           \A i \in 1..n : g[i] = g[i - 1] - Min({g[i - 1], remaining[i]})
    PROVE  LeftAfter(n, g[0], remaining) = g
<1> DEFINE left == LeftAfter(n, g[0], remaining)
           Good == {i \in 0..n : left[i] = g[i]}
<1>1. left = [i \in 0..n |-> IF i = 0 THEN g[0] ELSE left[i - 1] - Min({left[i - 1], remaining[i]})]
  <2>1. \A i \in 0..n : i = 0 \/ i \in 1..n
    OBVIOUS
  <2>2. g = [i \in 0..n |-> IF i = 0 THEN g[0] ELSE g[i - 1] - Min({g[i - 1], remaining[i]})]
    BY <2>1
  <2> QED
    BY <2>2 DEF LeftAfter
<1> HIDE DEF left
<1>2. 0 \in Good
  BY <1>1
<1>3. ASSUME NEW k \in 1..n, k - 1 \in Good
      PROVE  k \in Good
  <2>1. k \in 0..n /\ k # 0 /\ left[k - 1] = g[k - 1]
    BY <1>3
  <2>2. left[k] = left[k - 1] - Min({left[k - 1], remaining[k]})
    BY <1>1, <2>1
  <2> QED
    BY <2>1, <2>2
<1> HIDE DEF Good
<1>4. \A k \in 0..n : k \in Good
  BY <1>2, <1>3, Stepwise
<1>5. \A k \in 0..n : left[k] = g[k]
  BY <1>4 DEF Good
<1> QED
  BY <1>1, <1>5 DEF left

LEMMA LoopIs ==
    ASSUME NEW v, NEW w, NEW g,
           g[0] = [remaining |-> version[w].schedule, lines |-> {}],
           \A r \in 1..MaxReceipts : g[r] = PourReceipt(v, w, r, g[r - 1])
    PROVE  Loop(v, w) = g[MaxReceipts].lines
<1> DEFINE pour == CHOOSE p : p = [r \in 0..MaxReceipts |->
                      IF r = 0 THEN [remaining |-> version[w].schedule, lines |-> {}]
                      ELSE PourReceipt(v, w, r, p[r - 1])]
           Good == {r \in 0..MaxReceipts : pour[r] = g[r]}
<1>1. pour = [r \in 0..MaxReceipts |->
                IF r = 0 THEN [remaining |-> version[w].schedule, lines |-> {}]
                ELSE PourReceipt(v, w, r, pour[r - 1])]
  <2> DEFINE f == [r \in 0..MaxReceipts |-> g[r]]
  <2>1. \A r \in 0..MaxReceipts :
           f[r] = IF r = 0 THEN [remaining |-> version[w].schedule, lines |-> {}]
                  ELSE PourReceipt(v, w, r, f[r - 1])
    <3> SUFFICES ASSUME NEW r \in 0..MaxReceipts, r # 0
                 PROVE  f[r] = PourReceipt(v, w, r, f[r - 1])
      OBVIOUS
    <3>1. r \in 1..MaxReceipts /\ r - 1 \in 0..MaxReceipts
      BY SaleLedgerAssumption
    <3>2. f[r] = g[r] /\ f[r - 1] = g[r - 1]
      BY <3>1
    <3> HIDE DEF f
    <3> QED
      BY <3>1, <3>2
  <2>2. f = [r \in 0..MaxReceipts |-> f[r]]
    OBVIOUS
  <2> HIDE DEF f
  <2>3. f = [r \in 0..MaxReceipts |->
               IF r = 0 THEN [remaining |-> version[w].schedule, lines |-> {}]
               ELSE PourReceipt(v, w, r, f[r - 1])]
    BY <2>1, <2>2
  <2> QED
    BY <2>3
<1>2. Loop(v, w) = pour[MaxReceipts].lines
  BY DEF Loop
<1>3. MaxReceipts \in Nat
  BY SaleLedgerAssumption
<1> HIDE DEF pour
<1>4. 0 \in Good
  BY <1>1, <1>3
<1>5. ASSUME NEW k \in 1..MaxReceipts, k - 1 \in Good
      PROVE  k \in Good
  <2>1. k \in 0..MaxReceipts /\ k # 0 /\ pour[k - 1] = g[k - 1]
    BY <1>3, <1>5
  <2>2. /\ pour[k] = PourReceipt(v, w, k, pour[k - 1])
        /\ g[k] = PourReceipt(v, w, k, g[k - 1])
    BY <1>1, <2>1
  <2> QED
    BY <2>1, <2>2
<1> HIDE DEF Good
<1>6. \A k \in 0..MaxReceipts : k \in Good
  BY <1>3, <1>4, <1>5, Stepwise
<1>7. pour[MaxReceipts] = g[MaxReceipts]
  <2>1. MaxReceipts \in 0..MaxReceipts
    BY <1>3
  <2>2. MaxReceipts \in Good
    BY <1>6, <2>1
  <2> QED
    BY <2>2 DEF Good
<1> QED
  BY <1>2, <1>7

\* What a receipt takes of an instalment after the receipts before it and the
\* instalments before that one: the smaller of what it has left and the room left.
LEMMA RoomTaken ==
    ASSUME NEW p \in Nat, NEW q \in Nat, NEW a \in Nat, NEW b \in Nat, p <= q, a <= b
    PROVE  /\ (q - p) - Common(0, a, p, q) \in Nat
           /\ (b - a) - Common(a, b, 0, p) \in Nat
           /\ Min({(q - p) - Common(0, a, p, q), (b - a) - Common(a, b, 0, p)})
                = Common(a, b, p, q)
           /\ ((q - p) - Common(0, a, p, q)) - Common(a, b, p, q) = (q - p) - Common(0, b, p, q)
           /\ ((b - a) - Common(a, b, 0, p)) - Common(a, b, p, q) = (b - a) - Common(a, b, 0, q)
<1>0. PICK z \in Nat : z = 0
  OBVIOUS
<1>1. Common(z, a, p, q) =
        (IF (IF a <= q THEN a ELSE q) > (IF z >= p THEN z ELSE p)
         THEN (IF a <= q THEN a ELSE q) - (IF z >= p THEN z ELSE p) ELSE 0)
  BY CommonIs
<1>2. Common(z, b, p, q) =
        (IF (IF b <= q THEN b ELSE q) > (IF z >= p THEN z ELSE p)
         THEN (IF b <= q THEN b ELSE q) - (IF z >= p THEN z ELSE p) ELSE 0)
  BY CommonIs
<1>3. Common(a, b, z, p) =
        (IF (IF b <= p THEN b ELSE p) > (IF a >= z THEN a ELSE z)
         THEN (IF b <= p THEN b ELSE p) - (IF a >= z THEN a ELSE z) ELSE 0)
  BY CommonIs
<1>4. Common(a, b, z, q) =
        (IF (IF b <= q THEN b ELSE q) > (IF a >= z THEN a ELSE z)
         THEN (IF b <= q THEN b ELSE q) - (IF a >= z THEN a ELSE z) ELSE 0)
  BY CommonIs
<1>5. Common(a, b, p, q) =
        (IF (IF b <= q THEN b ELSE q) > (IF a >= p THEN a ELSE p)
         THEN (IF b <= q THEN b ELSE q) - (IF a >= p THEN a ELSE p) ELSE 0)
  BY CommonIs
<1> DEFINE left == (q - p) - Common(0, a, p, q)
           room == (b - a) - Common(a, b, 0, p)
<1>6. left \in Nat
  BY <1>0, <1>1
<1>7. room \in Nat
  BY <1>0, <1>3
<1>8. Min({left, room}) = IF left <= room THEN left ELSE room
  <2> HIDE DEF left, room
  <2> QED
    BY <1>6, <1>7, OfTwo
<1>9. (IF left <= room THEN left ELSE room) = Common(a, b, p, q)
  BY <1>0, <1>1, <1>3, <1>5
<1>10. left - Common(a, b, p, q) = (q - p) - Common(0, b, p, q)
  BY <1>0, <1>1, <1>2, <1>5
<1>11. room - Common(a, b, p, q) = (b - a) - Common(a, b, 0, q)
  BY <1>0, <1>3, <1>4, <1>5
<1> QED
  BY <1>6, <1>7, <1>8, <1>9, <1>10, <1>11

\* The room the receipts up to the k-th leave, and the lines they have written.
Room(v, w, k) ==
    [i \in 1..Len(version[w].schedule) |->
        version[w].schedule[i] - Common(Asked(w, i - 1), Asked(w, i), 0, Paid(v, k))]

Lines(v, w, k) == {a \in CarryForward(v, w) : a.receipt <= k}

\* One receipt through the loop, closed.
LEMMA PouredReceipt ==
    ASSUME Inv, RowsCounted, NEW v, NEW w \in Versions, NEW r \in Receipts
    PROVE  PourReceipt(v, w, r, [remaining |-> Room(v, w, r - 1), lines |-> Lines(v, w, r - 1)])
             = [remaining |-> Room(v, w, r), lines |-> Lines(v, w, r)]
<1> DEFINE s == version[w].schedule
           n == Len(s)
           amount == AmountOf({a \in OnVersion(v) : a.receipt = r})
           room == Room(v, w, r - 1)
           g == [i \in 0..n |-> amount - Common(0, Asked(w, i), Paid(v, r - 1), Paid(v, r))]
           take(i) == Common(Asked(w, i - 1), Asked(w, i), Paid(v, r - 1), Paid(v, r))
<1>1. /\ n \in Nat /\ DOMAIN s = 1..n
      /\ Asked(w, 0) = 0
      /\ \A k \in 0..n : Asked(w, k) \in Nat
      /\ \A k \in 1..n : s[k] \in Nat /\ Asked(w, k) = Asked(w, k - 1) + s[k]
  <2>1. TypeOK
    BY DEF Inv
  <2>2. /\ n \in Nat /\ DOMAIN s = 1..n /\ Asked(w, 0) = 0
        /\ \A k \in 0..n : Asked(w, k) \in Nat
        /\ \A k \in DOMAIN s : s[k] \in Nat /\ Asked(w, k) = Asked(w, k - 1) + s[k]
    BY <2>1, AskedSteps
  <2> HIDE DEF s, n
  <2> QED
    BY <2>2
<1>2. /\ Paid(v, r - 1) \in Nat /\ Paid(v, r) \in Nat /\ amount \in Nat
      /\ Paid(v, r) = Paid(v, r - 1) + amount
  BY PaidSteps
<1>3. \A i \in 1..n : room[i] = s[i] - Common(Asked(w, i - 1), Asked(w, i), 0, Paid(v, r - 1))
  BY DEF Room
<1> HIDE DEF amount, room, s, n
<1>4. PICK p \in Nat, q \in Nat :
        p = Paid(v, r - 1) /\ q = Paid(v, r) /\ p <= q /\ amount = q - p
  <2>1. Paid(v, r - 1) <= Paid(v, r) /\ amount = Paid(v, r) - Paid(v, r - 1)
    BY <1>2
  <2> QED
    BY <1>2, <2>1
<1>5. ASSUME NEW i \in 1..n
      PROVE  /\ Min({g[i - 1], room[i]}) = take(i)
             /\ g[i] = g[i - 1] - take(i)
             /\ room[i] - take(i)
                  = s[i] - Common(Asked(w, i - 1), Asked(w, i), 0, Paid(v, r))
  <2>1. i \in 0..n /\ i - 1 \in 0..n
    BY <1>1
  <2>2. PICK a \in Nat, b \in Nat : a = Asked(w, i - 1) /\ b = Asked(w, i) /\ a <= b /\ s[i] = b - a
    <3>1. PICK c \in Nat : c = s[i] /\ Asked(w, i) = Asked(w, i - 1) + c
      BY <1>1
    <3>2. PICK a \in Nat, b \in Nat : a = Asked(w, i - 1) /\ b = Asked(w, i)
      BY <1>1, <2>1
    <3>3. a <= b /\ c = b - a
      BY <3>1, <3>2
    <3> QED
      BY <3>1, <3>2, <3>3
  <2>3. /\ Min({(q - p) - Common(0, a, p, q), (b - a) - Common(a, b, 0, p)})
             = Common(a, b, p, q)
        /\ ((q - p) - Common(0, a, p, q)) - Common(a, b, p, q) = (q - p) - Common(0, b, p, q)
        /\ ((b - a) - Common(a, b, 0, p)) - Common(a, b, p, q) = (b - a) - Common(a, b, 0, q)
    <3>1. p <= q /\ a <= b
      BY <1>4, <2>2
    <3> QED
      BY <3>1, RoomTaken
  <2>4. /\ g[i - 1] = (q - p) - Common(0, a, p, q)
        /\ g[i] = (q - p) - Common(0, b, p, q)
        /\ room[i] = (b - a) - Common(a, b, 0, p)
        /\ take(i) = Common(a, b, p, q)
    BY <1>3, <1>4, <2>1, <2>2
  <2> QED
    BY <1>4, <2>2, <2>3, <2>4
<1>6. g \in [0..n -> Int] /\ g[0] = amount
  <2>1. g[0] = amount
    <3>1. Common(0, 0, p, q) = 0
      <4>1. Common(0, 0, p, q) =
              (IF (IF 0 <= q THEN 0 ELSE q) > (IF 0 >= p THEN 0 ELSE p)
               THEN (IF 0 <= q THEN 0 ELSE q) - (IF 0 >= p THEN 0 ELSE p) ELSE 0)
        BY CommonIs
      <4> QED
        BY <4>1
    <3> QED
      BY <1>1, <1>2, <1>4, <3>1
  <2>2. ASSUME NEW i \in 0..n
        PROVE  g[i] \in Int
    <3>1. Common(0, Asked(w, i), p, q) \in Nat
      BY <1>1, CommonNat
    <3> QED
      BY <1>2, <1>4, <3>1
  <2>3. g = [i \in 0..n |-> g[i]]
    OBVIOUS
  <2> HIDE DEF g
  <2> QED
    BY <2>1, <2>2, <2>3
<1>7. LeftAfter(n, amount, room) = g
  <2> HIDE DEF g
  <2>1. PICK f : f = g
    OBVIOUS
  <2>2. PICK m \in Nat, d \in {room} : m = n
    BY <1>1
  <2>3. /\ f \in [0..m -> Int] /\ f[0] = amount
        /\ \A i \in 1..m : f[i] = f[i - 1] - Min({f[i - 1], d[i]})
    BY <1>5, <1>6, <2>1, <2>2
  <2> HIDE DEF take
  <2>4. LeftAfter(m, f[0], d) = f
    BY <2>3, LeftAfterIs
  <2> QED
    BY <2>1, <2>2, <2>3, <2>4
<1>8. \A i \in 1..n : g[i - 1] - g[i] = take(i)
  <2> SUFFICES ASSUME NEW i \in 1..n PROVE g[i - 1] - g[i] = take(i)
    OBVIOUS
  <2>1. i \in 0..n /\ i - 1 \in 0..n
    BY <1>1
  <2>2. g[i - 1] \in Int /\ take(i) \in Int
    <3>1. Common(0, Asked(w, i - 1), p, q) \in Nat
      BY <1>1, <1>4, <2>1, CommonNat
    <3>2. Common(Asked(w, i - 1), Asked(w, i), p, q) \in Nat
      BY <1>1, <1>4, <2>1, CommonNat
    <3> QED
      BY <1>2, <1>4, <2>1, <3>1, <3>2
  <2>3. g[i] = g[i - 1] - take(i)
    BY <1>5
  <2> HIDE DEF g, take
  <2> QED
    BY <2>2, <2>3
<1> HIDE DEF g, take
<1>9. PourReceipt(v, w, r, [remaining |-> room, lines |-> Lines(v, w, r - 1)])
        = [remaining |-> [i \in 1..n |-> room[i] - (g[i - 1] - g[i])],
           lines |-> Lines(v, w, r - 1) \cup
             {[receipt |-> r, version |-> w, position |-> i, amount |-> g[i - 1] - g[i], row |-> 1] :
                i \in {j \in 1..n : g[j - 1] - g[j] > 0}}]
  <2>1. LeftAfter(Len(version[w].schedule), AmountOf({a \in OnVersion(v) : a.receipt = r}), room) = g
    BY <1>7 DEF n, s, amount
  <2>2. Len(version[w].schedule) = n
    BY DEF n, s
  <2> QED
    BY <2>1, <2>2 DEF PourReceipt
<1>10. [i \in 1..n |-> room[i] - (g[i - 1] - g[i])] = Room(v, w, r)
  <2>1. \A i \in 1..n : room[i] - (g[i - 1] - g[i])
                          = s[i] - Common(Asked(w, i - 1), Asked(w, i), 0, Paid(v, r))
    BY <1>5, <1>8
  <2> QED
    BY <2>1 DEF Room, s, n
<1>11. Lines(v, w, r) = Lines(v, w, r - 1) \cup
         {[receipt |-> r, version |-> w, position |-> i, amount |-> g[i - 1] - g[i], row |-> 1] :
            i \in {j \in 1..n : g[j - 1] - g[j] > 0}}
  <2>1. \A i \in 1..n : Poured(v, w, r, i) = g[i - 1] - g[i]
    <3> SUFFICES ASSUME NEW i \in 1..n PROVE Poured(v, w, r, i) = g[i - 1] - g[i]
      OBVIOUS
    <3>1. i \in DOMAIN version[w].schedule /\ i - 1 \in 0..n /\ i \in 0..n
      BY <1>1 DEF s
    <3>2. Poured(v, w, r, i) = Common(Paid(v, r - 1), Paid(v, r), Asked(w, i - 1), Asked(w, i))
      BY <3>1, PouredIs
    <3>3. PICK a \in Nat, b \in Nat : a = Asked(w, i - 1) /\ b = Asked(w, i)
      BY <1>1, <3>1
    <3>4. Common(p, q, a, b) = Common(a, b, p, q)
      BY CommonSwaps
    <3> QED
      BY <1>4, <1>8, <3>2, <3>3, <3>4 DEF take
  <2>2. {a \in CarryForward(v, w) : a.receipt = r}
          = {Carried(v, w, r, i) : i \in {j \in 1..n : Poured(v, w, r, j) > 0}}
    <3>1. {a \in CarryForward(v, w) : a.receipt = r}
            = {Carried(v, w, r, i) :
                 i \in {j \in DOMAIN version[w].schedule : Poured(v, w, r, j) > 0}}
      BY CarriedRows
    <3>2. DOMAIN version[w].schedule = 1..n
      BY <1>1 DEF s
    <3> QED
      BY <3>1, <3>2
  <2>3. {j \in 1..n : Poured(v, w, r, j) > 0} = {j \in 1..n : g[j - 1] - g[j] > 0}
    BY <2>1
  <2>4. \A i \in 1..n : Carried(v, w, r, i)
          = [receipt |-> r, version |-> w, position |-> i, amount |-> g[i - 1] - g[i], row |-> 1]
    BY <2>1 DEF Carried
  <2>5. {a \in CarryForward(v, w) : a.receipt = r}
          = {[receipt |-> r, version |-> w, position |-> i, amount |-> g[i - 1] - g[i], row |-> 1] :
               i \in {j \in 1..n : g[j - 1] - g[j] > 0}}
    BY <2>2, <2>3, <2>4
  <2>6. \A a \in CarryForward(v, w) : a.receipt \in Receipts
    BY CarriedRows
  <2>7. Lines(v, w, r) = Lines(v, w, r - 1) \cup {a \in CarryForward(v, w) : a.receipt = r}
    BY <2>6, SaleLedgerAssumption DEF Lines, Receipts
  <2> QED
    BY <2>5, <2>7
<1> QED
  BY <1>9, <1>10, <1>11 DEF room

\* The loop writes the rows of CarryForward, whatever the schedules and the cash.
LEMMA LoopPours ==
    ASSUME Inv, RowsCounted, NEW v, NEW w \in Versions
    PROVE  CarryForward(v, w) = Loop(v, w)
<1> DEFINE g == [r \in 0..MaxReceipts |-> [remaining |-> Room(v, w, r), lines |-> Lines(v, w, r)]]
<1>1. MaxReceipts \in Nat /\ Receipts = 1..MaxReceipts
  BY SaleLedgerAssumption DEF Receipts
<1>2. g[0] = [remaining |-> version[w].schedule, lines |-> {}]
  <2>1. Room(v, w, 0) = version[w].schedule
    <3>1. TypeOK
      BY DEF Inv
    <3>2. /\ Len(version[w].schedule) \in Nat
          /\ DOMAIN version[w].schedule = 1..Len(version[w].schedule)
          /\ \A k \in 0..Len(version[w].schedule) : Asked(w, k) \in Nat
          /\ \A k \in DOMAIN version[w].schedule : version[w].schedule[k] \in Nat
      BY <3>1, AskedSteps
    <3>3. Paid(v, 0) = 0
      BY PaidSteps
    <3>4. ASSUME NEW i \in 1..Len(version[w].schedule)
          PROVE  version[w].schedule[i] - Common(Asked(w, i - 1), Asked(w, i), 0, Paid(v, 0))
                   = version[w].schedule[i]
      <4>1. i \in 0..Len(version[w].schedule) /\ i - 1 \in 0..Len(version[w].schedule)
        BY <3>2
      <4>2. PICK a \in Nat, b \in Nat : a = Asked(w, i - 1) /\ b = Asked(w, i)
        BY <3>2, <4>1
      <4>3. Common(a, b, 0, 0) = 0
        BY CommonIs
      <4> QED
        BY <3>2, <3>3, <4>2, <4>3
    <3>5. version[w].schedule
            = [i \in 1..Len(version[w].schedule) |-> version[w].schedule[i]]
      <4>1. version[w].schedule \in Seq(Nat)
        BY <3>1 DEF TypeOK, VersionRow
      <4> QED
        BY <4>1
    <3> QED
      BY <3>4, <3>5 DEF Room
  <2>2. Lines(v, w, 0) = {}
    <3>1. \A a \in CarryForward(v, w) : a.receipt \in Receipts
      BY CarriedRows
    <3> QED
      BY <1>1, <3>1 DEF Lines
  <2>3. g[0] = [remaining |-> Room(v, w, 0), lines |-> Lines(v, w, 0)]
    BY <1>1
  <2> HIDE DEF g
  <2> QED
    BY <2>1, <2>2, <2>3
<1>3. \A r \in 1..MaxReceipts : g[r] = PourReceipt(v, w, r, g[r - 1])
  <2> SUFFICES ASSUME NEW r \in 1..MaxReceipts PROVE g[r] = PourReceipt(v, w, r, g[r - 1])
    OBVIOUS
  <2>1. r \in Receipts /\ r \in 0..MaxReceipts /\ r - 1 \in 0..MaxReceipts
    BY <1>1
  <2>2. /\ g[r] = [remaining |-> Room(v, w, r), lines |-> Lines(v, w, r)]
        /\ g[r - 1] = [remaining |-> Room(v, w, r - 1), lines |-> Lines(v, w, r - 1)]
    BY <2>1
  <2> HIDE DEF g
  <2> QED
    BY <2>1, <2>2, PouredReceipt
<1>4. Loop(v, w) = g[MaxReceipts].lines
  <2> HIDE DEF g
  <2>1. PICK f : f = g
    OBVIOUS
  <2>2. /\ f[0] = [remaining |-> version[w].schedule, lines |-> {}]
        /\ \A r \in 1..MaxReceipts : f[r] = PourReceipt(v, w, r, f[r - 1])
    BY <1>2, <1>3, <2>1
  <2>3. Loop(v, w) = f[MaxReceipts].lines
    BY <2>2, LoopIs
  <2> QED
    BY <2>1, <2>3
<1>5. g[MaxReceipts].lines = Lines(v, w, MaxReceipts)
  BY <1>1
<1>6. Lines(v, w, MaxReceipts) = CarryForward(v, w)
  <2>1. \A a \in CarryForward(v, w) : a.receipt \in Receipts
    BY CarriedRows
  <2> QED
    BY <1>1, <2>1 DEF Lines
<1> HIDE DEF g
<1> QED
  BY <1>4, <1>5, <1>6

-----------------------------------------------------------------------------
(* One step *)

\* What apply_restructure does to the rows.
LEMMA Applied ==
    ASSUME Inv, RowsCounted, apply_restructure,
           NEW v, NEW w, v = restructure.source, w = restructure.replacement
    PROVE  /\ v \in Governing /\ w \in Versions /\ v # w
           /\ OnVersion(w) = {}
           /\ AmountOf(OnVersion(v)) <= Total(version[w].schedule)
           /\ allocations' = (allocations \ OnVersion(v)) \cup CarryForward(v, w)
           /\ \A x \in Versions : version'[x].schedule = version[x].schedule
           /\ Governing' = {w} /\ receipt' = receipt
<1>1. /\ restructure # NoRestructure /\ v \in Governing /\ MayGovern(w)
      /\ allocations' = (allocations \ OnVersion(v)) \cup CarryForward(v, w)
      /\ AmountOf(OnVersion(v)) <= Total(version[w].schedule)
      /\ version' = Activated(w) /\ receipt' = receipt
  BY DEF apply_restructure
<1>2. w \in Versions
  BY <1>1 DEF Inv, PlanMarked
<1>3. /\ Governing' = {w} /\ w \notin Governing /\ ~Issued(w)
      /\ \A x \in Versions : version'[x].schedule = version[x].schedule
  BY <1>1, <1>2, Activation
<1>4. OnVersion(w) = {}
  BY <1>3 DEF Inv, OnIssued, OnVersion
<1> QED
  BY <1>1, <1>2, <1>3, <1>4

LEMMA AppliedCounted ==
    ASSUME Inv, RowsCounted, NoCashTwice, apply_restructure
    PROVE  RowsCounted' /\ NoCashTwice'
<1>a. PICK v, w : v = restructure.source /\ w = restructure.replacement
  OBVIOUS
<1>1. /\ v \in Governing /\ w \in Versions /\ v # w
      /\ OnVersion(w) = {}
      /\ AmountOf(OnVersion(v)) <= Total(version[w].schedule)
      /\ allocations' = (allocations \ OnVersion(v)) \cup CarryForward(v, w)
      /\ \A x \in Versions : version'[x].schedule = version[x].schedule
      /\ receipt' = receipt
  BY <1>a, Applied
<1>2. /\ Counted(CarryForward(v, w))
      /\ \A a \in CarryForward(v, w) :
            /\ a.receipt \in Receipts /\ a.version = w
            /\ a.position \in DOMAIN version[w].schedule
  BY <1>1, CarriedRows
<1>3. /\ \A r \in Receipts :
            AmountOf({a \in CarryForward(v, w) : a.receipt = r})
              = AmountOf({a \in OnVersion(v) : a.receipt = r})
      /\ \A i \in DOMAIN version[w].schedule :
            AmountOf({a \in CarryForward(v, w) : a.position = i}) <= version[w].schedule[i]
  BY <1>1, CarriedInFull
<1>4. Counted(allocations')
  <2>1. Counted(allocations \ OnVersion(v))
    BY CountedPart DEF RowsCounted
  <2>2. IsFiniteSet((allocations \ OnVersion(v)) \cup CarryForward(v, w))
    <3>1. IsFiniteSet(allocations \ OnVersion(v)) /\ IsFiniteSet(CarryForward(v, w))
      BY <1>2, <2>1 DEF Counted
    <3> QED
      BY <3>1, FS_Union
  <2> QED
    BY <1>1, <1>2, <2>1, <2>2 DEF Counted
<1>5. ASSUME NEW r \in Receipts
      PROVE  /\ AmountOf(OfReceipt(r)') = AmountOf(OfReceipt(r))
             /\ OfReceipt(r) = {} => OfReceipt(r)' = {}
  <2> DEFINE left == {a \in allocations \ OnVersion(v) : a.receipt = r}
             old == {a \in OnVersion(v) : a.receipt = r}
             carried == {a \in CarryForward(v, w) : a.receipt = r}
  <2>1. OfReceipt(r)' = left \cup carried /\ OfReceipt(r) = left \cup old
    BY <1>1 DEF OfReceipt, OnVersion
  <2>2. left \cap carried = {} /\ left \cap old = {}
    BY <1>1, <1>2 DEF OnVersion
  <2>3. Counted(left) /\ Counted(old) /\ Counted(carried)
    BY <1>2, CountedPart DEF RowsCounted, OnVersion
  <2>4. AmountOf(carried) = AmountOf(old)
    BY <1>3
  <2>5. old = {} => carried = {}
    <3>1. SUFFICES ASSUME NEW a \in carried
                   PROVE  old # {}
      OBVIOUS
    <3>2. PICK i \in DOMAIN version[w].schedule : Poured(v, w, r, i) > 0
      BY <3>1 DEF CarryForward
    <3>3. Common(Paid(v, r - 1), Paid(v, r), Asked(w, i - 1), Asked(w, i)) > 0
      BY <1>1, <3>2, PouredIs
    <3>4. /\ Paid(v, r - 1) \in Nat /\ Paid(v, r) \in Nat
          /\ Asked(w, i - 1) \in Nat /\ Asked(w, i) \in Nat
      <4>1. TypeOK
        BY DEF Inv
      <4>2. /\ DOMAIN version[w].schedule = 1..Len(version[w].schedule)
            /\ Len(version[w].schedule) \in Nat
        BY <1>1, <4>1, AskedSteps
      <4>3. i \in 0..Len(version[w].schedule) /\ i - 1 \in 0..Len(version[w].schedule)
        BY <4>2
      <4> QED
        BY <1>1, <4>1, <4>3, AskedSteps, PaidSteps
    <3>5. Paid(v, r - 1) < Paid(v, r)
      <4>1. PICK p \in Nat, q \in Nat, c \in Nat, d \in Nat :
              p = Paid(v, r - 1) /\ q = Paid(v, r) /\ c = Asked(w, i - 1) /\ d = Asked(w, i)
        BY <3>4
      <4>2. Common(p, q, c, d) > 0
        BY <3>3, <4>1
      <4>3. Common(p, q, c, d) =
             (IF (IF q <= d THEN q ELSE d) > (IF p >= c THEN p ELSE c)
              THEN (IF q <= d THEN q ELSE d) - (IF p >= c THEN p ELSE c) ELSE 0)
        BY CommonIs
      <4> QED
        BY <4>1, <4>2, <4>3
    <3>6. PICK more \in Nat : more = AmountOf({a1 \in OnVersion(v) : a1.receipt = r})
                             /\ Paid(v, r) = Paid(v, r - 1) + more
      BY PaidSteps
    <3>7. AmountOf(old) # 0
      BY <3>4, <3>5, <3>6
    <3> HIDE DEF old
    <3> QED
      BY <3>7, AmountNone
  <2> HIDE DEF left, old, carried
  <2>6. AmountOf(left \cup carried) = AmountOf(left) + AmountOf(carried)
    BY <2>2, <2>3, AmountUnion
  <2>7. AmountOf(left \cup old) = AmountOf(left) + AmountOf(old)
    BY <2>2, <2>3, AmountUnion
  <2> QED
    BY <2>1, <2>4, <2>5, <2>6, <2>7
<1>6. RowsCounted'
  BY <1>1, <1>4, <1>5 DEF RowsCounted
<1>7. \A a \in allocations' : <<a.version, a.position>> \in Instalments(a.version)'
  <2> SUFFICES ASSUME NEW a \in allocations'
               PROVE  a.position \in DOMAIN version'[a.version].schedule
    BY DEF Instalments
  <2>1. CASE a \in allocations
    BY <1>1, <2>1 DEF NoCashTwice, Instalments, Inv, TypeOK
  <2>2. CASE a \in CarryForward(v, w)
    BY <1>1, <1>2, <2>2
  <2> QED
    BY <1>1, <2>1, <2>2
<1>8. ASSUME NEW r \in Receipts
      PROVE  /\ AmountOf(OfReceipt(r))' <= receipt'[r].amount
             /\ receipt'[r].status = "reversed" => OfReceipt(r)' = {}
  BY <1>1, <1>5 DEF NoCashTwice
<1>9. ASSUME NEW x \in Versions, NEW i \in DOMAIN version'[x].schedule
      PROVE  AmountOf(OnInstalment(x, i))' <= version'[x].schedule[i]
  <2>1. i \in DOMAIN version[x].schedule /\ version'[x].schedule[i] = version[x].schedule[i]
    BY <1>1
  <2>2. CASE x = w
    <3>1. OnInstalment(x, i)' = {a \in CarryForward(v, w) : a.position = i}
      BY <1>1, <1>2, <2>2 DEF OnInstalment, OnVersion
    <3> QED
      BY <1>3, <2>1, <2>2, <3>1
  <2>3. CASE x = v
    <3>1. OnInstalment(x, i)' = {}
      BY <1>1, <1>2, <2>3 DEF OnInstalment, OnVersion
    <3>2. version[x].schedule[i] \in Nat
      BY <2>1 DEF Inv, TypeOK, VersionRow
    <3> QED
      BY <2>1, <3>1, <3>2, AmountNone
  <2>4. CASE x # w /\ x # v
    <3>1. OnInstalment(x, i)' = OnInstalment(x, i)
      BY <1>1, <1>2, <2>4 DEF OnInstalment, OnVersion
    <3> QED
      BY <2>1, <3>1 DEF NoCashTwice
  <2> QED
    BY <2>2, <2>3, <2>4
<1> QED
  BY <1>6, <1>7, <1>8, <1>9 DEF NoCashTwice

\* The operations on plans and versions leave the cash and the issued schedules
\* alone.
LEMMA VersionCounted ==
    ASSUME Inv, RowsCounted, NoCashTwice, TypeOK', NEW v \in Versions,
           \/ create_plan \/ delete_plan
           \/ create_version(v) \/ submit_version(v) \/ approve_version(v) \/ reject_version(v)
           \/ discard_version(v) \/ activate_version(v)
           \/ \E s \in Schedules : replace_schedule(v, s)
           \/ \E w \in Versions : create_restructure(w, v)
    PROVE  RowsCounted' /\ NoCashTwice'
<1>1. /\ version \in [Versions -> VersionRow]
      /\ UNCHANGED <<receipt, allocations>>
  BY DEF Inv, TypeOK, create_plan, delete_plan, create_version, submit_version,
     approve_version, reject_version, discard_version, activate_version, replace_schedule,
     create_restructure, cash
<1>2. \A r \in Receipts : OfReceipt(r)' = OfReceipt(r)
  BY <1>1 DEF OfReceipt
<1>3. \A r \in Receipts : OfReceipt(r)' # {} =>
         /\ receipt'[r].amount = receipt[r].amount
         /\ receipt'[r].status \notin {"none", "reversed"}
  BY <1>1, <1>2 DEF RowsCounted, NoCashTwice
<1>4. \A w \in Versions : Issued(w) => version'[w].schedule = version[w].schedule
  <2>1. CASE create_plan
    BY <1>1, <2>1 DEF create_plan, Issued, Inv, PlanMarked
  <2>2. CASE delete_plan
    BY <1>1, <2>2 DEF delete_plan, Issued, Used
  <2>3. CASE create_version(v) \/ \E w \in Versions : create_restructure(w, v)
    BY <1>1, <2>3 DEF create_version, create_restructure, CanRevise, NextNumber, Used, Revised, Issued
  <2>4. CASE submit_version(v)
    BY <1>1, <2>4 DEF submit_version, VersionRow
  <2>5. CASE approve_version(v)
    BY <1>1, <2>5 DEF approve_version, VersionRow
  <2>6. CASE reject_version(v)
    BY <1>1, <2>6 DEF reject_version, VersionRow
  <2>7. CASE discard_version(v)
    BY <1>1, <2>7 DEF discard_version, Issued
  <2>8. CASE activate_version(v)
    BY <2>8, Activation DEF activate_version
  <2>9. ASSUME NEW s \in Schedules, replace_schedule(v, s)
        PROVE  \A w \in Versions : Issued(w) => version'[w].schedule = version[w].schedule
    BY <1>1, <2>9 DEF replace_schedule, Issued
  <2> QED
    BY <2>1, <2>2, <2>3, <2>4, <2>5, <2>6, <2>7, <2>8, <2>9
<1> QED
  BY <1>1, <1>3, <1>4, CashKept

\* Receipts are recorded, voided, confirmed and reversed.
LEMMA ReceiptCounted ==
    ASSUME Inv, RowsCounted, NoCashTwice, TypeOK', NEW r \in Receipts,
           \/ void_receipt(r) \/ confirm_receipt(r) \/ reverse_receipt(r)
           \/ \E amount \in 1..Price : record_receipt(r, amount)
    PROVE  RowsCounted' /\ NoCashTwice'
<1>1. /\ receipt \in [Receipts -> ReceiptRow]
      /\ UNCHANGED version /\ allocations' \subseteq allocations
  BY DEF Inv, TypeOK, void_receipt, confirm_receipt, Confirm, reverse_receipt, record_receipt,
     schedule, contract, cash
<1>2. \A q \in Receipts : /\ OfReceipt(q)' \subseteq OfReceipt(q)
                          /\ OfReceipt(q) # {} => receipt[q].status \notin {"none", "reversed"}
  BY <1>1 DEF OfReceipt, RowsCounted, NoCashTwice
<1>3. \A q \in Receipts : OfReceipt(q)' # {} =>
         /\ receipt'[q].amount = receipt[q].amount
         /\ receipt'[q].status \notin {"none", "reversed"}
  <2>1. CASE void_receipt(r)
    BY <1>1, <1>2, <2>1 DEF void_receipt, ReceiptRow
  <2>2. CASE confirm_receipt(r)
    BY <1>1, <1>2, <2>2 DEF confirm_receipt, Confirm, ReceiptRow
  <2>3. CASE reverse_receipt(r)
    <3>1. OfReceipt(r)' = {}
      BY <2>3 DEF reverse_receipt, OfReceipt
    <3>2. \A q \in Receipts \ {r} : receipt'[q] = receipt[q]
      BY <1>1, <2>3 DEF reverse_receipt
    <3> QED
      BY <1>2, <3>1, <3>2
  <2>4. ASSUME NEW amount \in 1..Price, record_receipt(r, amount)
        PROVE  \A q \in Receipts : OfReceipt(q)' # {} =>
                  /\ receipt'[q].amount = receipt[q].amount
                  /\ receipt'[q].status \notin {"none", "reversed"}
    <3>1. receipt[r].status = "none" /\ \A q \in Receipts \ {r} : receipt'[q] = receipt[q]
      BY <1>1, <2>4 DEF record_receipt, Receipts
    <3> QED
      BY <1>2, <3>1
  <2> QED
    BY <2>1, <2>2, <2>3, <2>4
<1> QED
  BY <1>1, <1>3, CashKept

\* What is left moves no receipt and adds no row.
LEMMA OtherwiseCounted ==
    ASSUME Inv, RowsCounted, NoCashTwice, TypeOK', UNCHANGED <<version, receipt>>,
           allocations' \subseteq allocations
    PROVE  RowsCounted' /\ NoCashTwice'
<1>1. \A r \in Receipts : OfReceipt(r)' \subseteq OfReceipt(r)
  BY DEF OfReceipt
<1>2. \A r \in Receipts : OfReceipt(r)' # {} =>
         /\ receipt'[r].amount = receipt[r].amount
         /\ receipt'[r].status \notin {"none", "reversed"}
  BY <1>1 DEF RowsCounted, NoCashTwice
<1> QED
  BY <1>2, CashKept

LEMMA StepCounted ==
    ASSUME Inv, RowsCounted, NoCashTwice, [Next]_vars, Inv'
    PROVE  RowsCounted' /\ NoCashTwice'
<1>0. TypeOK'
  BY DEF Inv
<1>1. CASE UNCHANGED vars
  BY <1>0, <1>1, OtherwiseCounted DEF vars
<1>2. CASE \/ activate_sale \/ start_cancellation \/ approve_cancellation_terms
           \/ withdraw_cancellation \/ complete_cancellation
           \/ grant_collection_clearance \/ abandon_restructure
           \/ \E v \in Versions, i \in Contested : open_dispute(<<v, i>>) \/ submit_waiver(<<v, i>>)
           \/ \E d \in disputed : close_dispute(d)
           \/ \E d \in waived : end_waiver(d)
           \/ \E a \in allocations : reverse_allocation(a)
  <2>1. UNCHANGED <<version, receipt>> /\ allocations' \subseteq allocations
    BY <1>2 DEF activate_sale, start_cancellation, approve_cancellation_terms,
       withdraw_cancellation, complete_cancellation, grant_collection_clearance,
       abandon_restructure, open_dispute, submit_waiver, close_dispute, end_waiver,
       reverse_allocation, schedule, cash
  <2> QED
    BY <1>0, <2>1, OtherwiseCounted
<1>3. ASSUME NEW v \in Versions,
             \/ create_plan \/ delete_plan
             \/ create_version(v) \/ submit_version(v) \/ approve_version(v) \/ reject_version(v)
             \/ discard_version(v) \/ activate_version(v)
             \/ \E s \in Schedules : replace_schedule(v, s)
             \/ \E w \in Versions : create_restructure(w, v)
      PROVE  RowsCounted' /\ NoCashTwice'
  BY <1>0, <1>3, VersionCounted
<1>4. ASSUME NEW r \in Receipts,
             \/ void_receipt(r) \/ confirm_receipt(r) \/ reverse_receipt(r)
             \/ \E amount \in 1..Price : record_receipt(r, amount)
      PROVE  RowsCounted' /\ NoCashTwice'
  BY <1>0, <1>4, ReceiptCounted
<1>5. ASSUME NEW r \in Receipts, NEW i, NEW amount \in 1..Price, create_allocation(r, i, amount)
      PROVE  RowsCounted' /\ NoCashTwice'
  <2>1. amount \in Nat
    OBVIOUS
  <2> QED
    BY <1>5, <2>1, AllocationCounted
<1>6. CASE create_plan \/ delete_plan
  <2>1. PICK v : v \in Versions
    BY <1>6 DEF create_plan, delete_plan
  <2> QED
    BY <1>3, <1>6, <2>1
<1>7. CASE Next
  BY <1>2, <1>3, <1>4, <1>5, <1>6, <1>7, AppliedCounted DEF Next
<1> QED
  BY <1>1, <1>7

\* Every receipt and every instalment is within its amount; a receipt that does not
\* exist has nothing applied.
THEOREM CashCounted == Spec => [](RowsCounted /\ NoCashTwice)
<1>1. Init => RowsCounted /\ NoCashTwice
  <2> SUFFICES ASSUME Init PROVE RowsCounted /\ NoCashTwice
    OBVIOUS
  <2>1. /\ allocations = {} /\ \A r : OfReceipt(r) = {} /\ \A v, i : OnInstalment(v, i) = {}
    BY DEF Init, OfReceipt, OnInstalment, OnVersion
  <2>2. IsFiniteSet(allocations)
    BY <2>1, FS_EmptySet
  <2>3. TypeOK
    BY Initially DEF Inv
  <2>4. \A r \in Receipts : receipt[r].amount \in Nat
    BY <2>3 DEF TypeOK, ReceiptRow
  <2>5. \A v \in Versions : \A i \in DOMAIN version[v].schedule : version[v].schedule[i] \in Nat
    BY <2>3 DEF TypeOK, VersionRow
  <2> QED
    BY <2>1, <2>2, <2>4, <2>5, AmountNone DEF RowsCounted, NoCashTwice, Counted
<1>2. Inv /\ Inv' /\ (RowsCounted /\ NoCashTwice) /\ [Next]_vars
        => (RowsCounted /\ NoCashTwice)'
  BY StepCounted
<1> QED
  BY <1>1, <1>2, Invariant, PTL DEF Spec

\* No unit of cash is applied twice, beyond its receipt, on an instalment that does
\* not exist or beyond what an instalment asks.
THEOREM CashOnce == Spec => []NoCashTwice
BY CashCounted, PTL

\* plan_carry_forward promises the operator who previews a restructure what applying
\* it will do: the receipts oldest first, into the instalments in order.
THEOREM PouredInOrder == Spec => []PouredAsPreviewed
<1>1. Inv /\ RowsCounted => PouredAsPreviewed
  <2> SUFFICES ASSUME Inv, RowsCounted, restructure # NoRestructure
               PROVE  CarryForward(restructure.source, restructure.replacement)
                        = Loop(restructure.source, restructure.replacement)
    BY DEF PouredAsPreviewed
  <2>1. restructure.replacement \in Versions
    BY DEF Inv, PlanMarked
  <2> QED
    BY <2>1, LoopPours
<1> QED
  BY <1>1, CashCounted, Invariant, PTL

\* Only an activation or a restructure puts a schedule in force.
LEMMA GoverningStays ==
    ASSUME Inv, [Next]_vars, \A v \in Versions : ~activate_version(v), ~apply_restructure
    PROVE  Governing' \subseteq Governing
<1>1. version \in [Versions -> VersionRow]
  BY DEF Inv, TypeOK
<1>2. CASE version' = version
  BY <1>2 DEF Governing
<1>3. CASE create_plan
  BY <1>1, <1>3 DEF create_plan, Governing
<1>4. CASE delete_plan
  BY <1>4 DEF delete_plan, Governing, NoVersion
<1>5. ASSUME NEW v \in Versions, version' = Revised(v)
      PROVE  Governing' \subseteq Governing
  BY <1>1, <1>5 DEF Revised, Governing
<1>6. ASSUME NEW v \in Versions,
             \/ submit_version(v) \/ approve_version(v) \/ reject_version(v) \/ discard_version(v)
             \/ \E s \in Schedules : replace_schedule(v, s)
      PROVE  Governing' \subseteq Governing
  BY <1>1, <1>6 DEF submit_version, approve_version, reject_version, discard_version,
     replace_schedule, Governing, VersionRow
<1>7. CASE UNCHANGED vars
  BY <1>2, <1>7 DEF vars
<1>8. CASE Next
  BY <1>2, <1>3, <1>4, <1>5, <1>6, <1>8 DEF Next, activate_sale, start_cancellation,
     approve_cancellation_terms, withdraw_cancellation, complete_cancellation,
     create_version, create_restructure, open_dispute, submit_waiver, void_receipt, confirm_receipt,
     Confirm, reverse_receipt, record_receipt, create_allocation, reverse_allocation, close_dispute,
     end_waiver, grant_collection_clearance, abandon_restructure, schedule
<1> QED
  BY <1>7, <1>8

LEMMA StepConserves ==
    ASSUME Inv, RowsCounted, [Next]_vars,
           NEW v \in Governing, NEW w \in Governing', v # w, plan.collections_started,
           NEW r \in Receipts
    PROVE  AmountOf({a \in OnVersion(v) : a.receipt = r})
             = AmountOf({a \in OnVersion(w) : a.receipt = r})'
<1>1. \A x \in Governing : x = v
  BY DEF Inv, OneGoverningSchedule
<1>2. \A x \in Versions : ~activate_version(x)
  BY DEF activate_version
<1>3. apply_restructure
  BY <1>1, <1>2, GoverningStays
<1>4. PICK x, y : x = restructure.source /\ y = restructure.replacement
  OBVIOUS
<1>5. /\ x \in Governing /\ y \in Versions /\ x # y /\ OnVersion(y) = {}
      /\ AmountOf(OnVersion(x)) <= Total(version[y].schedule)
      /\ allocations' = (allocations \ OnVersion(x)) \cup CarryForward(x, y)
      /\ Governing' = {y}
  BY <1>3, <1>4, Applied
<1>6. x = v /\ y = w
  BY <1>1, <1>5
<1>7. \A a \in CarryForward(x, y) : a.version = y
  BY <1>5, CarriedRows
<1>8. {a \in OnVersion(w) : a.receipt = r}' = {a \in CarryForward(x, y) : a.receipt = r}
  BY <1>5, <1>6, <1>7 DEF OnVersion
<1>9. AmountOf({a \in CarryForward(x, y) : a.receipt = r})
        = AmountOf({a \in OnVersion(x) : a.receipt = r})
  BY <1>5, CarriedInFull
<1> QED
  BY <1>6, <1>8, <1>9

\* No unit of cash vanishes when a collected schedule is replaced: every receipt has
\* as much on the new one as it had on the old.
THEOREM RestructuresConserve == Spec => RestructureConserves
<1>1. Inv /\ RowsCounted /\ [Next]_vars
        => [\A v \in Governing, w \in Governing' :
              v # w /\ plan.collections_started
                => \A r \in Receipts :
                      AmountOf({a \in OnVersion(v) : a.receipt = r})
                        = AmountOf({a \in OnVersion(w) : a.receipt = r})']_vars
  BY StepConserves
<1> QED
  BY <1>1, Invariant, CashCounted, PTL DEF Spec, RestructureConserves
=============================================================================
