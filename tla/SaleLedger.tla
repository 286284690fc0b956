----------------------------- MODULE SaleLedger -----------------------------
(***************************************************************************)
(* One contract's payment plan and the cash collected against it:          *)
(* app/modules/payment_plans/service.py (versions of the schedule) and     *)
(* app/modules/collections/service.py (receipts, their allocations to      *)
(* instalments, disputes, waivers, restructures and the clearance).        *)
(*                                                                         *)
(* Every operation runs under the project lock and is one action.  The     *)
(* table of allocations holds the active ones: a reversed or superseded    *)
(* row is history that nothing reads again.  A receipt may have several    *)
(* rows on one instalment, told apart by "row".  Receipt numbers are given *)
(* in order, and a schedule lists its instalments in the order they fall   *)
(* due.  Amounts are whole units; people, currencies, dates and the events *)
(* that make an instalment due are left out.                               *)
(***************************************************************************)
EXTENDS Naturals, Sequences, FiniteSets, FiniteSetsExt, Functions

CONSTANTS
    Price,          \* what the buyer pays in all
    Schedules,      \* the schedules the clerks draw up
    Contested,      \* positions of the instalments ever disputed or waived
    MaxVersions,    \* versions one plan may have
    MaxReceipts,    \* receipts recorded on the contract
    MaxRows         \* active allocations of one receipt to one instalment

ASSUME SaleLedgerAssumption ==
    /\ Price \in Nat
    /\ Schedules \subseteq Seq(Nat)
    /\ Contested \subseteq Nat
    /\ MaxVersions \in Nat /\ MaxReceipts \in Nat /\ MaxRows \in Nat

VARIABLES
    sale,           \* the contract: its status, and whether the terms of a
                    \* cancellation are signed
    plan,           \* the payment plan
    version,        \* payment_plan_versions, with their instalments
    receipt,        \* collection_receipts
    allocations,    \* the active collection_receipt_allocations
    restructure,    \* the open collection_restructure, or NoRestructure
    disputed,       \* instalments with an open dispute
    waived,         \* instalments with a live waiver
    cleared         \* the collection clearance stands

vars == <<sale, plan, version, receipt, allocations, restructure, disputed,
          waived, cleared>>
contract == <<sale>>
schedule == <<plan, version, restructure>>
cash == <<receipt, allocations>>
exceptions == <<disputed, waived>>

-----------------------------------------------------------------------------
(* Rows *)

Versions == 1..MaxVersions
Receipts == 1..MaxReceipts

VersionOpen == {"draft", "submitted", "approved"}
VersionStatuses ==
    VersionOpen \cup {"none", "active", "superseded", "rejected", "discarded"}

SaleRow ==
    [status : {"signature_pending", "active", "termination_pending", "cancelled"},
     activated : BOOLEAN,
     terms_signed : BOOLEAN]

PlanRow == [drawn : BOOLEAN, collections_started : BOOLEAN]
VersionRow == [status : VersionStatuses, schedule : Seq(Nat)]

ReceiptRow ==
    [status : {"none", "recorded", "confirmed", "reversed"},
     amount : Nat,
     early  : BOOLEAN]     \* confirmed_at is before the plan's created_at

AllocationRow ==
    [receipt : Receipts, version : Versions, position : Nat, amount : Nat, row : Nat]

NoRestructure == [source |-> 0, replacement |-> 0]
NoVersion == [status |-> "none", schedule |-> <<>>]
NoReceipt == [status |-> "none", amount |-> 0, early |-> FALSE]

-----------------------------------------------------------------------------
(* What the services read *)

Governing == {v \in Versions : version[v].status = "active"}
OpenVersions == {v \in Versions : version[v].status \in VersionOpen}
Used == {v \in Versions : version[v].status # "none"}

Total(amounts) == SumFunction(amounts)
Reconciled(v) == Total(version[v].schedule) = Price

AmountOf(rows) == SumFunction([a \in rows |-> a.amount])
OfReceipt(r) == {a \in allocations : a.receipt = r}
OnVersion(v) == {a \in allocations : a.version = v}
OnInstalment(v, i) == {a \in OnVersion(v) : a.position = i}

Confirmed == {r \in Receipts : receipt[r].status = "confirmed"}
ConfirmedCash == {[receipt |-> r, amount |-> receipt[r].amount] : r \in Confirmed}
Settled == {a \in allocations : receipt[a.receipt].status = "confirmed"}

\* clearance_blockers_of is empty.
AccountClear ==
    /\ sale.status # "cancelled"
    /\ \E v \in Governing :
          /\ Total(version[v].schedule) <= AmountOf(Settled \cap OnVersion(v))
          /\ \A d \in disputed : d[1] # v
    /\ AmountOf(ConfirmedCash) <= AmountOf(Settled)

\* recalculate_collection_status: a clearance falls with the account.
Recalculate == cleared' = (cleared /\ AccountClear')

Plannable == sale.status \in {"signature_pending", "active"}
Collectable == sale.status # "cancelled"

\* require_cancellation_cash_change_allowed
CashMayChange == ~(sale.status = "termination_pending" /\ sale.terms_signed)

Init ==
    /\ sale = [status |-> "signature_pending", activated |-> FALSE, terms_signed |-> FALSE]
    /\ plan = [drawn |-> FALSE, collections_started |-> FALSE]
    /\ version = [v \in Versions |-> NoVersion]
    /\ receipt = [r \in Receipts |-> NoReceipt]
    /\ allocations = {}
    /\ restructure = NoRestructure
    /\ disputed = {} /\ waived = {}
    /\ cleared = FALSE

-----------------------------------------------------------------------------
(* The contract, as far as this module needs it *)

activate_sale ==
    /\ sale.status = "signature_pending"
    /\ sale' = [sale EXCEPT !.status = "active", !.activated = TRUE]
    /\ UNCHANGED <<schedule, cash, exceptions, cleared>>

start_cancellation ==
    /\ sale.status \in {"signature_pending", "active"}
    /\ sale' = [sale EXCEPT !.status = "termination_pending", !.terms_signed = FALSE]
    /\ UNCHANGED <<schedule, cash, exceptions, cleared>>

approve_cancellation_terms ==
    /\ sale.status = "termination_pending"
    /\ ~sale.terms_signed
    /\ Confirmed # {}
    /\ sale' = [sale EXCEPT !.terms_signed = TRUE]
    /\ UNCHANGED <<schedule, cash, exceptions, cleared>>

withdraw_cancellation ==
    /\ sale.status = "termination_pending"
    /\ sale' = [sale EXCEPT
          !.status = IF sale.activated THEN "active" ELSE "signature_pending"]
    /\ UNCHANGED <<schedule, cash, exceptions, cleared>>

complete_cancellation ==
    /\ sale.status = "termination_pending"
    /\ sale.terms_signed \/ Confirmed = {}
    /\ sale' = [sale EXCEPT !.status = "cancelled"]
    /\ UNCHANGED <<schedule, cash, exceptions, cleared>>

-----------------------------------------------------------------------------
(* The plan and its versions *)

\* v is the next number in the plan's history.
NextNumber(v) == v \notin Used /\ \A w \in Versions \ Used : v <= w

\* An empty first draft, or the schedule of another plan worked out for this
\* contract's price.
create_plan ==
    /\ Plannable
    /\ ~plan.drawn
    /\ Versions # {}
    /\ plan' = [plan EXCEPT !.drawn = TRUE]
    /\ \E s \in {<<>>} \cup {t \in Schedules : Total(t) = Price} :
          version' = [version EXCEPT ![1] = [status |-> "draft", schedule |-> s]]
    /\ UNCHANGED <<contract, restructure, cash, exceptions, cleared>>

delete_plan ==
    /\ plan.drawn
    /\ ~plan.collections_started
    /\ \E v \in Versions :
          {w \in Used : version[w].status # "discarded"} = {v} /\ version[v].status = "draft"
    /\ plan' = [plan EXCEPT !.drawn = FALSE]
    /\ version' = [v \in Versions |-> NoVersion]
    /\ UNCHANGED <<contract, restructure, cash, exceptions, cleared>>

\* A revision starts from a copy of the standing schedule.
CanRevise(v) == plan.drawn /\ OpenVersions = {} /\ Plannable /\ NextNumber(v)

Revised(v) ==
    [version EXCEPT ![v] =
        [status |-> "draft",
         schedule |-> IF Governing = {} THEN <<>>
                      ELSE version[CHOOSE w \in Governing : TRUE].schedule]]

create_version(v) ==
    /\ CanRevise(v)
    /\ version' = Revised(v)
    /\ UNCHANGED <<contract, plan, restructure, cash, exceptions, cleared>>

replace_schedule(v, s) ==
    /\ version[v].status = "draft"
    /\ s # <<>>
    /\ version' = [version EXCEPT ![v].schedule = s]
    /\ UNCHANGED <<contract, plan, restructure, cash, exceptions, cleared>>

submit_version(v) ==
    /\ version[v].status = "draft"
    /\ Reconciled(v)
    /\ version' = [version EXCEPT ![v].status = "submitted"]
    /\ UNCHANGED <<contract, plan, restructure, cash, exceptions, cleared>>

approve_version(v) ==
    /\ version[v].status = "submitted"
    /\ Reconciled(v)
    /\ version' = [version EXCEPT ![v].status = "approved"]
    /\ UNCHANGED <<contract, plan, restructure, cash, exceptions, cleared>>

reject_version(v) ==
    /\ version[v].status = "submitted"
    /\ version' = [version EXCEPT ![v].status = "rejected"]
    /\ UNCHANGED <<contract, plan, restructure, cash, exceptions, cleared>>

\* The number of a discarded draft is not given again.
discard_version(v) ==
    /\ version[v].status = "draft"
    /\ ~plan.collections_started
    /\ Governing # {}
    /\ version' = [version EXCEPT ![v].status = "discarded", ![v].schedule = <<>>]
    /\ UNCHANGED <<contract, plan, restructure, cash, exceptions, cleared>>

\* _activate_locked, on the versions.
MayGovern(v) == version[v].status = "approved" /\ sale.status = "active" /\ Reconciled(v)

\* Mutant of Activated: the schedule that stood is not superseded.
ActivatedBeside(v) == [version EXCEPT ![v].status = "active"]

Activated(v) ==
    [w \in Versions |->
        IF w = v THEN [version[w] EXCEPT !.status = "active"]
        ELSE IF w \in Governing THEN [version[w] EXCEPT !.status = "superseded"]
        ELSE version[w]]

\* Mutant of activate_version: collected cash does not bar the ordinary way.
ActivateOverCash(v) ==
    /\ MayGovern(v)
    /\ version' = Activated(v)
    /\ UNCHANGED <<contract, plan, restructure, cash, exceptions, cleared>>

\* The ordinary way: refused once cash was confirmed against a standing plan.
activate_version(v) ==
    /\ MayGovern(v)
    /\ plan.collections_started => Governing = {}
    /\ version' = Activated(v)
    /\ UNCHANGED <<contract, plan, restructure, cash, exceptions, cleared>>

-----------------------------------------------------------------------------
(* Receipts and their allocation *)

record_receipt(r, amount) ==
    /\ Collectable
    /\ \A q \in Receipts : receipt[q].status = "none" <=> r <= q
    /\ amount > 0
    /\ receipt' = [receipt EXCEPT ![r] =
                     [status |-> "recorded", amount |-> amount, early |-> FALSE]]
    /\ UNCHANGED <<contract, schedule, allocations, exceptions, cleared>>

void_receipt(r) ==
    /\ receipt[r].status = "recorded"
    /\ OfReceipt(r) = {}
    /\ receipt' = [receipt EXCEPT ![r].status = "reversed"]
    /\ UNCHANGED <<contract, schedule, allocations, exceptions, cleared>>

\* Cash confirmed while no plan exists marks nothing.
Confirm(r) ==
    /\ receipt' = [receipt EXCEPT ![r].status = "confirmed", ![r].early = ~plan.drawn]
    /\ plan' = [plan EXCEPT !.collections_started = @ \/ plan.drawn]
    /\ UNCHANGED <<contract, version, restructure, allocations, exceptions>>
    /\ Recalculate

confirm_receipt(r) ==
    /\ receipt[r].status = "recorded"
    /\ CashMayChange
    /\ \A a \in OfReceipt(r) :
          /\ a.version \in Governing
          /\ AmountOf(OnInstalment(a.version, a.position))
                <= version[a.version].schedule[a.position]
    /\ Confirm(r)

\* Mutants of reverse_receipt: its allocations stay; the clearance stays.
ReverseReceiptOnly(r) ==
    /\ receipt[r].status = "confirmed"
    /\ CashMayChange
    /\ receipt' = [receipt EXCEPT ![r].status = "reversed"]
    /\ UNCHANGED <<contract, schedule, allocations, exceptions>>
    /\ Recalculate

ReverseKeepsClearance(r) ==
    /\ receipt[r].status = "confirmed"
    /\ CashMayChange
    /\ receipt' = [receipt EXCEPT ![r].status = "reversed"]
    /\ allocations' = allocations \ OfReceipt(r)
    /\ UNCHANGED <<contract, schedule, exceptions, cleared>>

reverse_receipt(r) ==
    /\ receipt[r].status = "confirmed"
    /\ CashMayChange
    /\ receipt' = [receipt EXCEPT ![r].status = "reversed"]
    /\ allocations' = allocations \ OfReceipt(r)
    /\ UNCHANGED <<contract, schedule, exceptions>>
    /\ Recalculate

HasRoom(r, v, i, amount) ==
    /\ AmountOf(OfReceipt(r)) + amount <= receipt[r].amount
    /\ AmountOf(OnInstalment(v, i)) + amount <= version[v].schedule[i]

create_allocation(r, i, amount) ==
    \E v \in Governing :
       LET rows == {a \in OnInstalment(v, i) : a.receipt = r}
           free == {n \in 1..MaxRows : \A a \in rows : a.row # n}
       IN
       /\ i \in DOMAIN version[v].schedule
       /\ receipt[r].status \in {"recorded", "confirmed"}
       /\ amount > 0
       /\ HasRoom(r, v, i, amount)
       /\ free # {}
       /\ allocations' = allocations \cup
             {[receipt |-> r, version |-> v, position |-> i, amount |-> amount,
               row |-> Min(free)]}
       /\ UNCHANGED <<contract, schedule, receipt, exceptions>>
       /\ IF receipt[r].status = "confirmed" THEN Recalculate ELSE UNCHANGED cleared

reverse_allocation(a) ==
    /\ a \in allocations
    /\ allocations' = allocations \ {a}
    /\ UNCHANGED <<contract, schedule, receipt, exceptions>>
    /\ IF receipt[a.receipt].status = "confirmed" THEN Recalculate ELSE UNCHANGED cleared

-----------------------------------------------------------------------------
(* Disputes, waivers and the clearance *)

Instalments(v) == {v} \X DOMAIN version[v].schedule

open_dispute(d) ==
    /\ \E v \in Governing : d \in Instalments(v)
    /\ d \notin disputed
    /\ disputed' = disputed \cup {d}
    /\ UNCHANGED <<contract, schedule, cash, waived>>
    /\ Recalculate

\* resolve_dispute and withdraw_dispute
close_dispute(d) ==
    /\ d \in disputed
    /\ disputed' = disputed \ {d}
    /\ UNCHANGED <<contract, schedule, cash, waived>>
    /\ Recalculate

submit_waiver(d) ==
    /\ \E v \in Governing : d \in Instalments(v)
    /\ d \notin waived
    /\ waived' = waived \cup {d}
    /\ UNCHANGED <<contract, schedule, cash, disputed, cleared>>

\* reject_waiver and revoke_waiver; an approved waiver stays live.
end_waiver(d) ==
    /\ d \in waived
    /\ waived' = waived \ {d}
    /\ UNCHANGED <<contract, schedule, cash, disputed, cleared>>

grant_collection_clearance ==
    /\ ~cleared
    /\ AccountClear
    /\ cleared' = TRUE
    /\ UNCHANGED <<contract, schedule, cash, exceptions>>

-----------------------------------------------------------------------------
(* Restructures: the one way to replace a schedule that was collected on *)

create_restructure(v, w) ==
    /\ v \in Governing
    /\ plan.collections_started
    /\ restructure = NoRestructure
    /\ CanRevise(w)
    /\ version' = Revised(w)
    /\ restructure' = [source |-> v, replacement |-> w]
    /\ UNCHANGED <<contract, plan, cash, exceptions, cleared>>

abandon_restructure ==
    /\ restructure # NoRestructure
    /\ restructure' = NoRestructure
    /\ UNCHANGED <<contract, plan, version, cash, exceptions, cleared>>

\* Mutant of Poured: the newest receipt first.
PouredNewestFirst(v, w, r, i) ==
    LET before == AmountOf({a \in OnVersion(v) : a.receipt > r})
        amount == AmountOf({a \in OnVersion(v) : a.receipt = r})
        room == SumFunctionOnSet(version[w].schedule, 1..(i - 1))
        from == Max({before, room})
        to == Min({before + amount, room + version[w].schedule[i]})
    IN IF to > from THEN to - from ELSE 0

\* The receipts' cash on v, oldest first, fills the instalments of w in order:
\* laid end to end, a receipt pays of an instalment what the two have in common.
Poured(v, w, r, i) ==
    LET before == AmountOf({a \in OnVersion(v) : a.receipt < r})
        amount == AmountOf({a \in OnVersion(v) : a.receipt = r})
        room == SumFunctionOnSet(version[w].schedule, 1..(i - 1))
        from == Max({before, room})
        to == Min({before + amount, room + version[w].schedule[i]})
    IN IF to > from THEN to - from ELSE 0

\* Mutant of CarryForward: only cash Finance has confirmed is carried.
CarryConfirmed(v, w) ==
    {[receipt |-> p[1], version |-> w, position |-> p[2],
      amount |-> Poured(v, w, p[1], p[2]), row |-> 1] :
        p \in {q \in Confirmed \X DOMAIN version[w].schedule : Poured(v, w, q[1], q[2]) > 0}}

\* plan_carry_forward
CarryForward(v, w) ==
    {[receipt |-> p[1], version |-> w, position |-> p[2],
      amount |-> Poured(v, w, p[1], p[2]), row |-> 1] :
        p \in {q \in Receipts \X DOMAIN version[w].schedule : Poured(v, w, q[1], q[2]) > 0}}

\* plan_carry_forward as it is written.  What is left of an amount after each of
\* n instalments: it takes what room it finds there.
LeftAfter(n, amount, remaining) ==
    LET left[i \in 0..n] ==
            IF i = 0 THEN amount ELSE left[i - 1] - Min({left[i - 1], remaining[i]})
    IN left

\* One receipt's cash on v, poured into the room the ones before it left on w.
PourReceipt(v, w, r, before) ==
    LET n == Len(version[w].schedule)
        left == LeftAfter(n, AmountOf({a \in OnVersion(v) : a.receipt = r}), before.remaining)
        take(i) == left[i - 1] - left[i]
    IN [remaining |-> [i \in 1..n |-> before.remaining[i] - take(i)],
        lines |-> before.lines \cup
            {[receipt |-> r, version |-> w, position |-> i, amount |-> take(i), row |-> 1] :
                i \in {j \in 1..n : take(j) > 0}}]

\* Each receipt in turn.
Loop(v, w) ==
    LET pour[r \in 0..MaxReceipts] ==
            IF r = 0 THEN [remaining |-> version[w].schedule, lines |-> {}]
            ELSE PourReceipt(v, w, r, pour[r - 1])
    IN pour[MaxReceipts].lines

apply_restructure ==
    LET v == restructure.source
        w == restructure.replacement
    IN
    /\ restructure # NoRestructure
    /\ v \in Governing
    /\ MayGovern(w)
    /\ \A d \in disputed \cup waived : d[1] # v
    /\ AmountOf(OnVersion(v)) <= Total(version[w].schedule)
    /\ allocations' = (allocations \ OnVersion(v)) \cup CarryForward(v, w)
    /\ version' = Activated(w)
    /\ restructure' = NoRestructure
    /\ UNCHANGED <<contract, plan, receipt, exceptions>>
    /\ Recalculate

-----------------------------------------------------------------------------
Positions == UNION {DOMAIN version[v].schedule : v \in Versions}

Next ==
    \/ activate_sale \/ start_cancellation \/ approve_cancellation_terms
    \/ withdraw_cancellation \/ complete_cancellation
    \/ create_plan \/ delete_plan
    \/ \E v \in Versions :
          \/ create_version(v) \/ submit_version(v) \/ approve_version(v) \/ reject_version(v)
          \/ discard_version(v) \/ activate_version(v)
          \/ \E s \in Schedules : replace_schedule(v, s)
          \/ \E i \in Contested : open_dispute(<<v, i>>) \/ submit_waiver(<<v, i>>)
    \/ \E r \in Receipts : void_receipt(r) \/ confirm_receipt(r) \/ reverse_receipt(r)
    \/ \E amount \in 1..Price :
          \E r \in Receipts :
             \/ record_receipt(r, amount)
             \/ \E i \in Positions : create_allocation(r, i, amount)
    \/ \E a \in allocations : reverse_allocation(a)
    \/ \E d \in disputed : close_dispute(d)
    \/ \E d \in waived : end_waiver(d)
    \/ grant_collection_clearance
    \/ \E v, w \in Versions : create_restructure(v, w)
    \/ abandon_restructure \/ apply_restructure

Spec == Init /\ [][Next]_vars

-----------------------------------------------------------------------------
(* Properties *)

\* Every table keeps its columns' types.
TypeOK ==
    /\ sale \in SaleRow
    /\ plan \in PlanRow
    /\ version \in [Versions -> VersionRow]
    /\ receipt \in [Receipts -> ReceiptRow]
    /\ \A a \in allocations : a.receipt \in Receipts /\ a.version \in Versions
    /\ cleared \in BOOLEAN

\* payment_plans promises one schedule per sale: never two governing versions,
\* never two in preparation, and what governs adds up to the price.
OneGoverningSchedule ==
    /\ \A v, w \in Governing : v = w
    /\ \A v, w \in OpenVersions : v = w
    /\ \A v \in Governing : Reconciled(v)

\* Cash Finance confirmed while the plan existed is applied to the schedule the
\* buyer is on, however often that schedule is replaced.
CashStaysOnSchedule ==
    \A a \in Settled : ~receipt[a.receipt].early => a.version \in Governing

\* The same of all confirmed cash: what the guard of activate_version is for.
CashOnGoverningSchedule == \A a \in Settled : a.version \in Governing

\* No unit of cash appears twice, or on nothing: it is applied to instalments that
\* exist, a receipt not beyond its amount, a reversed one not at all, and no
\* instalment is paid more than it asks.
NoCashTwice ==
    /\ \A a \in allocations : <<a.version, a.position>> \in Instalments(a.version)
    /\ \A r \in Receipts :
          /\ AmountOf(OfReceipt(r)) <= receipt[r].amount
          /\ receipt[r].status = "reversed" => OfReceipt(r) = {}
    /\ \A v \in Versions : \A i \in DOMAIN version[v].schedule :
          AmountOf(OnInstalment(v, i)) <= version[v].schedule[i]

\* A standing clearance means a paid account, on a live contract whose cash was
\* all confirmed on the plan: nothing owed, nothing unapplied, nothing disputed.
ClearedMeansPaid ==
    cleared /\ sale.status # "cancelled" /\ (\A r \in Confirmed : ~receipt[r].early)
        => AccountClear

\* A restructure pours the cash as plan_carry_forward promises the operator who
\* previews it: oldest receipt first, into the instalments in order.
PouredAsPreviewed ==
    restructure # NoRestructure /\ restructure.source \in Governing
        => CarryForward(restructure.source, restructure.replacement)
              = Loop(restructure.source, restructure.replacement)

\* No unit of cash vanishes: when a collected schedule is replaced, every
\* receipt has as much on the new one as it had on the old.
RestructureConserves ==
    [][\A v \in Governing, w \in Governing' :
          v # w /\ plan.collections_started
            => \A r \in Receipts :
                  AmountOf({a \in OnVersion(v) : a.receipt = r})
                    = AmountOf({a \in OnVersion(w) : a.receipt = r})']_vars

\* A plan cash was confirmed against is never deleted, and never forgets it.
CollectedPlanKept == [][plan.collections_started => plan'.collections_started]_plan

\* The refusal of activate_version names the way through, because there is one:
\* an approved revision can be activated, or a restructure can carry it.
RevisionHasAWay ==
    \A v \in Versions :
        MayGovern(v) =>
            \/ ENABLED activate_version(v)
            \/ restructure.replacement = v
            \/ \E w, x \in Versions : ENABLED create_restructure(w, x)
=============================================================================
