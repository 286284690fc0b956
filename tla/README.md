# Reach Developments Station: a TLA+ model of the developer's back office

The repository is the back office of a property developer: it measures and
prices the units of a project, reserves and sells them, collects the money,
records the title and hands over the keys; and it budgets, contracts, certifies
and pays the construction those sales are financed by.  This project models the
parts where a mistake costs the developer or a buyer most: **the commitment of a
unit to a buyer** from its list price until keys and title, **the money of that
sale**, **the money of a construction contract**, and **the versions of record**
(budgets, forecasts, programmes, price lists, cost bases) that are signed as at
a day and must stay what they were.

## 1. The system

The server (`src/app`) is a FastAPI application over one PostgreSQL database,
one package per domain under `src/app/modules`.  A route opens a transaction,
calls one operation of a `service.py`, and commits.  There is no scheduler, no
queue and no retry loop: nothing happens unless a person asks for it.  The
database runs READ COMMITTED, so what orders two operations is what they lock:
most operations of sales, collections, payment plans, pricing and inventory
first take the project's row (`lock_project`, `projects/service.py:353`) and
then the rows they change, re-reading them.  A few read before they lock, and
those are the ones where an interleaving matters.

### 1.1 Components

| Component | State | Operations | Interacts with |
| --- | --- | --- | --- |
| inventory | phases, buildings, floors; units: commercial status, active flag, release controls, approved areas, legal / collection / delivery status | draw up, move, retire, import; release, hold, re-measure, deactivate, remove, restore | calls pricing's basis check; its status columns are written by sales and collections through `apply_*_status` |
| pricing | configurations, rules, price versions, one active per unit | build, submit, approve, activate; quote | marks the unit's price approved; sales pins a version |
| sales | clients, reservations, adjustments, contracts, legal events, cancellations, handovers, clearances | reserve, quote, except, convert, sign, activate, record and reverse milestones, cancel, hand over | calls inventory and pricing; asks collections before keys and title |
| payment plans | plans, versions, instalments, trigger events | draw, revise, review, activate, trigger | reads the contract; told by collections that cash arrived, by construction that a milestone is certified |
| collections | receipts, allocations, disputes, waivers, restructures, refunds, the collection clearance | record, confirm, reverse, allocate, restructure, refund, clear | writes the unit's collection status; asks sales whether cash may move |
| construction | cost codes, budgets, contracts, variations, certificates, invoices, payments, milestones, forecasts | commit, certify, invoice, pay under two hands | certified milestones fire instalments |
| cashflow | forecasts with a cutoff, development and financing movements, restricted cash | draft, approve, activate; record and confirm | reads plans, collections and construction |
| unit economics | effective-dated cost allocations | calculate, approve, activate | reads land, construction, sales |
| commissions | grants on a sale and their shares | draft, release, reverse | reads sales; read by unit economics |
| access | users, roles, sessions | create, deactivate, give and take roles | every operation asks it who acts |
| audit, settings | events; country packs | append; administer | every operation |
| projects, consultant engineering, leasing, marketing, management actions and reporting, portfolio, project analysis, prelaunch, workspace | registers, snapshots, derived reads | edit, transition | mostly read the above |
| HTTP layer, migrations, frontend, scripts | none the services trust | | |

`PROJECT.json` lists them one by one with what is modelled of each.

### 1.2 What is hard, and what correctness means

* **Interleavings.** Two deals want one unit, and the fact that it is taken
  lives in two tables (`reservations`, `sale_contracts`) and a status column in
  a third, owned by another module.  Correct: never two commitments, and the
  column says who holds the unit.
* **Stale reads.** A price is approved for a unit that is then measured again; an
  approval is given for a quote that is then changed; a date or a status is
  read before the lock.  Correct: a unit is taken only at the price of the unit
  as it is, and an approval covers only what the approver saw.
* **Ordering of facts entered by people.** Legal milestones arrive late, out of
  order, and are reversed; cash is confirmed before a plan exists, and reversed
  after a clearance or a signature.  Correct: derived statuses follow from the
  facts that stand, and decisions never rest on cash that is gone.
* **Several tables, one fact.** A cancellation moves the contract, the unit, the
  registry and the refund; a restructure moves every allocation of a schedule.
  Correct: the parts move together, and no unit of cash is lost or doubled.
* **Answers as at a day.**  Budgets, forecasts, price lists and cost bases are
  signed for a date and asked about afterwards, while the facts under them are
  reversed and corrected.  Correct: a day that is over keeps its answer, and no
  day has two.
* **Dead ends.** Guards of several modules refuse each other's way out.
  Correct: whoever holds a unit, or waits on an approved schedule, has a move.

Crashes add nothing to these: an operation is one transaction, and nothing is
kept outside the database.  Messages are not lost or reordered because there
are none; an outgoing e-mail changes no modelled state.

### 1.3 Properties per component

* *Inventory and sales*: never two commitments of a unit; the status says who
  holds it; a unit is taken at the price of the unit as it is; the contract says
  what the quote says; every operation is one rung of the ladder.
* *Closing*: a case, the contract and the unit move together; keys and title pass
  on a paid account; signed terms equal the cash they were signed for.
* *Payment plans and collections*: one schedule governs, cash stays visible and is
  counted once, a clearance means a paid account, an instalment is due for a
  reason that stands.
* *Construction*: commitment covers certified work, that covers claims, those cover
  cash, under every reversal; the breakdown is a tree and the programme can start;
  what a forecast says was certified at its cutoff never changes.
* *Pricing*: no day has two list prices; an approved price describes this unit.
* *Cashflow*: a signed month stays signed; restricted cash is covered by the receipt;
  what is confirmed is what the second person read.
* *Unit economics*: a day that is over keeps the cost basis it had.
* *Site structure*: an active unit stands on active ground, and a price that reads
  approved was approved for the place the unit is in.
* *Refunds*: what was repaid on a case fits inside the terms signed for it.
* *Commissions*: shares whose rates make the granted rate add up to the commission.

* *Access*: somebody is always left to administer the system.
* *Everything kept in versions*: what governs is what was approved, and gives way
  only to a successor.

Not modelled: the registers of section 5.

## 2. Modules

    UnitCommitment         the abstract ladder: what a unit's commitment may do
       ^ implemented by
    UnitSaleRefinement --> UnitSale ------> MCUnitSale      (runs)
                             `-----------> UnitSaleProofs   (theorems)
    SaleClosing       --> MCSaleClosing,       SaleClosingProofs
    SaleLedger        --> MCSaleLedger,        SaleLedgerProofs
    ConstructionChain --> MCConstructionChain, ConstructionChainProofs
    VersionOfRecord        the abstract life of a document kept in versions
       ^ implemented, six times over, by
    BudgetControl, PriceLifecycle, Cashflow, UnitEconomics,
    Programme, SiteStructure, Refunds, Commissions, Administrators
                      --> MCBackOffice         (one run over nine desks)

    SumLemmas          sums over sets and tables, for the proofs about money
    ControlProofs      theorems of BudgetControl, Programme and Administrators
    InventoryProofs    theorems of PriceLifecycle and SiteStructure
    FinanceProofs      theorems of UnitEconomics, Refunds, Cashflow and Commissions

**`UnitSale`**: inventory, pricing and sales, from release to contract.
`unit` is the row of `inventory.Unit` (commercial status, active and removed
flags, release controls, the area revision `basis`, the active price and whether
it is approved); `reservation` and `sale` are the rows of the two sales tables,
`status` with the code's own names; `today` is the business date; `expiring` holds
the requests of `expire_reservation` between their read and their lock.  Of the
status histories (`unit_status_events`, `reservation_status_events`) `dated` and
`moved` keep the last effective date, which is all the services ask of them: an
event is never dated before the one it follows.  A sale dates its moves by today at
the latest (`Past`); inventory lets the caller date one ahead.  Each
operation of the services is the action of the same name; the ones that only
differ in an audit text are one action (`revise_quote` stands for
`recalculate`, `create_adjustment` and `update_adjustment`).  A price is a number
of a version and a quote a number of a freeze: what matters is which one a row
holds, not what it adds up to.  The requirement that a quote be approved is a
nondeterministic *breach* of the thresholds.

**`SaleClosing`**: one unit's contracts, one after another, from signature to the
end: `events` is the set of standing milestones of the timeline
(`sale_legal_events` that are not reversed), `case` the latest row of
`sale_cancellations`, `handover` and `cleared` the handover record and its
clearances, `cash` the number of confirmed receipts; `unit` has the three statuses
the services write; `preparing` holds the requests of `create_handover` between
their status check and their lock.

**`SaleLedger`**: one contract's payment plan and its cash: the plan with its
`collections_started` mark, the versions with their schedules (sequences of
amounts in due order), the receipts, the active allocations (a set of rows), the
open restructure, disputes, waivers and the clearance.  The contract itself moves
only as far as plans and cash ask about it.  `Poured` is `plan_carry_forward` in
closed form (a receipt pays of an instalment what the two have in common when
both are laid end to end); `Loop` is the loop as the code has it, and
`PouredAsPreviewed` compares them in every reachable restructure.

**`ConstructionChain`**: one construction contract: `contract`, `variation`,
`certificate`, `invoice` and `payment` are the rows of the five tables with their
lines per cost code, `evidencing` the certificates a certified milestone names.
Amounts are whole units, tax is left out, and a row that was rejected, withdrawn,
reversed or voided is *closed*: no guard reads its figures again, so they are
forgotten.  Retention is kept as the fraction the contract holds back.

**`BudgetControl`**: `code` is the cost breakdown, `budget` and `forecast` the
versions with their lines (a code and what is authorised, or left to spend, on it),
`work` the certificates reduced to the days they stood,
`committed` what contracts commit per code.  Its subject is the forecast's basis:
what `hard_cost_estimate_of` adds up as at the forecast's own cutoff.

**`Programme`**: `milestone` and `depends` are construction's programme; `schedule_of`
one plan's versions with the trigger and actual due date of every instalment;
`attested` the manual trigger events that stand; `transferred` the title's date.
Certifying a milestone dates the instalments that wait on it in one transaction,
so this module joins construction, payment plans and the legal timeline.

**`PriceLifecycle`**: `configuration` and `escalation` are a project's pricing
policies, `price` the versions of one unit's list price with what each comes to and the basis
it was built from, `unit_now` what `pricing_basis` reads of the unit and
`pricing_approved` the flag of its row.  `UnitSale`'s two-step price (cut, activated)
is this life seen from the sale.

**`Cashflow`**: three desks of one module.  `build` (construction forecasts),
`buyer_plan` and `cash_forecast` are the months, frozen on their sources;
`received`, `restriction` and `release` are escrow; `movement` is development cash, and
`reviewing` holds what a confirming person has read before confirming it.

**`UnitEconomics`**: `basis` is the allocation versions with their pools, what each was
calculated from and the units it reaches; `source` is the state of those sources
now; `in_project` the active units.  The division of a pool is arithmetic and left
out: a version is stale or not by what it read.

**`SiteStructure`**: `phase`, `building`, `floor` and `home` are the hierarchy and its
units; a unit stands on a floor or directly on a building, with the place its price
was approved for.  It has what `UnitSale` takes as given, where a unit stands and
whether that may change, and the one bulk operation, an import (`load_row`).

**`Refunds`**: one contract's `deposit`s, cancellation `case`s and `refund`s over a few
business days.  It has the amounts of the end of a sale, `SaleClosing` its order.

**`Commissions`**: the `grant`s of one sale with their shares in order.  A rate counts
`RateUnit`-ths and an amount is rounded half up, as `money` rounds it, so that
rounding leaves something over and `_recalculate` has something to do.

**`Administrators`**: `user` is a user's row with whether its roles include an
administrator's, `request` what each request of `update_user` holds between its
steps.  It is the one module whose operations are several steps, because they are
not ordered by a lock taken first: the user is read, the statement of
`_active_system_admin_ids` begins (`count_admins`) and sees what was committed then,
it waits for the rows others hold and asks again what those rows, of `users`, say
(`AdminIds`), the guard decides, and `update_user` writes and commits.  An operation
that fails, or that the database breaks off, is `rollback`.

**`UnitCommitment`** forgets quotes, prices, dates and paperwork: a unit is off or
on the market, reserved, in contract, signed or returned, held by one deal or
nobody, and a deal that is over never holds again.  `UnitSaleRefinement` maps
`UnitSale` onto it: the deal is the reservation, also after its conversion.

**`VersionOfRecord`** forgets what a document says and what it is checked against: a
version is drafted, submitted, approved and put in force, may be rewritten while it
is open, and the one in force gives way only to a successor.  `Open` is the statuses
in which the service still lets it be rewritten and `Alone` whether a second one may
be prepared beside it.  Each service keeps these rules in its own code, and no two
alike: budgets (`BudgetRecord` in `BudgetControl`), cost bases (`CostRecord`), pricing
policies and list prices (`PolicyRecord`, `ListPriceRecord`) are open as drafts; a
construction forecast (`ForecastRecord`) also once it was rejected; a submitted cash
forecast may still re-read what the buyers will pay (`CashRecord`); policies,
prices and cost bases may be prepared side by side.  Of a policy, a price and a cost
basis the day it ends is not part of what it says: the successor writes it.  The
definitions named `...Status` and `...Content` are what a row is to it.

A definition keeps the source's name where it stands for a function; `PROJECT.json`
maps each to its lines.  Definitions whose comment begins *Mutant of* are wrong on
purpose: each is a plausible bug in an operation, kept to show that a property
notices it, and no specification uses them.

## 3. Runs

Run one with `tlc -config MCUnitSale_rivals.cfg MCUnitSale`.

| Run | Instance | Shows |
| --- | --- | --- |
| `terms` | 1 unit, 1 deal, 2 area revisions, 2 prices, 2 quotes, 2 business days, thresholds and deposit gate | `ContractMatchesQuote`, `SubmittedTermsFrozen`, `TakenAsPriced`, `MarketOnlyThroughGate` |
| `rivals` | 1 unit, 2 reservations, 2 contracts, 2 prices | `ExclusiveCommitment`, `StatusFollowsHolder`, `NoUnitStranded`, and `CommitmentKept`: `UnitSale` implements `UnitCommitment` |
| `keys` | 1 contract, 9 milestones, 2 receipts, every clearance required | `KeysStayGiven`, `LegalStatusEvidenced`, `PaidBeforeKeysAndTitle`, `ApprovedTermsMatchCash`, `CommittedWhileCaseOpen` |
| `plans` | price 3, 3 versions, 3 schedules, 2 receipts, 2 rows per instalment, one contested instalment | `OneGoverningSchedule`, `CashStaysOnSchedule`, `ClearedMeansPaid`, `NoCashTwice`, `PouredAsPreviewed`, `RestructureConserves` |
| `chain` | 1 contract of value 4 with an advance of 1, 1 variation of -2, 2 certificates, 2 invoices, 2 payments, retention one half | `MoneyNests`, `NothingStandsOnAir`, `AdvanceRecoveredWithinPaid` |
| `control` | one desk at a time: 3 cost codes, or 1 code with 2 budgets, 2 forecasts, 1 certificate, 2 days; 3 milestones, or 2 with 2 plan versions; 2 policies and 1 price, or 2 prices of a unit that changes; 2 cash forecasts; 1 receipt with 2 restrictions and 2 releases; 1 movement; 2 cost bases of 2 units over 3 days; 2 phases, 2 buildings, 1 floor and 2 units, one of them never priced; 2 receipts, 2 cases and 2 refunds over 2 days; 2 grants of at most 3 shares; 3 users and 2 requests, of which those that overlap only deactivate | `ControlOfRecord`: budgets and construction forecasts implement `VersionOfRecord`; `AnAdministratorRemains`, `BreakdownIsATree`, `MeasuredAgainstApproved`, `PastBasisStands`, `ProgrammeCanStart`, `DueForAReason`, `DueDateStands`, `OneListPriceADay`, `ApprovedForThisUnit`, `SignedMonthsStand`, `RestrictedIsCovered`, `ConfirmedAsRead`, `PastMarginsStand`, `StandsOnActiveGround`, `MoveEndsApproval`, `RefundsWithinTerms`, `SharesMakeTheWhole` |

The modules of the back office share no table, so `MCBackOffice` picks one of `Desks`
in its initial state and lets only that one work: the state spaces add up where they
would otherwise multiply, and no interleaving is lost because no step of one
desk reads or writes what another holds.

Why these bounds.  Exclusivity is about *two* of a thing and what the first leaves
to the second; two quotes are what it takes for an approval to be given, outlived
and given again; two days, for a date to be due and past, and three for a cost
basis to be in force, succeeded and asked about; three schedule versions for one
to be superseded, one to govern and one to be in preparation; price 3 in
instalments of 1 and 2 is the least in which a receipt is split over instalments
and an instalment over receipts; two certificates, invoices and payments let one
overtake another; three codes or milestones make a cycle that is not a pair.  The
contract of `chain` can be cut to what is already certified (value 4, certified
2 and 2, a variation of -2), and its advance is recovered from either
certificate; retention is withheld in it but released only by 0, because a
release adds a figure to every certificate and changes no guard but the one on
its own size.  `SaleClosing` is checked with one contract; what a second one on
the unit could disturb (`KeysStayGiven`, `CommittedWhileCaseOpen`,
`LegalStatusEvidenced`) is proved for any number.  `rivals` lasts one day, because two
deals over two days are out of TLC's reach: the dates of moves are `terms`' subject,
and `HoldersCanLetGo` proves the ways out with them for any number of days.

In `terms` (`DatedApart`) the moves of a unit and its reservation are dated a day apart
as long as there is one price and one quote; with a second of either, every event is
dated the first day.  No property relates the date of a move to a second price or
quote, and the theorems about the properties of `terms` have no such bound.

In `control` a certificate, and a forecast that leaves 1 rather than 0 to spend, stand
beside one budget and not beside a second; the cost of the land moves under one cost
basis and not under two; a list price comes to 1 or 2 while there is one policy and
it is the only price, and to 1 otherwise: what tells an amount that was rewritten
from one that was not is there beside one version of everything else.

The constants that bound rows and counters are `MaxDay`, `MaxPrices`, `MaxQuotes`
(`UnitSale`), `MaxCash` (`SaleClosing`), `MaxVersions`, `MaxReceipts`, `MaxRows`
(`SaleLedger`), `MaxVariations`, `MaxCertificates`, `MaxInvoices`, `MaxPayments`
(`ConstructionChain`), `MaxBudgets`, `MaxForecasts`, `MaxWorks`, `LastDay`
(`BudgetControl`), `MaxPlanVersions` (`Programme`), `MaxConfigurations`, `MaxPrices`,
`MaxSchedules`, `HorizonDay` (`PriceLifecycle`), `MaxBuilds`, `MaxCashForecasts`,
`MaxBuyerPlans`, `MaxReceived`, `MaxRestrictions`, `MaxReleases`, `MaxMovements`,
`LastCashDay` (`Cashflow`), `MaxBases`, `MaxReadings`, `LastEcoDay` (`UnitEconomics`),
`MaxPhases`, `MaxBuildings`, `MaxFloors`, `MaxHomes` (`SiteStructure`), `MaxDeposits`,
`MaxCases`, `MaxRefunds`, `LastRefundDay` (`Refunds`), `MaxGrants`, `MaxShares`
(`Commissions`).
They appear in guards only where a row would be created or a day would pass.
Symmetry is declared over deals, contracts and area revisions, which the
specifications never order; rows that are numbered are ordered and are not
symmetric.  Deadlock is not checked: a sale may end, and every bound is
eventually reached.

### 3.1 Where the code and its documentation disagree

Six runs check a sentence of the repository and end with a counterexample.

| Run | Sentence | What happens |
| --- | --- | --- |
| `expiry` | "Close a reservation that has run past its expiry date." (`sales/service.py:2599`) | The date is read at 2610 before any lock; an extension committed in between is ignored and the reservation expires early. |
| `early` | the guard exists so that a schedule does not come back "reading as entirely unpaid, with the cash still in the ledger" (`payment_plans/service.py:1526`) | Cash confirmed before the plan exists never marks it, so an ordinary activation leaves the cash on a superseded schedule. `CashStaysOnSchedule` is the part that does hold: cash confirmed while the plan existed. |
| `wedged` | "The refusal names the way through, because there is one" (1531) | With a revision approved before the first receipt is confirmed, activation, restructure, rejection and discarding all refuse. |
| `knot` | "the valuation that recovered it must be corrected first" (`construction/service.py:3461`) | One payment covers the advance and the claim of the certificate that recovered it: payment, invoice and certificate each refuse to be undone until another is. |
| `waiting` | "there is no window in which a milestone is certified and a schedule still waits for it" (`payment_plans/service.py:2576`) | A schedule is activated on a milestone that was certified, or cancelled, before: nothing ever makes its instalment due. |
| `import` | "Inventory withdraws it again when a priced fact about the unit changes — a floor, a feature code, an approved measurement" (`docs/ARCHITECTURE.md:756`) | An import gives an unreleased unit another floor, other feature codes or another approved measurement (`inventory/import_service.py:1616`) and leaves its pricing approved. `MoveEndsApproval` is the part that does hold: every other move withdraws it. |


What `import` shows bounds three claims made elsewhere: `ApprovedPriceDescribesUnit`,
`TakenAsPriced` and `ApprovedForThisUnit` are about units nobody loads a file over; imports
are in `SiteStructure` alone.

Others were met while modelling.  They have no run of their own: the model does
what the code does, and the properties say what holds all the same.

* *Access.*  The lock of `_active_system_admin_ids` is there "so that two concurrent
  requests cannot each observe the other's administrator and both proceed, removing
  the last one between them" (`access/service.py:76`).  It locks rows of `users` (90),
  and the roles are rows of `user_roles`: of two administrators demoted at once, the
  request that waited is given the locked rows unchanged, counts the other by the
  roles its statement saw when it began, and nobody is left; `bootstrap_admin.py` then
  makes a new one from the command line.  TLC finds this when `AccessNext` is checked
  without `Apart`.  Deactivations write the locked row and are ordered as intended,
  and so is a request that works alone: that is what `Apart` leaves.
* *Sales.*  Whether a withdrawal is needed is decided when a case opens
  (`sales/service.py:4143`); a lodging recorded afterwards does not count, against
  3489, and reversing the recorded withdrawal (3780) leaves the case completed,
  against 3639.  `record_legal_event` accepts an event on a cancelled contract
  and writes the status of a unit another one may hold (3683, against 3534).
  `create_handover` reads the contract's status before the lock (4578), so
  `read_for_handover` and `create_handover` are two actions; `KeysStayGiven` shows
  it leads no further.  `advance_cancellation` asks a flag frozen when the case
  opened (4314), where `docs/CANCELLATION_REFUND_CALCULATOR.md:43` says current
  cash; `SettledAtCurrentCash` shows that nothing is settled on old cash.
* *Construction.*  `set_forecast_line` refuses a forecast that "is no longer a draft"
  (`construction/service.py:4270`) but asks for `FORECAST_FROZEN`, which leaves out the
  rejected one (4268); its lines, and what it adds up at a cutoff long past, can be
  rewritten, where a rejected budget is refused (`_require_budget_editable`, 881).
  Nothing takes it up again except as the source of a new draft, so `ControlOfRecord`
  and `PastBasisStands` hold of every other forecast.  `reverse_certificate` does not ask whether a later certificate
  released its retention (`construction/service.py:2762`, against
  `docs/ARCHITECTURE.md:1047`).  An advance invoice needs no committed contract, so
  a draft's entitlement may be lowered below what was claimed.  A forecast
  approved on an approved budget that is rejected afterwards can be neither
  activated nor rejected (4136).  A code may be made active under a retired
  parent (517).  A manual attestation once submitted can never be rejected.
* *Pricing.*  Recoding a building or phase, or changing a custom field's window,
  moves the basis of a price and leaves the unit's pricing approved
  (`inventory/service.py:399-555`); `PriceLifecycle` therefore compares the facts a
  price was built from without the names.  Activating a policy dated before a
  price's day ends the old policy before that price starts (`pricing/service.py:449`).
* *Inventory.*  A unit may go on the market before its release date:
  `transition_commercial_status` asks `release_blockers` as at the caller's
  `effective_date` (`inventory/service.py:1482`), of which only an earlier date than
  the last event's is refused (1411), so that a move dated ahead writes `available`
  now, against "the release date has been set and has arrived" (2515) and "on that
  date the unit goes on sale" (`docs/INVENTORY_LAUNCH.md:8`).  Nobody can take the
  unit meanwhile: `activate_reservation` asks the gate as at today and may not date
  its event before the one it follows; `MarketOnlyThroughGate` says both halves.
  A building or a floor may be made active again under a retired phase or
  building (`inventory/service.py:526`, `651`; only moves ask about the parent).
* *Refunds and commissions.*  Receipts may be reversed once a cancellation is complete
  while the approved refund stays due, by the docstring's own decision
  (`sales/service.py:3959`); `approve_cancellation_terms` does not ask whether the case is
  still open.  Rounding can leave nothing for the last share of a commission, which
  the database then refuses with the whole edit.  `release` lets a master
  administrator release their own draft, and the constraint `checker_differs`
  (`commissions/models.py:95`) does not.
* *Cashflow and unit economics.*  A cash forecast may pin any construction forecast,
  a draft included, and is not called stale when none is in force (396).
  Coverage of a cost basis is asked when it is submitted and not again when it is
  activated (`unit_economics/service.py:1745`).

### 3.2 Fairness and liveness

The specifications state no fairness and the project claims no liveness: every
step of this system is somebody's decision, and the code schedules none of them,
so nothing justifies assuming that an operator ever acts.  What the code does owe
is that a way *exists*.  `NoUnitStranded`, `RevisionHasAWay` and `SomethingCanBeUndone`
say so with `ENABLED` in every reachable state; the first holds, the other two are
refuted above.

## 4. Theorems

TLAPS checks them for any sets of units, deals, codes and milestones, any prices,
amounts, schedules, dates, bounds and policy.

| Module | Theorem | Establishes |
| --- | --- | --- |
| `UnitSaleProofs` | `TypeCorrect`, `Exclusive`, `StatusAgrees`, `GatePriceCurrent` | `TypeOK`, `ExclusiveCommitment`, `StatusFollowsHolder`, `ApprovedPriceDescribesUnit` |
| | `QuoteMatches`, `TermsFrozen`, `TakenAtItsPrice`, `MarketGated` | `ContractMatchesQuote`, `SubmittedTermsFrozen`, `TakenAsPriced`, `MarketOnlyThroughGate` |
| | `ImplementsCommitment` | `CommitmentKept`: `UnitSale` implements `UnitCommitment` |
| | `HoldersCanLetGo` | `WayOut`, the guards that `NoUnitStranded` asks for |
| `SaleClosingProofs` | `TypeCorrect`, `TermsMatchCash`, `UnitCommitted`, `KeysKept`, `EndsSettled`, `PaidFirst`, `StatusEvidenced` | `TypeOK`, `ApprovedTermsMatchCash`, `CommittedWhileCaseOpen`, `KeysStayGiven`, `SettledAtCurrentCash`, `PaidBeforeKeysAndTitle`, `LegalStatusEvidenced` |
| `SaleLedgerProofs` | `TypeCorrect`, `OneSchedule`, `CashStays`, `Cleared`, `PlanKept` | `TypeOK`, `OneGoverningSchedule`, `CashStaysOnSchedule`, `ClearedMeansPaid`, `CollectedPlanKept` |
| | `CashOnce`, `RestructuresConserve`, `PouredInOrder` | `NoCashTwice`, `RestructureConserves`, `PouredAsPreviewed` |
| `ConstructionChainProofs` | `TypeCorrect`, `StandsOnSomething`, `MoneyAlwaysNests`, `AdvanceComesFirst` | `TypeOK`, `NothingStandsOnAir`, `MoneyNests`, `AdvanceRecoveredWithinPaid` |
| `ControlProofs` | `ControlTyped`, `ATree`, `Measured`, `PastStands` | `ControlTypeOK`, `BreakdownIsATree`, `MeasuredAgainstApproved`, `PastBasisStands` |
| | `ControlKeepsRecord` | `ControlOfRecord`: budgets and forecasts implement `VersionOfRecord` |
| | `ProgrammeTyped`, `CanStart`, `DueReason`, `DueStands` | `ProgrammeTypeOK`, `ProgrammeCanStart`, `DueForAReason`, `DueDateStands` |
| | `AccessTyped`, `SomebodyAdministers` | `AccessTypeOK`, `AnAdministratorRemains` while overlapping requests only deactivate |
| `InventoryProofs` | `PriceTyped`, `OnePriceADay`, `ApprovedPrice` | `PriceTypeOK`, `OneListPriceADay`, `ApprovedForThisUnit` |
| | `PricesKeepRecord` | `PricesOfRecord`: policies and list prices implement it |
| | `PlaceTypesKept`, `GroundActiveUnderUnits`, `ApprovalFollowsPlace` | `PlaceTypeOK`, `StandsOnActiveGround`, `MoveEndsApproval` |
| `FinanceProofs` | `EcoTyped`, `PastMargins` | `EcoTypeOK`, `PastMarginsStand` |
| | `RefundTypesKept`, `RefundsFitTheirTerms` | `RefundTypeOK`, `RefundsWithinTerms` |
| | `CashTypesKept`, `EscrowAlwaysCovered`, `SignedMonthsKept`, `ReadAsConfirmed` | `CashTypeOK`, `RestrictedIsCovered`, `SignedMonthsStand`, `ConfirmedAsRead` |
| | `CashKeepsRecord`, `CostsKeepRecord` | `CashOfRecord`, `CostsOfRecord`: cash forecasts and cost bases implement it |
| | `GrantTypesKept`, `SharesAlwaysWhole` | `GrantTypeOK`, `SharesMakeTheWhole` |

A type invariant that is proved is not run as well, nor is what a run already asks in
another form: `ApprovedPriceDescribesUnit` (`TakenAsPriced`, `ApprovedForThisUnit`),
`SettledAtCurrentCash` (`ApprovedTermsMatchCash`), and of the versions of record
`PricesOfRecord`, `CashOfRecord` and `CostsOfRecord` (`ControlOfRecord`).

Assumptions: one per module (`UnitSaleAssumption`, `SaleClosingAssumption`,
`SaleLedgerAssumption`, `ChainAssumption`, `ControlAssumption`, `ProgrammeAssumption`,
`PriceAssumption`, `CashAssumption`, `EconomicsAssumption`, `SiteAssumption`,
`RefundAssumption`, `CommissionAssumption`, `AccessAssumption`), the types of the constants
and the finiteness of the sets a search runs over; TLC evaluates each.

**`SumLemmas`.**  The library's induction theorems take an operator as a parameter,
which the provers cannot instantiate, so `SubsetInduction` takes the *set* of good
subsets instead: a family that has a set whenever it has all its proper subsets
has every finite one.  The fold behind `SumFunctionOnSet` and `SumFunction` removes
elements in an order `CHOOSE` picks; a *walk* is a fold that removes them in any
order, all walks of one table agree, and so a sum does not depend on the order
(`SumWalk`, `SumOrder`).  From there on sums have the laws one expects (`SumAdd`,
`SumUnion`, `SumChange`, `SumWithin`, `SumRenamed`, `TableGrows`, ...), and
`Stepwise` is induction along `0..n`.

**`UnitSaleProofs`.**  Exclusivity is not inductive over the status columns alone:
a reservation is activated because *no record* holds the unit, and a contract is
withdrawn from cancellation because *it* still does.  The invariant adds `Links`
(a row in use refers to rows in use; `activated` is set by activation and by
nothing else) and `Holding`, which reads the two commitment tables and the unit's
column against one another in both directions: whoever is committed has the unit
in the status that goes with it, and a unit in such a status has somebody
committed.  `HoldingFrame` says once that a step which moves neither a commitment
nor a held unit keeps it, and the other lemmas go through the operations.
`ApprovedPriceDescribesUnit` rests on one fact about every step, `PriceStep`: it
keeps the approved price and the measurement, or withdraws the approval, or cuts
a new price from the unit as it stands.  `ContractMatchesQuote` needs what a
contract rests on (`Quotes`): its reservation is past preparation while the
contract is prepared and converted once it is signed, so the only quote that can
still change is one no signed contract reads; and an approved exception names the
quote it was given for.  `SubmittedTermsFrozen`, `TakenAsPriced` and
`MarketOnlyThroughGate` are facts about one step from these invariants.

The refinement: `UnitSaleRefinement` reads the holder of a unit and the deals that
are over off the rows.  `HolderReads` shows, from `Holding` and `Dropped` (a contract
cancelled before signature went with its reservation), that the reading is
one record and the right one; `StepSeen` then maps each step to a rung or to a
stutter.  Steps come in a few shapes, each with a lemma: it *prepares* a
reservation, *keeps* a commitment, is *paperwork* of a contract, *moves* a free unit
through the gate, or is one of the operations that take a unit or let it go.

`NoUnitStranded` itself has `ENABLED` and stays with TLC.  `HoldersCanLetGo` proves
what it comes to: for every held unit there is a reservation whose cancellation
passes its own guard and the guard of the inventory move it asks for, or a contract
that may be cancelled or whose termination may be completed.  That the histories let
it go on the very day needs `NotAhead`: no move of a reservation, or of a unit that
is held or was returned, is dated after today.  Inventory can date one ahead, but
only of a unit nobody holds yet, and who takes that unit dates the event today or
earlier (`TakenDated`).

**`SaleClosingProofs`.**  `Consistent` reads one contract's row by itself (case
against status, clearances and signed terms against cash, handover against both),
`Holding` the contracts against the unit: at most one is live, and the unit says
which kind.  `OneRow` reduces an operation on one contract to its row.  The action
properties follow from the invariant and from `Causes`, which names the only
operation that completes a case, hands over keys or transfers a title.
`StatusEvidenced` is by the timeline alone: every operation that moves a timeline
writes the status derived from it.

**`SaleLedgerProofs`.**  `ClearedMeansPaid` is not inductive alone: an ordinary
activation replaces the schedule under a standing clearance without recalculating.
It is harmless because such an activation happens only with no cash confirmed on
the plan (`PlanMarked`) or no schedule in force, and then whatever was clear
was clear with no cash at all, at the same price (`OneGoverningSchedule`), and no
dispute points at the new version because only issued versions are ever disputed
(`OnIssued`).  `PlanMarked` ties the mark, the plan and its versions together: an
undrawn plan has no versions, cash confirmed while it existed marked it, and only
a marked plan is being restructured.  Most operations are instances of a few
lemmas: `ContractMoves`, `VersionPrepared`, `Activation`, `NoConfirmedCash`,
`AllocationMoves`, `ExceptionMoves`.

The cash is added up in the second half.  `RowsCounted` makes the allocations a
finite table and gives a receipt that was never recorded no rows.  What a receipt
pays of an instalment in a restructure is `Common`, what two stretches of a line
have in common, and `PouredInAll` says that the pieces of a stretch have in common
with another what the whole has.  Applied to receipts and to instalments it gives
both halves of `CarriedInFull`: each receipt has on the new schedule what it had on
the old, and no instalment is given more than it asks.  `NoCashTwice` and
`RestructureConserves` follow.  `PouredAsPreviewed` compares that closed form with
the loop: the functions `LeftAfter` and `Loop` are shown to be the ones that take
the loop's steps (`LeftAfterIs`, `LoopIs`), and `RoomTaken` and `PouredReceipt` show
that the closed form takes them.

**`ConstructionChainProofs`.**  `NothingStandsOnAir` is inductive with the types: the
guards of every reversal ask precisely for what still rests on the row, and every
approval re-asks whether its ground stands.  `MoneyNests` needs one thing more,
`SignedFirst`: nothing is varied or certified before the contract is signed, so
that the lines of a draft can be rewritten, and a draft dropped, without leaving
certified work above a commitment that shrank.  The proof goes down the
chain: a step keeps the commitment (`CommitmentStays`), the certificates
(`CertificatesStay`), the claims (`ClaimsStay`) or the cash (`CashStays`), and each
operation is shown to move only one of them, in the direction its guard measured.

**`ControlProofs`**, cost control.  A tree kept by moving one code at a time needs more
than the guard: `Ancestry` is an intersection of closed sets, and the argument is
the one of the programme below; a code that moves to the top closes no loop, and
`ParentsKnown` (a parent is a row) covers creations.  `PastBasisStands` needs
`RowsComplete`: what a forecast addresses, and the codes of certificates, are rows,
and a row that somebody refers to keeps its kind; and that a line is written only
while the forecast is not `Frozen`.

**`ControlProofs`**, the programme.  `ProgrammeCanStart` says that every set of
milestones has a member that waits on none of the others.  A new dependency of `m`
on `u` is refused when `u` already waits on `m`; so some set contains `u`, is closed
under the old dependencies and lacks `m`.  A set of milestones that meets it has
its first member inside the meeting, and one that does not is not touched by the
new dependency (`AddedKeepsStart`): no counting, no induction over paths.
`DueForAReason` and `DueDateStands` add `NothingToldYet` (a version not yet activated
has no due dates) and `AttestedOnce` (an attestation is of a manual instalment that
was in force, the only one there, and before its approval nothing is due).

**`ControlProofs`**, the administrators.  `SomebodyAdministers` is about `ApartSpec`, the
specification restricted to steps after which requests that overlap are all
deactivations (`Apart`); without it the claim is false, as section 3.1 tells.
`RequestSound` says what a request may still believe after others worked beside it:
its user can have lost, not gained; whom it counted still have the role; and once it
is cleared to take an administrator's place, another administrator is active *whose
row it holds*.  `OthersSound` shows that this survives any step that only takes places
away and respects those rows, which is what `update_user` does when it deactivates;
it is the role, which no row lock covers, that a demotion would take away under it.

**`InventoryProofs`**, prices.  `OneListPriceADay` alone does not say that the version
in force is open-ended and unique; the invariant adds `OneListPrice`: at most one is
active, and once something was superseded one is.  `ApprovedForThisUnit` rests on
the basis being compared again at activation and on every change of a fact
withdrawing the approval.

**`InventoryProofs`**, places.  `StandsOnActiveGround` looks up from a unit to its floor,
building and phase, so a row must refer to rows that are there and a place that was
cleared must have left nothing behind: `RowsStand`.  Retiring a record asks only
about its own children, and a child may come back under a retired parent; but it
comes back empty of active units, and every way for a unit to become active or to
move asks for its whole line of parents.

**`FinanceProofs`**, cost bases.  `BasisHistory`: the version in force has no end, and
once something was superseded one is in force.  A version that is activated then
ends only a window that reaches into today or later, and `PastMarginsStand`, a
property of steps, follows.

**`FinanceProofs`**, refunds.  `RefundsWithinTerms` needs `RecordedInTime`: a refund
belongs to a case that exists and is dated no later than today, so that a new case
has nothing repaid on it.

**`FinanceProofs`**, cash.  `RestrictedIsCovered` speaks of every past day, the guards
only of the tables as they stand.  `EscrowInv` is what the guards keep: every row is
dated no later than today, an escrow is within a confirmed receipt and is the only
one standing on it, releases are within their escrow.  From it a report as at today
is covered (`TodayCovered`), and every operation leaves the reports as at earlier
days what they were, because it dates what it writes today (`PastKept`): so a report
that was covered on its day is covered for ever.

**`FinanceProofs`**, commissions.  `GrantsRated`: a grant has a rate from the start, so that
no shares at all are never taken for shares that make it.  The last share takes what
the others left, and `SharesMakeTheWhole` is then a sum over a sequence.

**Versions of record** (`ControlProofs`, `InventoryProofs`, `FinanceProofs`).  Each of the
six documents is one table of rows, and an operation either leaves the table alone,
which is a stutter, or changes one row of it, or activates.  A lemma per table says
what a step is to `VersionOfRecord` when one row is replaced by another: its status
moves along, or its content does, and the other versions keep theirs.  Each operation
is then one step of its own below, and what it owes is its guard: that a rewriting
asks for a status in `Open`, that a creation finds nothing prepared where `Alone` asks
it (which is why the type invariant is needed: the rows that exist are the only ones
with a status), and that an activation ends exactly what was in force.

### 4.1 Only model-checked

* `NoUnitStranded`, for its `ENABLED`; `HoldersCanLetGo` proves the guards inside it.
* The properties of the six runs that end with a counterexample, of course.

Every other property a run checks is proved, in the same words.

## 5. What is left out, and why

* *People*: roles, visibility and the maker/checker rules.  They restrict who may
  take a step; every property here holds whoever takes it.
* *Arithmetic*: the calculation of prices, taxes, currencies and rounding.  A model of a quote asks
  which inputs it was computed from, not what it comes to; a cost basis, likewise.
  In `SaleLedger`, `ConstructionChain`, `Cashflow` and `Refunds` amounts are whole units,
  enough for sums, splits and comparisons; `Commissions` rounds as the code does.
* *Idempotency keys* (`creation_request_id`), numbering, audit texts and e-mails.
* *The owner override* of `sales/registration.py`, which registers a historic sale
  past the gates, and `sales/removal.py`, which takes a mistaken one out again.
* *Parties and shares* of a contract.
* *Two contracts on one unit* in `SaleLedger`: it sees one contract, whose
  cancellation it lets complete slightly more freely than the code; what the code
  demands there is `SaleClosing`'s subject.  `SaleClosing` counts receipts instead of
  amounts.
* *Reversed and superseded allocation rows* are history no guard reads.
* *Cashflow*: financing movements, funding windows, returns and forecast accuracy.
  The `release_date` a caller names (`cashflow/service.py:2040`, `schemas.py:346`, not
  compared with anything) is not modelled either, although the reports place a release
  by it (2907, 3033).  As at a cutoff a release counts if it was confirmed by then and
  is dated by then, and the model asks only the first, so that what it counts as freed
  is an upper bound and `RestrictedIsCovered` holds of the code.  It says nothing of
  the months *inside* a bridge: a release dated back may stand there before the
  receipt it frees.
* *Pricing*: premium rules, benchmarks and the arithmetic of an escalation; a price's
  components are one total, and an override (`update_price_version`) makes it another.
* *Access*: sessions, passwords and the roles below an administrator's.
* The components marked `not_modelled` in `PROJECT.json`: registers, reads, snapshots
  and front ends over the modelled operations.

## 6. Plan

1. Two contracts on one unit and its collection status: a composition of
   `SaleClosing` and `SaleLedger`.
2. Projects' permits, settings, consultants' payments, financing movements.
3. Proofs: for what items 1 and 2 add.
