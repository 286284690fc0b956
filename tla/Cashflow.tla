------------------------------ MODULE Cashflow ------------------------------
(***************************************************************************)
(* The project's cash: app/modules/cashflow/service.py.  A forecast of the *)
(* months, frozen on its sources and signed; restricted buyer cash and its *)
(* releases; development cash recorded by one person and confirmed by      *)
(* another.                                                                *)
(*                                                                         *)
(* Every operation takes the project lock and is one action, except that a *)
(* confirmation from the pre-launch desk is made on values read earlier.   *)
(* Construction's forecasts, the plans and the receipts move here only as  *)
(* cashflow sees them.  A date is a number, 0 when not set.  Who decides,  *)
(* currencies and the arithmetic of the months are left out.               *)
(***************************************************************************)
EXTENDS Naturals, FiniteSets, Functions

CONSTANTS
    MaxBuilds, MaxCashForecasts, MaxBuyerPlans,
    MaxReceived, MaxRestrictions, MaxReleases, MaxMovements,
    Sums,           \* amounts of cash
    LastCashDay

ASSUME CashAssumption ==
    /\ {MaxBuilds, MaxCashForecasts, MaxBuyerPlans, MaxReceived, MaxRestrictions,
        MaxReleases, MaxMovements} \subseteq Nat
    /\ Sums \subseteq Nat \ {0} /\ LastCashDay \in Nat \ {0}

VARIABLES
    build,          \* construction_forecast_versions: the cost left to spend
    buyer_plan,     \* payment_plan_versions: when each governed
    cash_forecast,  \* cashflow_forecast_versions, their lines and snapshot
    received,       \* collection_receipts
    restriction,    \* cashflow_receipt_restrictions
    release,        \* cashflow_restriction_releases
    movement,       \* cashflow_development_movements
    reviewing,      \* per movement, the amount a confirming desk has read
    cash_day        \* the business day

forecastVars == <<build, buyer_plan, cash_forecast>>
escrowVars == <<received, restriction, release>>
movementVars == <<movement, reviewing>>
cashVars == <<forecastVars, escrowVars, movementVars, cash_day>>

-----------------------------------------------------------------------------
(* Rows *)

Builds == 1..MaxBuilds
CashForecasts == 1..MaxCashForecasts
BuyerPlans == 1..MaxBuyerPlans
ReceivedCash == 1..MaxReceived
Restrictions == 1..MaxRestrictions
Releases == 1..MaxReleases
Movements == 1..MaxMovements
CashDays == 1..LastCashDay
MaybeDay == {0} \cup CashDays

\* left: the remaining cost of the one cost code.  preparing stands for every
\* status before activation.
BuildRow == [status : {"none", "preparing", "active", "superseded"}, left : Nat]

\* dated: its instalments have a date to be placed on.
BuyerPlanRow == [from : MaybeDay, to : MaybeDay, dated : BOOLEAN]

CashForecastRow ==
    [status : {"none", "draft", "submitted", "approved", "active", "superseded",
               "rejected"},
     as_of : MaybeDay, pin : {0} \cup Builds, scheduled : {0} \cup Sums,
     snapshot : SUBSET BuyerPlans]

\* MOVEMENT_STATUSES, with the days it was confirmed and reversed.
MoneyRow(fields) ==
    [amount : {0} \cup Sums, confirmed : MaybeDay, reversed : MaybeDay, on : fields]
MovementRow == [status : {"none", "recorded", "confirmed", "reversed"}, amount : {0} \cup Sums]

NoBuild == [status |-> "none", left |-> 0]
NoBuyerPlan == [from |-> 0, to |-> 0, dated |-> FALSE]
NoCashForecast ==
    [status |-> "none", as_of |-> 0, pin |-> 0, scheduled |-> 0, snapshot |-> {}]
NoMoney == [amount |-> 0, confirmed |-> 0, reversed |-> 0, on |-> 0]
NoMovement == [status |-> "none", amount |-> 0]

-----------------------------------------------------------------------------
(* What the service reads *)

\* standing_conditions on day d: confirmed by its end and not reversed by it.
Stands(row, d) ==
    row.confirmed \in 1..d /\ (row.reversed = 0 \/ row.reversed > d)

Recorded(row) == row.amount # 0 /\ row.reversed = 0

\* version_governing_on
GoverningOn(d) ==
    {p \in BuyerPlans : buyer_plan[p].from \in 1..d
                     /\ (buyer_plan[p].to = 0 \/ buyer_plan[p].to > d)}

BuildInForce == {b \in Builds : build[b].status = "active"}
CashForecastInForce == {v \in CashForecasts : cash_forecast[v].status = "active"}
OpenCashForecast ==
    {v \in CashForecasts : cash_forecast[v].status \in {"draft", "submitted", "approved"}}

\* _write_customer_snapshot: an instalment with no date of any kind is left out.
Placed(d) == {p \in GoverningOn(d) : buyer_plan[p].dated}

\* source_staleness
BuildMoved(v) == \E b \in BuildInForce : b # cash_forecast[v].pin
SchedulesMoved(v) == cash_forecast[v].snapshot # GoverningOn(cash_forecast[v].as_of)

\* _require_ready_for_governance: sources, unplaced instalments, reconciliation.
Ready(v) ==
    /\ ~BuildMoved(v)
    /\ ~SchedulesMoved(v)
    /\ \A p \in GoverningOn(cash_forecast[v].as_of) : buyer_plan[p].dated
    /\ cash_forecast[v].scheduled = build[cash_forecast[v].pin].left

ReleasedAgainst(e, but) ==
    SumFunction([l \in {k \in Releases \ but : release[k].on = e /\ Recorded(release[k])}
                    |-> release[l].amount])

\* What a report as at day d counts of receipt r: escrow that stood, on a receipt
\* that did, and the releases of it that stood.
RestrictionCounts(e, d) ==
    Stands(restriction[e], d) /\ Stands(received[restriction[e].on], d)
Holding(r, d) == {e \in Restrictions : restriction[e].on = r /\ RestrictionCounts(e, d)}
Freeing(r, d) == {l \in Releases : release[l].on \in Holding(r, d) /\ Stands(release[l], d)}
HeldAt(r, d) == SumFunction([e \in Holding(r, d) |-> restriction[e].amount])
FreedAt(r, d) == SumFunction([l \in Freeing(r, d) |-> release[l].amount])

CashInit ==
    /\ build = [b \in Builds |-> NoBuild]
    /\ buyer_plan = [p \in BuyerPlans |-> NoBuyerPlan]
    /\ cash_forecast = [v \in CashForecasts |-> NoCashForecast]
    /\ received = [r \in ReceivedCash |-> NoMoney]
    /\ restriction = [e \in Restrictions |-> NoMoney]
    /\ release = [l \in Releases |-> NoMoney]
    /\ movement = [m \in Movements |-> NoMovement]
    /\ reviewing = [m \in Movements |-> 0]
    /\ cash_day = 1

-----------------------------------------------------------------------------
(* Cashflow forecasts *)

ChangeCashForecast(v, row) ==
    /\ cash_forecast' = [cash_forecast EXCEPT ![v] = row]
    /\ UNCHANGED <<build, buyer_plan, escrowVars, movementVars, cash_day>>

\* The construction forecast is a named one, or else the one in force.
create_cash_forecast(v, as_of, b) ==
    /\ \A w \in CashForecasts : (w < v) <=> cash_forecast[w].status # "none"
    /\ as_of <= cash_day
    /\ OpenCashForecast = {}
    /\ build[b].status # "none"
    /\ ChangeCashForecast(v, [status |-> "draft", as_of |-> as_of, pin |-> b,
                              scheduled |-> 0, snapshot |-> Placed(as_of)])

refresh_customer_snapshot(v) ==
    /\ cash_forecast[v].status \in {"draft", "submitted"}
    /\ ChangeCashForecast(v,
          [cash_forecast[v] EXCEPT !.snapshot = Placed(cash_forecast[v].as_of)])

\* set_forecast_line, and remove_forecast_line where the amount is 0.
set_cash_line(v, amount) ==
    /\ cash_forecast[v].status = "draft"
    /\ ChangeCashForecast(v, [cash_forecast[v] EXCEPT !.scheduled = amount])

submit_cash_forecast(v) ==
    /\ cash_forecast[v].status = "draft"
    /\ Ready(v)
    /\ ChangeCashForecast(v, [cash_forecast[v] EXCEPT !.status = "submitted"])

approve_cash_forecast(v) ==
    /\ cash_forecast[v].status = "submitted"
    /\ Ready(v)
    /\ ChangeCashForecast(v, [cash_forecast[v] EXCEPT !.status = "approved"])

\* reject_forecast, which also withdraws an approval, and discard_forecast.
reject_cash_forecast(v) ==
    /\ v \in OpenCashForecast
    /\ ChangeCashForecast(v, [cash_forecast[v] EXCEPT !.status = "rejected"])

Supersede(v) ==
    /\ cash_forecast' = [w \in CashForecasts |->
          IF w = v THEN [cash_forecast[w] EXCEPT !.status = "active"]
          ELSE IF w \in CashForecastInForce
          THEN [cash_forecast[w] EXCEPT !.status = "superseded"]
          ELSE cash_forecast[w]]
    /\ UNCHANGED <<build, buyer_plan, escrowVars, movementVars, cash_day>>

\* Mutant of activate_cash_forecast: what was signed is not proved again.
ActivateAsSigned(v) ==
    /\ cash_forecast[v].status = "approved"
    /\ Supersede(v)

activate_cash_forecast(v) ==
    /\ cash_forecast[v].status = "approved"
    /\ Ready(v)
    /\ Supersede(v)

-----------------------------------------------------------------------------
(* Restricted cash *)

ChangeRestriction(e, row) ==
    /\ restriction' = [restriction EXCEPT ![e] = row]
    /\ UNCHANGED <<forecastVars, received, release, movementVars, cash_day>>

NewRestriction(e, r, amount) ==
    /\ \A f \in Restrictions : (f < e) <=> restriction[f].amount # 0
    /\ received[r].confirmed # 0 /\ received[r].reversed = 0
    /\ amount <= received[r].amount
    /\ ChangeRestriction(e, [NoMoney EXCEPT !.amount = amount, !.on = r])

\* Mutant of record_restriction: another one on the receipt is not looked for.
RestrictTwice(e, r, amount) == NewRestriction(e, r, amount)

record_restriction(e, r, amount) ==
    /\ \A f \in Restrictions : ~(restriction[f].on = r /\ Recorded(restriction[f]))
    /\ NewRestriction(e, r, amount)

\* The receipt behind it is not asked again.
confirm_restriction(e) ==
    /\ Recorded(restriction[e]) /\ restriction[e].confirmed = 0
    /\ ChangeRestriction(e, [restriction[e] EXCEPT !.confirmed = cash_day])

reverse_restriction(e) ==
    /\ Recorded(restriction[e])
    /\ \A l \in Releases : ~(release[l].on = e /\ Recorded(release[l]))
    /\ ChangeRestriction(e, [restriction[e] EXCEPT !.reversed = cash_day])

ChangeRelease(l, row) ==
    /\ release' = [release EXCEPT ![l] = row]
    /\ UNCHANGED <<forecastVars, received, restriction, movementVars, cash_day>>

\* The caller's release_date, by which the reports place a release, is left out: as at
\* a cutoff a release can only count less for it, and so free less.
record_release(l, e, amount) ==
    /\ \A k \in Releases : (k < l) <=> release[k].amount # 0
    /\ restriction[e].confirmed # 0 /\ restriction[e].reversed = 0
    /\ ReleasedAgainst(e, {}) + amount <= restriction[e].amount
    /\ ChangeRelease(l, [NoMoney EXCEPT !.amount = amount, !.on = e])

\* The ceiling again; the restriction's status is not.
confirm_release(l) ==
    /\ Recorded(release[l]) /\ release[l].confirmed = 0
    /\ ReleasedAgainst(release[l].on, {l}) + release[l].amount
          <= restriction[release[l].on].amount
    /\ ChangeRelease(l, [release[l] EXCEPT !.confirmed = cash_day])

reverse_release(l) ==
    /\ Recorded(release[l])
    /\ ChangeRelease(l, [release[l] EXCEPT !.reversed = cash_day])

-----------------------------------------------------------------------------
(* Development cash *)

ChangeMovement(m, row) ==
    /\ movement' = [movement EXCEPT ![m] = row]
    /\ UNCHANGED <<forecastVars, escrowVars, cash_day>>

record_movement(m, amount) ==
    /\ movement[m].status = "none"
    /\ ChangeMovement(m, [status |-> "recorded", amount |-> amount])
    /\ UNCHANGED reviewing

\* correct_prelaunch_expense; its removal is reverse_movement.
correct_prelaunch_expense(m, amount) ==
    /\ movement[m].status = "recorded"
    /\ ChangeMovement(m, [movement[m] EXCEPT !.amount = amount])
    /\ UNCHANGED reviewing

\* The desk reads the entry it will confirm.
review_movement(m) ==
    /\ movement[m].status = "recorded"
    /\ reviewing' = [reviewing EXCEPT ![m] = movement[m].amount]
    /\ UNCHANGED <<forecastVars, escrowVars, movement, cash_day>>

Confirmed(m) ==
    /\ movement[m].status = "recorded"
    /\ ChangeMovement(m, [movement[m] EXCEPT !.status = "confirmed"])

\* Mutant of confirm_expected: the values read are not compared.
ConfirmUnread(m) ==
    /\ reviewing[m] # 0
    /\ Confirmed(m)
    /\ reviewing' = [reviewing EXCEPT ![m] = 0]

\* confirm_development_movement with the values the desk expects.
confirm_expected(m) ==
    /\ reviewing[m] # 0
    /\ movement[m].amount = reviewing[m]
    /\ Confirmed(m)
    /\ reviewing' = [reviewing EXCEPT ![m] = 0]

\* Without: the cashflow screen sends none.
confirm_movement(m) == Confirmed(m) /\ UNCHANGED reviewing

\* The request is refused, or never sent.
give_up(m) ==
    /\ reviewing[m] # 0
    /\ reviewing' = [reviewing EXCEPT ![m] = 0]
    /\ UNCHANGED <<forecastVars, escrowVars, movement, cash_day>>

reverse_movement(m) ==
    /\ movement[m].status \in {"recorded", "confirmed"}
    /\ ChangeMovement(m, [movement[m] EXCEPT !.status = "reversed"])
    /\ UNCHANGED reviewing

-----------------------------------------------------------------------------
(* The sources, as far as cashflow sees them *)

ChangeBuild(new) ==
    /\ build' = new
    /\ UNCHANGED <<buyer_plan, cash_forecast, escrowVars, movementVars, cash_day>>

\* A construction forecast is opened, or its line rewritten while it is a draft.
prepare_build(b, left) ==
    /\ build[b].status \in {"none", "preparing"}
    /\ \A c \in Builds : c < b => build[c].status # "none"
    /\ ChangeBuild([build EXCEPT ![b] = [status |-> "preparing", left |-> left]])

activate_build(b) ==
    /\ build[b].status = "preparing"
    /\ ChangeBuild([c \in Builds |->
          IF c = b THEN [build[c] EXCEPT !.status = "active"]
          ELSE IF c \in BuildInForce THEN [build[c] EXCEPT !.status = "superseded"]
          ELSE build[c]])

ChangeBuyerPlan(new) ==
    /\ buyer_plan' = new
    /\ UNCHANGED <<build, cash_forecast, escrowVars, movementVars, cash_day>>

\* A version of the buyer's plan is activated over the one that governs.
activate_buyer_plan(p, dated) ==
    /\ \A q \in BuyerPlans : (q < p) <=> buyer_plan[q].from # 0
    /\ ChangeBuyerPlan([q \in BuyerPlans |->
          IF q = p THEN [from |-> cash_day, to |-> 0, dated |-> dated]
          ELSE IF buyer_plan[q].from # 0 /\ buyer_plan[q].to = 0
          THEN [buyer_plan[q] EXCEPT !.to = cash_day] ELSE buyer_plan[q]])

\* A trigger, or a forecast of one, gives its instalment a date.
date_instalment(p) ==
    /\ buyer_plan[p].from # 0 /\ ~buyer_plan[p].dated
    /\ ChangeBuyerPlan([buyer_plan EXCEPT ![p].dated = TRUE])

ChangeReceived(r, row) ==
    /\ received' = [received EXCEPT ![r] = row]
    /\ UNCHANGED <<forecastVars, restriction, release, movementVars, cash_day>>

receive(r, amount) ==
    /\ received[r] = NoMoney
    /\ ChangeReceived(r, [NoMoney EXCEPT !.amount = amount, !.confirmed = cash_day])

\* collections does not ask whether the cash is held in escrow.
reverse_received(r) ==
    /\ received[r].confirmed # 0 /\ received[r].reversed = 0
    /\ ChangeReceived(r, [received[r] EXCEPT !.reversed = cash_day])

next_cash_day ==
    /\ cash_day < LastCashDay
    /\ cash_day' = cash_day + 1
    /\ UNCHANGED <<forecastVars, escrowVars, movementVars>>

-----------------------------------------------------------------------------
MonthsNext ==
    \/ \E v \in CashForecasts :
          \/ \E as_of \in CashDays, b \in Builds : create_cash_forecast(v, as_of, b)
          \/ \E amount \in {0} \cup Sums : set_cash_line(v, amount)
          \/ refresh_customer_snapshot(v) \/ submit_cash_forecast(v)
          \/ approve_cash_forecast(v) \/ reject_cash_forecast(v)
          \/ activate_cash_forecast(v)
    \/ \E b \in Builds :
          \/ \E left \in Sums : prepare_build(b, left)
          \/ activate_build(b)
    \/ \E p \in BuyerPlans :
          \/ \E dated \in BOOLEAN : activate_buyer_plan(p, dated)
          \/ date_instalment(p)
    \/ next_cash_day

EscrowNext ==
    \/ \E r \in ReceivedCash :
          \/ \E amount \in Sums : receive(r, amount)
          \/ reverse_received(r)
          \/ \E e \in Restrictions, amount \in Sums : record_restriction(e, r, amount)
    \/ \E e \in Restrictions :
          \/ confirm_restriction(e) \/ reverse_restriction(e)
          \/ \E l \in Releases, amount \in Sums : record_release(l, e, amount)
    \/ \E l \in Releases : confirm_release(l) \/ reverse_release(l)
    \/ next_cash_day

MovementNext ==
    \E m \in Movements :
        \/ \E amount \in Sums : record_movement(m, amount) \/ correct_prelaunch_expense(m, amount)
        \/ review_movement(m) \/ confirm_expected(m) \/ confirm_movement(m)
        \/ give_up(m) \/ reverse_movement(m)

CashNext == MonthsNext \/ EscrowNext \/ MovementNext

CashSpec == CashInit /\ [][CashNext]_cashVars

-----------------------------------------------------------------------------
(* Properties *)

\* Every table keeps its columns' types.
CashTypeOK ==
    /\ build \in [Builds -> BuildRow]
    /\ buyer_plan \in [BuyerPlans -> BuyerPlanRow]
    /\ cash_forecast \in [CashForecasts -> CashForecastRow]
    /\ received \in [ReceivedCash -> MoneyRow({0})]
    /\ restriction \in [Restrictions -> MoneyRow({0} \cup ReceivedCash)]
    /\ release \in [Releases -> MoneyRow({0} \cup Restrictions)]
    /\ movement \in [Movements -> MovementRow]
    /\ reviewing \in [Movements -> {0} \cup Sums]
    /\ cash_day \in CashDays

\* As at every day so far, and for every receipt, what was released lies within what
\* was restricted and that within what was received: no sequence of confirmations and
\* reversals leaves a report with usable cash the project does not have.
RestrictedIsCovered ==
    \A d \in 1..cash_day : \A r \in ReceivedCash :
        /\ FreedAt(r, d) <= HeldAt(r, d)
        /\ HeldAt(r, d) <= (IF Stands(received[r], d) THEN received[r].amount ELSE 0)

\* A forecast is in force as it was signed, and on what governed when it came in
\* force: after approval its months and sources never change, and one whose
\* sources moved while it waited for a signature is not activated.
SignedMonthsStand ==
    [][\A v \in CashForecasts :
          LET was == cash_forecast[v]  is == cash_forecast'[v] IN
          /\ was.status \in {"approved", "active", "superseded"}
                => [is EXCEPT !.status = "draft"] = [was EXCEPT !.status = "draft"]
          /\ was.status # "active" /\ is.status = "active"
                => /\ BuildInForce \subseteq {is.pin}
                   /\ is.snapshot = GoverningOn(is.as_of)
                   /\ is.scheduled = build[is.pin].left]_cashVars

\* An expense that is corrected while a second person is about to confirm it is not
\* confirmed on the strength of what that person had read.
ConfirmedAsRead ==
    [][\A m \in Movements :
          reviewing[m] # 0 /\ reviewing'[m] = 0 /\ movement'[m] # movement[m]
            => movement'[m].amount = reviewing[m]]_cashVars

\* What a forecast is to VersionOfRecord.
CashStatus == [v \in CashForecasts |-> cash_forecast[v].status]
CashContent ==
    [v \in CashForecasts |->
        <<cash_forecast[v].as_of, cash_forecast[v].pin, cash_forecast[v].scheduled,
          cash_forecast[v].snapshot>>]

CashRecord == INSTANCE VersionOfRecord
    WITH Versions <- CashForecasts, Open <- {"draft", "submitted"}, Alone <- TRUE,
         status <- CashStatus, content <- CashContent

\* Cash forecasts are versions of record, one in preparation at a time; what the
\* buyers will pay may still be read again while a forecast is submitted.
CashOfRecord == CashRecord!Spec
=============================================================================
