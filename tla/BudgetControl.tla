---------------------------- MODULE BudgetControl ----------------------------
(***************************************************************************)
(* The control side of construction: app/modules/construction/service.py,  *)
(* cost codes, budget versions and forecasts, and the certified work a     *)
(* forecast is measured against as at its own cutoff.                      *)
(*                                                                         *)
(* Every operation takes the project lock and is one action.  What the     *)
(* contracts commit per code, and the certificates, are ConstructionChain; *)
(* here they are a figure per code and the days a certificate stood.       *)
(* Version numbers are given in order.  Who decides is left out.           *)
(***************************************************************************)
EXTENDS Naturals, FiniteSets, Functions

CONSTANTS
    Codes,          \* cost codes
    MaxBudgets, MaxForecasts, MaxWorks,
    Authorised,     \* amounts a budget line may authorise
    Remaining,      \* amounts a forecast line may leave to spend
    LastDay         \* the last business day

ASSUME ControlAssumption ==
    /\ IsFiniteSet(Codes) /\ Codes \subseteq Nat \ {0}
    /\ MaxBudgets \in Nat /\ MaxForecasts \in Nat /\ MaxWorks \in Nat
    /\ Authorised \subseteq Nat /\ LastDay \in Nat \ {0}

VARIABLES
    code,           \* construction_cost_codes
    committed,      \* committed_by_cost_code
    budget,         \* construction_budget_versions, with their lines
    forecast,       \* construction_forecast_versions, with their lines
    work,           \* certificates: the code, and the days it was certified
                    \* and reversed
    today           \* the business day

controlVars == <<code, committed, budget, forecast, work, today>>

-----------------------------------------------------------------------------
(* Rows *)

Budgets == 1..MaxBudgets
Forecasts == 1..MaxForecasts
Works == 1..MaxWorks
Days == 1..LastDay

\* parent = 0 is the top of the breakdown; day = 0 is a date not set.
CodeRow == [status : {"none", "active", "retired"}, parent : {0} \cup Codes, hard : BOOLEAN]
BudgetRow ==
    [status : {"none", "draft", "submitted", "approved", "active", "superseded",
               "rejected"},
     effective : {0} \cup Days, lines : UNION {[D -> Authorised] : D \in SUBSET Codes}]
ForecastRow ==
    [status : {"none", "draft", "submitted", "approved", "active", "superseded",
               "rejected"},
     budget : {0} \cup Budgets, as_of : {0} \cup Days,
     lines : UNION {[D -> Remaining] : D \in SUBSET Codes}]
WorkRow == [code : {0} \cup Codes, certified : {0} \cup Days, reversed : {0} \cup Days]

NoCode == [status |-> "none", parent |-> 0, hard |-> TRUE]
NoBudget == [status |-> "none", effective |-> 0, lines |-> [c \in {} |-> 0]]
NoForecast == [status |-> "none", budget |-> 0, as_of |-> 0, lines |-> [c \in {} |-> 0]]
NoWork == [code |-> 0, certified |-> 0, reversed |-> 0]

-----------------------------------------------------------------------------
(* What the service reads *)

Known == {c \in Codes : code[c].status # "none"}
Live == {c \in Codes : code[c].status = "active"}

\* The chain of parents above c, c included.
Ancestry(c) ==
    {d \in Codes : \A S \in SUBSET Codes :
        c \in S /\ (\A x \in S : code[x].parent # 0 => code[x].parent \in S) => d \in S}

InForce == {b \in Budgets : budget[b].status = "active"}
InPreparation == {b \in Budgets : budget[b].status \in {"draft", "submitted", "approved"}}
ForecastInForce == {f \in Forecasts : forecast[f].status = "active"}
ForecastInPreparation ==
    {f \in Forecasts : forecast[f].status \in {"draft", "submitted", "approved"}}

\* FORECAST_FROZEN: a rejected forecast is not among them, as a rejected budget is
\* (_require_budget_editable).
Frozen(f) == forecast[f].status \in {"submitted", "approved", "active", "superseded"}

\* FORECAST_GOVERNED_BUDGETS
Governed(b) == budget[b].status \in {"approved", "active", "superseded"}

\* Mutant of StandingAt: the status of now.
StandingNow(k, day) == work[k].certified # 0 /\ work[k].reversed = 0

\* standing_conditions: certified by the end of the day, and not reversed by it.
StandingAt(k, day) ==
    /\ work[k].certified \in 1..day
    /\ work[k].reversed = 0 \/ work[k].reversed > day

\* What hard_cost_estimate_of adds up: the forecast's own hard-cost lines, and
\* the hard-cost work certified at its cutoff.
Basis(f) ==
    <<Restrict(forecast[f].lines, {c \in DOMAIN forecast[f].lines : code[c].hard}),
      {k \in Works : StandingAt(k, forecast[f].as_of) /\ code[work[k].code].hard}>>

\* _cost_code_is_referenced
Referenced(c) ==
    \/ committed[c] > 0
    \/ \E b \in Budgets : c \in DOMAIN budget[b].lines
    \/ \E k \in Works : work[k].code = c
    \/ \E f \in Forecasts : c \in DOMAIN forecast[f].lines

ControlInit ==
    /\ code = [c \in Codes |-> NoCode]
    /\ committed = [c \in Codes |-> 0]
    /\ budget = [b \in Budgets |-> NoBudget]
    /\ forecast = [f \in Forecasts |-> NoForecast]
    /\ work = [k \in Works |-> NoWork]
    /\ today = 1

-----------------------------------------------------------------------------
(* Cost codes *)

ChangeCode(c, row) ==
    /\ code' = [code EXCEPT ![c] = row]
    /\ UNCHANGED <<committed, budget, forecast, work, today>>

create_cost_code(c, parent, hard) ==
    /\ c \notin Known
    /\ parent \in Known \cup {0}
    /\ ChangeCode(c, [status |-> "active", parent |-> parent, hard |-> hard])

\* Mutant of reparent_cost_code: only the direct loops are looked for.
ReparentAnywhere(c, parent) ==
    /\ c \in Known /\ parent \in Known
    /\ c # parent /\ code[parent].parent # c
    /\ ChangeCode(c, [code[c] EXCEPT !.parent = parent])

\* update_cost_code: another place in the breakdown, or its top.
reparent_cost_code(c, parent) ==
    /\ c \in Known /\ parent \in Known \cup {0}
    /\ parent # 0 => c \notin Ancestry(parent)
    /\ ChangeCode(c, [code[c] EXCEPT !.parent = parent])

\* update_cost_code: another category.
recategorise_cost_code(c) ==
    /\ c \in Known
    /\ ~Referenced(c)
    /\ ChangeCode(c, [code[c] EXCEPT !.hard = ~@])

retire_cost_code(c) ==
    /\ c \in Live
    /\ \A d \in Live : code[d].parent # c
    /\ ChangeCode(c, [code[c] EXCEPT !.status = "retired"])

-----------------------------------------------------------------------------
(* Budgets *)

ChangeBudget(b, row) ==
    /\ budget' = [budget EXCEPT ![b] = row]
    /\ UNCHANGED <<code, committed, forecast, work, today>>

\* A version has one line for a code.
WithLine(lines, c, amount) ==
    [d \in DOMAIN lines \cup {c} |-> IF d = c THEN amount ELSE lines[d]]

NextBudget(b) ==
    \A a \in Budgets : (a < b => budget[a].status # "none")
                    /\ (a >= b => budget[a].status = "none")

\* The lines come from a named version, from the one in force, or from nothing.
create_budget(b, effective, source) ==
    /\ NextBudget(b)
    /\ InPreparation = {}
    /\ InForce # {} => effective >= today
    /\ \/ source # 0 /\ budget[source].status # "none"
       \/ source = 0 /\ InForce = {}
    /\ ChangeBudget(b, [status |-> "draft", effective |-> effective,
                        lines |-> IF source = 0 THEN NoBudget.lines
                                  ELSE budget[source].lines])

set_budget_line(b, c, amount) ==
    /\ budget[b].status = "draft"
    /\ c \in Live
    /\ ChangeBudget(b, [budget[b] EXCEPT !.lines = WithLine(@, c, amount)])

remove_budget_line(b, c) ==
    /\ budget[b].status = "draft"
    /\ c \in DOMAIN budget[b].lines
    /\ committed[c] = 0
    /\ ChangeBudget(b, [budget[b] EXCEPT !.lines = Restrict(@, DOMAIN @ \ {c})])

Covers(b) == Live \subseteq DOMAIN budget[b].lines

submit_budget(b) ==
    /\ budget[b].status = "draft"
    /\ DOMAIN budget[b].lines # {}
    /\ Covers(b)
    /\ ChangeBudget(b, [budget[b] EXCEPT !.status = "submitted"])

approve_budget(b) ==
    /\ budget[b].status = "submitted"
    /\ ChangeBudget(b, [budget[b] EXCEPT !.status = "approved"])

\* Mutant of reject_budget: the forecast in force is not asked.
RejectBasis(b) ==
    /\ budget[b].status \in {"submitted", "approved"}
    /\ ChangeBudget(b, [budget[b] EXCEPT !.status = "rejected"])

reject_budget(b) ==
    /\ budget[b].status \in {"submitted", "approved"}
    /\ \A f \in ForecastInForce : forecast[f].budget # b
    /\ ChangeBudget(b, [budget[b] EXCEPT !.status = "rejected"])

activate_budget(b) ==
    /\ budget[b].status = "approved"
    /\ Covers(b)
    /\ budget[b].effective <= today
    /\ \A c \in Codes : committed[c] > 0 =>
          c \in DOMAIN budget[b].lines /\ committed[c] <= budget[b].lines[c]
    /\ budget' = [a \in Budgets |->
          IF a = b THEN [budget[a] EXCEPT !.status = "active"]
          ELSE IF a \in InForce THEN [budget[a] EXCEPT !.status = "superseded"]
          ELSE budget[a]]
    /\ UNCHANGED <<code, committed, forecast, work, today>>

-----------------------------------------------------------------------------
(* Forecasts *)

ChangeForecast(f, row) ==
    /\ forecast' = [forecast EXCEPT ![f] = row]
    /\ UNCHANGED <<code, committed, budget, work, today>>

NextForecast(f) ==
    \A g \in Forecasts : (g < f => forecast[g].status # "none")
                      /\ (g >= f => forecast[g].status = "none")

\* A replacement starts from a named forecast or, if none is named, from the one in
\* force, and not before the cutoff of the one it starts from.
create_forecast(f, b, as_of, source) ==
    /\ NextForecast(f)
    /\ as_of <= today
    /\ ForecastInPreparation = {}
    /\ Governed(b)
    /\ \/ source # 0 /\ forecast[source].status # "none"
       \/ source = 0 /\ ForecastInForce = {}
    /\ source # 0 => as_of >= forecast[source].as_of
    /\ ChangeForecast(f,
          [status |-> "draft", budget |-> b, as_of |-> as_of,
           lines |-> IF source = 0 THEN NoForecast.lines ELSE forecast[source].lines])

\* Mutant of set_forecast_line: under a signature too.
SetSubmittedLine(f, c, amount) ==
    /\ forecast[f].status \in {"draft", "submitted", "rejected"}
    /\ c \in Known
    /\ ChangeForecast(f, [forecast[f] EXCEPT !.lines = WithLine(@, c, amount)])

set_forecast_line(f, c, amount) ==
    /\ forecast[f].status # "none" /\ ~Frozen(f)
    /\ c \in Known
    /\ ChangeForecast(f, [forecast[f] EXCEPT !.lines = WithLine(@, c, amount)])

submit_forecast(f) ==
    /\ forecast[f].status = "draft"
    /\ Governed(forecast[f].budget)
    /\ Live \subseteq DOMAIN forecast[f].lines
    /\ ChangeForecast(f, [forecast[f] EXCEPT !.status = "submitted"])

approve_forecast(f) ==
    /\ forecast[f].status = "submitted"
    /\ ChangeForecast(f, [forecast[f] EXCEPT !.status = "approved"])

reject_forecast(f) ==
    /\ forecast[f].status = "submitted"
    /\ ChangeForecast(f, [forecast[f] EXCEPT !.status = "rejected"])

activate_forecast(f) ==
    /\ forecast[f].status = "approved"
    /\ Governed(forecast[f].budget)
    /\ Live \subseteq DOMAIN forecast[f].lines
    /\ forecast' = [g \in Forecasts |->
          IF g = f THEN [forecast[g] EXCEPT !.status = "active"]
          ELSE IF g \in ForecastInForce THEN [forecast[g] EXCEPT !.status = "superseded"]
          ELSE forecast[g]]
    /\ UNCHANGED <<code, committed, budget, work, today>>

-----------------------------------------------------------------------------
(* Commitments and certificates, as far as this module needs them *)

\* A contract is activated or a variation approved: the figure per code moves.
commit(c, amount) ==
    /\ c \in Known
    /\ committed' = [committed EXCEPT ![c] = amount]
    /\ UNCHANGED <<code, budget, forecast, work, today>>

certify(k, c) ==
    /\ work[k] = NoWork
    /\ c \in Known
    /\ committed[c] > 0
    /\ work' = [work EXCEPT ![k] = [code |-> c, certified |-> today, reversed |-> 0]]
    /\ UNCHANGED <<code, committed, budget, forecast, today>>

reverse(k) ==
    /\ work[k].certified # 0 /\ work[k].reversed = 0
    /\ work' = [work EXCEPT ![k].reversed = today]
    /\ UNCHANGED <<code, committed, budget, forecast, today>>

next_day ==
    /\ today < LastDay
    /\ today' = today + 1
    /\ UNCHANGED <<code, committed, budget, forecast, work>>

-----------------------------------------------------------------------------
CodeNext ==
    \E c \in Codes :
        \/ \E parent \in {0} \cup Codes, hard \in BOOLEAN : create_cost_code(c, parent, hard)
        \/ \E parent \in {0} \cup Codes : reparent_cost_code(c, parent)
        \/ recategorise_cost_code(c) \/ retire_cost_code(c)

BudgetNext ==
    \E b \in Budgets :
        \/ \E effective \in Days, source \in {0} \cup Budgets :
              create_budget(b, effective, source)
        \/ \E c \in Codes :
              \/ \E amount \in Authorised : set_budget_line(b, c, amount)
              \/ remove_budget_line(b, c)
        \/ submit_budget(b) \/ approve_budget(b) \/ reject_budget(b) \/ activate_budget(b)

ForecastNext ==
    \E f \in Forecasts :
        \/ \E b \in Budgets, as_of \in Days, source \in {0} \cup Forecasts :
              create_forecast(f, b, as_of, source)
        \/ \E c \in Codes, amount \in Remaining : set_forecast_line(f, c, amount)
        \/ submit_forecast(f) \/ approve_forecast(f) \/ reject_forecast(f)
        \/ activate_forecast(f)

WorkNext ==
    \/ \E c \in Codes :
          \/ \E amount \in Authorised : commit(c, amount)
          \/ \E k \in Works : certify(k, c)
    \/ \E k \in Works : reverse(k)
    \/ next_day

ControlNext == CodeNext \/ BudgetNext \/ ForecastNext \/ WorkNext

ControlSpec == ControlInit /\ [][ControlNext]_controlVars

-----------------------------------------------------------------------------
(* Properties *)

\* Every table keeps its columns' types.
ControlTypeOK ==
    /\ code \in [Codes -> CodeRow]
    /\ committed \in [Codes -> Nat]
    /\ budget \in [Budgets -> BudgetRow]
    /\ forecast \in [Forecasts -> ForecastRow]
    /\ work \in [Works -> WorkRow]
    /\ today \in Days

\* The breakdown never eats its own tail: no group of codes hangs under itself,
\* whatever codes are created and moved in whatever order.
BreakdownIsATree ==
    \A S \in SUBSET Codes : S # {} => \E c \in S : code[c].parent \notin S

\* What the project is measured against is one thing: one budget and one forecast
\* in force, one of each in preparation, and the forecast in force is measured
\* against a budget somebody approved, whatever became of that budget since.
MeasuredAgainstApproved ==
    /\ \A a, b \in InForce : a = b
    /\ \A a, b \in InPreparation : a = b
    /\ \A f, g \in ForecastInForce : f = g
    /\ \A f, g \in ForecastInPreparation : f = g
    /\ \A f \in ForecastInForce : Governed(forecast[f].budget)

\* A forecast that was submitted and not turned down is not rewritten by what
\* happens after its cutoff: neither by certificates certified or reversed later,
\* nor by a line, nor by a code changing category.
PastBasisStands ==
    [][\A f \in Forecasts :
          Frozen(f) /\ forecast[f].as_of < today => Basis(f)' = Basis(f)]_controlVars

\* What the two kinds of version are to VersionOfRecord.
BudgetStatus == [b \in Budgets |-> budget[b].status]
BudgetContent == [b \in Budgets |-> <<budget[b].effective, budget[b].lines>>]
ForecastStatus == [f \in Forecasts |-> forecast[f].status]
ForecastContent ==
    [f \in Forecasts |-> <<forecast[f].budget, forecast[f].as_of, forecast[f].lines>>]

BudgetRecord == INSTANCE VersionOfRecord
    WITH Versions <- Budgets, Open <- {"draft"}, Alone <- TRUE,
         status <- BudgetStatus, content <- BudgetContent

ForecastRecord == INSTANCE VersionOfRecord
    WITH Versions <- Forecasts, Open <- {"draft", "rejected"}, Alone <- TRUE,
         status <- ForecastStatus, content <- ForecastContent

\* Budgets and construction forecasts are versions of record: what the project is
\* measured against was submitted and approved as it stands, gives way only to a
\* successor, and is not rewritten by anything that is done to codes, commitments
\* or certificates.  Only a forecast that was turned down is still written into.
ControlOfRecord == BudgetRecord!Spec /\ ForecastRecord!Spec
=============================================================================
