--------------------------- MODULE ControlProofs ----------------------------
(***************************************************************************)
(* What BudgetControl and Programme guarantee for any cost codes, any      *)
(* number of budgets and forecasts, any certificates, any milestones and   *)
(* schedules, and any days; and what Administrators guarantees for any     *)
(* users and any requests.                                                 *)
(***************************************************************************)
EXTENDS BudgetControl, Programme, Administrators, FiniteSetTheorems, TLAPS

-----------------------------------------------------------------------------
(* The breakdown, the budgets and the forecasts *)

\* A code hangs under one that was created, or at the top.
ParentsKnown == \A c \in Codes : code[c].parent \in Known \cup {0}

\* A forecast is of a budget, and its lines and the certificates of codes that
\* were created.
RowsComplete ==
    /\ \A f \in Forecasts : forecast[f].status # "none" => forecast[f].budget \in Budgets
    /\ \A f \in Forecasts : DOMAIN forecast[f].lines \subseteq Known
    /\ \A k \in Works : work[k].certified # 0 => work[k].code \in Known

ControlInv ==
    /\ ControlTypeOK
    /\ ParentsKnown
    /\ RowsComplete
    /\ BreakdownIsATree
    /\ MeasuredAgainstApproved

\* A forecast's basis as PastBasisStands compares it.
PastKept ==
    \A f \in Forecasts :
        Frozen(f) /\ forecast[f].as_of < today => Basis(f)' = Basis(f)

LEMMA Numbers ==
    /\ Codes \subseteq Nat /\ 0 \notin Codes
    /\ Budgets \subseteq Nat /\ Forecasts \subseteq Nat /\ Works \subseteq Nat
    /\ Days \subseteq Nat
BY ControlAssumption DEF Budgets, Forecasts, Works, Days

-----------------------------------------------------------------------------
(* The breakdown *)

\* A new code has nothing under it yet.
LEMMA CreatedKeepsTree ==
    ASSUME ControlInv, NEW c \in Codes, NEW parent \in {0} \cup Codes, NEW hard \in BOOLEAN,
           create_cost_code(c, parent, hard)
    PROVE  BreakdownIsATree' /\ ParentsKnown'
<1>1. /\ c \notin Known /\ parent \in Known \cup {0}
      /\ code' = [code EXCEPT ![c] = [status |-> "active", parent |-> parent, hard |-> hard]]
  BY DEF create_cost_code, ChangeCode
<1>2. /\ \A d \in Codes \ {c} : code'[d] = code[d]
      /\ code'[c].parent = parent /\ code'[c].status = "active"
  BY <1>1 DEF ControlInv, ControlTypeOK
<1>3. Known \subseteq Codes /\ Known \subseteq Known'
  BY <1>1, <1>2 DEF Known
<1>4. ParentsKnown'
  BY <1>1, <1>2, <1>3 DEF ControlInv, ParentsKnown
<1>5. SUFFICES ASSUME NEW S \in SUBSET Codes, S # {}
               PROVE  \E d \in S : code'[d].parent \notin S
  BY <1>4 DEF BreakdownIsATree
<1>6. CASE S \subseteq {c}
  BY <1>1, <1>2, <1>5, <1>6, Numbers
<1>7. CASE S \ {c} # {}
  <2>1. PICK d \in S \ {c} : code[d].parent \notin S \ {c}
    BY <1>7 DEF ControlInv, BreakdownIsATree
  <2>2. code[d].parent # c
    BY <1>1, <1>5, <2>1, Numbers DEF ControlInv, ParentsKnown
  <2> QED
    BY <1>2, <1>5, <2>1, <2>2
<1> QED
  BY <1>6, <1>7

\* A code moves to the top, or under one it is not above: the ancestry it moves to
\* is closed, so a group that meets it ends inside it, and one that does not is as
\* it was.
LEMMA ReparentedKeepsTree ==
    ASSUME ControlInv, NEW c \in Codes, NEW parent \in {0} \cup Codes,
           reparent_cost_code(c, parent)
    PROVE  BreakdownIsATree' /\ ParentsKnown'
<1>1. /\ c \in Known /\ parent \in Known \cup {0}
      /\ parent # 0 => c \notin Ancestry(parent)
      /\ code' = [code EXCEPT ![c] = [code[c] EXCEPT !.parent = parent]]
  BY DEF reparent_cost_code, ChangeCode
<1>2. /\ \A d \in Codes \ {c} : code'[d] = code[d]
      /\ code'[c].parent = parent /\ code'[c].status = code[c].status
  BY <1>1 DEF ControlInv, ControlTypeOK, CodeRow
<1>3. Known' = Known
  BY <1>2 DEF Known
<1>4. ParentsKnown'
  BY <1>1, <1>2, <1>3 DEF ControlInv, ParentsKnown
<1>5. PICK T \in SUBSET Codes :
         /\ parent # 0 => parent \in T
         /\ c \notin T
         /\ \A x \in T : code[x].parent # 0 => code[x].parent \in T
  <2>1. CASE parent = 0
    <3>1. {} \in SUBSET Codes /\ c \notin {} /\ \A x \in {} : code[x].parent \in {}
      OBVIOUS
    <3> QED
      BY <2>1, <3>1
  <2>2. CASE parent # 0
    BY <1>1, <2>2 DEF Ancestry, Known
  <2> QED
    BY <2>1, <2>2
<1>6. SUFFICES ASSUME NEW S \in SUBSET Codes, S # {}
               PROVE  \E d \in S : code'[d].parent \notin S
  BY <1>4 DEF BreakdownIsATree
<1>7. CASE S \cap T # {}
  <2>1. PICK d \in S \cap T : code[d].parent \notin S \cap T
    BY <1>7 DEF ControlInv, BreakdownIsATree
  <2>2. code'[d] = code[d] /\ d \in Codes
    BY <1>2, <1>5, <1>6, <2>1
  <2>3. code[d].parent = 0 \/ code[d].parent \notin S
    BY <1>5, <2>1
  <2> QED
    BY <1>6, <2>1, <2>2, <2>3, Numbers
<1>8. CASE S \cap T = {}
  <2>1. PICK d \in S : code[d].parent \notin S
    BY <1>6 DEF ControlInv, BreakdownIsATree
  <2>2. parent \notin S
    BY <1>5, <1>6, <1>8, Numbers
  <2> QED
    BY <1>2, <1>6, <2>1, <2>2
<1> QED
  BY <1>7, <1>8

-----------------------------------------------------------------------------
(* Types *)

LEMMA CodeStepTyped ==
    ASSUME ControlInv, CodeNext
    PROVE  ControlTypeOK'
<1>1. code \in [Codes -> CodeRow]
  BY DEF ControlInv, ControlTypeOK
<1>2. ASSUME NEW c \in Codes, NEW row \in CodeRow, ChangeCode(c, row)
      PROVE  ControlTypeOK'
  BY <1>1, <1>2 DEF ControlInv, ControlTypeOK, ChangeCode
<1>3. ASSUME NEW c \in Codes, NEW parent \in {0} \cup Codes, NEW hard \in BOOLEAN,
             create_cost_code(c, parent, hard)
      PROVE  ControlTypeOK'
  <2>1. [status |-> "active", parent |-> parent, hard |-> hard] \in CodeRow
    BY DEF CodeRow
  <2> QED
    BY <1>2, <1>3, <2>1 DEF create_cost_code
<1>4. ASSUME NEW c \in Codes
      PROVE  /\ \A parent \in {0} \cup Codes : [code[c] EXCEPT !.parent = parent] \in CodeRow
             /\ [code[c] EXCEPT !.hard = ~code[c].hard] \in CodeRow
             /\ [code[c] EXCEPT !.status = "retired"] \in CodeRow
  <2>1. \A parent \in {0} \cup Codes : [code[c] EXCEPT !.parent = parent] \in CodeRow
    BY <1>1 DEF CodeRow
  <2>2. [code[c] EXCEPT !.status = "retired"] \in CodeRow
    BY <1>1 DEF CodeRow
  <2>3. (~code[c].hard) \in BOOLEAN
    OBVIOUS
  <2>4. [code[c] EXCEPT !.hard = ~code[c].hard] \in CodeRow
    BY <1>1, <2>3, Zenon DEF CodeRow
  <2> QED
    BY <2>1, <2>2, <2>4
<1>5. ASSUME NEW c \in Codes, NEW parent \in {0} \cup Codes, reparent_cost_code(c, parent)
      PROVE  ControlTypeOK'
  BY <1>2, <1>4, <1>5 DEF reparent_cost_code
<1>6. ASSUME NEW c \in Codes, recategorise_cost_code(c) \/ retire_cost_code(c)
      PROVE  ControlTypeOK'
  BY <1>2, <1>4, <1>6 DEF recategorise_cost_code, retire_cost_code
<1> QED
  BY <1>3, <1>5, <1>6 DEF CodeNext

Lines(amounts) == UNION {[D -> amounts] : D \in SUBSET Codes}

\* A version that is opened from nothing has no line.
LEMMA NoLines ==
    ASSUME NEW amounts
    PROVE  [c \in {} |-> 0] \in Lines(amounts)
<1>1. [c \in {} |-> 0] \in [{} -> amounts]
  OBVIOUS
<1> QED
  BY <1>1 DEF Lines

\* What entering and removing a line does to the lines of a version.
LEMMA LineEntered ==
    ASSUME NEW amounts, NEW lines \in Lines(amounts), NEW c \in Codes, NEW amount \in amounts
    PROVE  WithLine(lines, c, amount) \in Lines(amounts)
<1>1. PICK D \in SUBSET Codes : lines \in [D -> amounts]
  BY DEF Lines
<1>2. WithLine(lines, c, amount) \in [D \cup {c} -> amounts]
  BY <1>1 DEF WithLine
<1> QED
  BY <1>2 DEF Lines

LEMMA LineRemoved ==
    ASSUME NEW amounts, NEW lines \in Lines(amounts), NEW c \in Codes
    PROVE  Restrict(lines, DOMAIN lines \ {c}) \in Lines(amounts)
<1>1. PICK D \in SUBSET Codes : lines \in [D -> amounts]
  BY DEF Lines
<1>2. Restrict(lines, DOMAIN lines \ {c}) \in [D \ {c} -> amounts]
  BY <1>1 DEF Restrict
<1> QED
  BY <1>2 DEF Lines

-----------------------------------------------------------------------------
(* Codes *)

\* While no category moves that a forecast or a certificate uses, no basis does.
LEMMA BasisOfCodes ==
    ASSUME ControlInv, UNCHANGED <<forecast, work, today>>,
           \A c \in Known : (\E f \in Forecasts : c \in DOMAIN forecast[f].lines)
                            \/ (\E k \in Works : work[k].code = c)
                               => code'[c].hard = code[c].hard
    PROVE  PastKept
<1>1. SUFFICES ASSUME NEW f \in Forecasts PROVE Basis(f)' = Basis(f)
  BY DEF PastKept
<1>2. {c \in DOMAIN forecast'[f].lines : code'[c].hard}
        = {c \in DOMAIN forecast[f].lines : code[c].hard}
  BY DEF ControlInv, RowsComplete
<1>3. {k \in Works : StandingAt(k, forecast[f].as_of)' /\ code'[work'[k].code].hard}
        = {k \in Works : StandingAt(k, forecast[f].as_of) /\ code[work[k].code].hard}
  <2>1. \A k \in Works : StandingAt(k, forecast[f].as_of)' <=> StandingAt(k, forecast[f].as_of)
    BY DEF StandingAt
  <2>2. \A k \in Works : StandingAt(k, forecast[f].as_of) => work[k].code \in Known
    BY DEF StandingAt, ControlInv, RowsComplete
  <2> QED
    BY <2>1, <2>2
<1> QED
  BY <1>2, <1>3 DEF Basis

LEMMA CodeStep ==
    ASSUME ControlInv, CodeNext
    PROVE  ControlInv' /\ PastKept
<1>1. ControlTypeOK'
  BY CodeStepTyped
<1>2. UNCHANGED <<committed, budget, forecast, work, today>>
  BY DEF CodeNext, create_cost_code, reparent_cost_code, recategorise_cost_code,
         retire_cost_code, ChangeCode
<1>3. MeasuredAgainstApproved'
  BY <1>2 DEF ControlInv, MeasuredAgainstApproved, InForce, InPreparation, ForecastInForce,
              ForecastInPreparation, Governed
<1>4. ASSUME Known \subseteq Known' PROVE RowsComplete'
  BY <1>2, <1>4 DEF ControlInv, RowsComplete
<1>5. ASSUME NEW c \in Codes, NEW parent \in {0} \cup Codes, NEW hard \in BOOLEAN,
             create_cost_code(c, parent, hard)
      PROVE  ControlInv' /\ PastKept
  <2>1. BreakdownIsATree' /\ ParentsKnown'
    BY <1>5, CreatedKeepsTree
  <2>2. c \notin Known /\ \A d \in Codes \ {c} : code'[d] = code[d]
    BY <1>5 DEF create_cost_code, ChangeCode, ControlInv, ControlTypeOK
  <2>3. Known \subseteq Known' /\ \A d \in Known : code'[d] = code[d]
    BY <2>2 DEF Known
  <2> QED
    BY <1>1, <1>2, <1>3, <1>4, <2>1, <2>3, BasisOfCodes DEF ControlInv
<1>6. ASSUME NEW c \in Codes, NEW parent \in {0} \cup Codes, reparent_cost_code(c, parent)
      PROVE  ControlInv' /\ PastKept
  <2>1. BreakdownIsATree' /\ ParentsKnown'
    BY <1>6, ReparentedKeepsTree
  <2>2. \A d \in Codes : code'[d].status = code[d].status /\ code'[d].hard = code[d].hard
    BY <1>6 DEF reparent_cost_code, ChangeCode, ControlInv, ControlTypeOK, CodeRow
  <2>3. Known' = Known /\ Known \subseteq Codes
    BY <2>2 DEF Known
  <2> QED
    BY <1>1, <1>2, <1>3, <1>4, <2>1, <2>2, <2>3, BasisOfCodes DEF ControlInv
<1>7. ASSUME NEW c \in Codes, recategorise_cost_code(c) \/ retire_cost_code(c)
      PROVE  ControlInv' /\ PastKept
  <2>1. \A d \in Codes : /\ code'[d].parent = code[d].parent
                         /\ code'[d].status = "none" <=> code[d].status = "none"
    BY <1>7 DEF recategorise_cost_code, retire_cost_code, ChangeCode, Known, Live,
                ControlInv, ControlTypeOK, CodeRow
  <2>2. Known' = Known
    BY <2>1 DEF Known
  <2>3. BreakdownIsATree' /\ ParentsKnown'
    BY <2>1, <2>2 DEF ControlInv, BreakdownIsATree, ParentsKnown
  <2>4. \A d \in Known : (\E f \in Forecasts : d \in DOMAIN forecast[f].lines)
                         \/ (\E k \in Works : work[k].code = d)
                            => code'[d].hard = code[d].hard
    <3>1. CASE recategorise_cost_code(c)
      <4>1. c \notin Known \/ ~Referenced(c)
        BY <3>1 DEF recategorise_cost_code
      <4>2. \A d \in Codes \ {c} : code'[d] = code[d]
        BY <3>1 DEF recategorise_cost_code, ChangeCode, ControlInv, ControlTypeOK
      <4> QED
        BY <4>1, <4>2 DEF Referenced, Known
    <3>2. CASE retire_cost_code(c)
      BY <3>2 DEF retire_cost_code, ChangeCode, Known, ControlInv, ControlTypeOK, CodeRow
    <3> QED
      BY <1>7, <3>1, <3>2
  <2> QED
    BY <1>1, <1>2, <1>3, <1>4, <2>2, <2>3, <2>4, BasisOfCodes DEF ControlInv
<1> QED
  BY <1>5, <1>6, <1>7 DEF CodeNext

-----------------------------------------------------------------------------
(* Budgets *)

\* What holds of the codes, the forecasts' rows and the basis of a forecast does
\* not depend on budgets.
LEMMA BudgetFrame ==
    ASSUME ControlInv, UNCHANGED <<code, committed, forecast, work, today>>,
           budget' \in [Budgets -> BudgetRow]
    PROVE  /\ ControlTypeOK' /\ ParentsKnown' /\ RowsComplete' /\ BreakdownIsATree'
           /\ PastKept
           /\ ForecastInForce' = ForecastInForce
           /\ ForecastInPreparation' = ForecastInPreparation
<1>1. ControlTypeOK'
  BY DEF ControlInv, ControlTypeOK
<1>2. ParentsKnown' /\ RowsComplete' /\ BreakdownIsATree'
  BY DEF ControlInv, ParentsKnown, RowsComplete, BreakdownIsATree, Known
<1>3. PastKept
  BY BasisOfCodes
<1> QED
  BY <1>1, <1>2, <1>3 DEF ForecastInForce, ForecastInPreparation

LEMMA BudgetRowStep ==
    ASSUME ControlInv, NEW b \in Budgets, NEW row \in BudgetRow, ChangeBudget(b, row),
           budget[b].status # "active", row.status # "active",
           row.status \in {"draft", "submitted", "approved"}
               => b \in InPreparation \/ InPreparation = {},
           Governed(b) => row.status = "approved"
                          \/ \A f \in ForecastInForce : forecast[f].budget # b
    PROVE  ControlInv' /\ PastKept
<1>1. /\ UNCHANGED <<code, committed, forecast, work, today>>
      /\ budget' = [budget EXCEPT ![b] = row]
      /\ budget \in [Budgets -> BudgetRow]
  BY DEF ChangeBudget, ControlInv, ControlTypeOK
<1>2. /\ budget' \in [Budgets -> BudgetRow]
      /\ budget'[b] = row /\ \A a \in Budgets \ {b} : budget'[a] = budget[a]
  BY <1>1
<1>3. /\ ControlTypeOK' /\ ParentsKnown' /\ RowsComplete' /\ BreakdownIsATree' /\ PastKept
      /\ ForecastInForce' = ForecastInForce
      /\ ForecastInPreparation' = ForecastInPreparation
  BY <1>1, <1>2, BudgetFrame
<1>4. InForce' \subseteq InForce
  BY <1>2 DEF InForce
<1>5. \A a, c \in InPreparation' : a = c
  BY <1>2 DEF InPreparation, ControlInv, MeasuredAgainstApproved
<1>6. ASSUME NEW f \in ForecastInForce PROVE Governed(forecast[f].budget)'
  <2>1. forecast[f].budget \in Budgets /\ Governed(forecast[f].budget)
    BY DEF ForecastInForce, ControlInv, RowsComplete, MeasuredAgainstApproved
  <2> QED
    BY <1>1, <1>2, <2>1 DEF Governed
<1> QED
  BY <1>1, <1>3, <1>4, <1>5, <1>6 DEF ControlInv, MeasuredAgainstApproved

LEMMA BudgetStep ==
    ASSUME ControlInv, BudgetNext
    PROVE  ControlInv' /\ PastKept
<1>1. budget \in [Budgets -> BudgetRow]
  BY DEF ControlInv, ControlTypeOK
<1>2. PICK b \in Budgets :
        \/ \E effective \in Days, source \in {0} \cup Budgets :
              create_budget(b, effective, source)
        \/ \E c \in Codes :
              \/ \E amount \in Authorised : set_budget_line(b, c, amount)
              \/ remove_budget_line(b, c)
        \/ submit_budget(b) \/ approve_budget(b) \/ reject_budget(b) \/ activate_budget(b)
  BY DEF BudgetNext
<1>3. ASSUME NEW effective \in Days, NEW source \in {0} \cup Budgets,
             create_budget(b, effective, source)
      PROVE  ControlInv' /\ PastKept
  <2> DEFINE row == [status |-> "draft", effective |-> effective,
                     lines |-> IF source = 0 THEN NoBudget.lines ELSE budget[source].lines]
  <2>1. budget[b].status = "none" /\ InPreparation = {} /\ ChangeBudget(b, row)
    BY <1>3, Numbers DEF create_budget, NextBudget
  <2>2. NoBudget.lines \in Lines(Authorised)
    BY NoLines DEF NoBudget
  <2>3. row \in BudgetRow
    BY <1>1, <2>2 DEF BudgetRow, Lines
  <2> QED
    BY <2>1, <2>3, BudgetRowStep DEF Governed
<1>4. ASSUME NEW c \in Codes, NEW amount \in Authorised, set_budget_line(b, c, amount)
      PROVE  ControlInv' /\ PastKept
  <2> DEFINE lines == WithLine(budget[b].lines, c, amount)
             row == [budget[b] EXCEPT !.lines = lines]
  <2>1. budget[b].status = "draft" /\ ChangeBudget(b, row)
    BY <1>4 DEF set_budget_line
  <2>2. lines \in Lines(Authorised)
    <3>1. budget[b].lines \in Lines(Authorised)
      BY <1>1 DEF BudgetRow, Lines
    <3> QED
      BY <3>1, LineEntered
  <2> HIDE DEF lines
  <2>3. row \in BudgetRow /\ row.status = "draft"
    BY <1>1, <2>1, <2>2 DEF BudgetRow, Lines
  <2>4. b \in InPreparation
    BY <2>1 DEF InPreparation
  <2> QED
    BY <2>1, <2>3, <2>4, BudgetRowStep DEF Governed
<1>5. ASSUME NEW c \in Codes, remove_budget_line(b, c)
      PROVE  ControlInv' /\ PastKept
  <2> DEFINE lines == Restrict(budget[b].lines, DOMAIN budget[b].lines \ {c})
             row == [budget[b] EXCEPT !.lines = lines]
  <2>1. budget[b].status = "draft" /\ ChangeBudget(b, row) /\ c \in DOMAIN budget[b].lines
    BY <1>5 DEF remove_budget_line
  <2>2. lines \in Lines(Authorised)
    <3>1. budget[b].lines \in Lines(Authorised)
      BY <1>1 DEF BudgetRow, Lines
    <3> QED
      BY <3>1, LineRemoved
  <2> HIDE DEF lines
  <2>3. row \in BudgetRow /\ row.status = "draft"
    BY <1>1, <2>1, <2>2 DEF BudgetRow, Lines
  <2>4. b \in InPreparation
    BY <2>1 DEF InPreparation
  <2> QED
    BY <2>1, <2>3, <2>4, BudgetRowStep DEF Governed
<1>6. ASSUME NEW status \in {"submitted", "approved", "rejected"}
      PROVE  /\ [budget[b] EXCEPT !.status = status] \in BudgetRow
             /\ [budget[b] EXCEPT !.status = status].status = status
  BY <1>1 DEF BudgetRow
<1>7. CASE submit_budget(b)
  BY <1>6, <1>7, BudgetRowStep DEF submit_budget, InPreparation, Governed
<1>8. CASE approve_budget(b)
  BY <1>6, <1>8, BudgetRowStep DEF approve_budget, InPreparation, Governed
<1>9. CASE reject_budget(b)
  BY <1>6, <1>9, BudgetRowStep DEF reject_budget, InPreparation, Governed
<1>10. CASE activate_budget(b)
  <2>1. /\ budget[b].status = "approved"
        /\ UNCHANGED <<code, committed, forecast, work, today>>
        /\ budget' = [a \in Budgets |->
              IF a = b THEN [budget[a] EXCEPT !.status = "active"]
              ELSE IF a \in InForce THEN [budget[a] EXCEPT !.status = "superseded"]
              ELSE budget[a]]
    BY <1>10 DEF activate_budget
  <2>2. budget' \in [Budgets -> BudgetRow]
    BY <1>1, <2>1 DEF BudgetRow
  <2>3. /\ ControlTypeOK' /\ ParentsKnown' /\ RowsComplete' /\ BreakdownIsATree' /\ PastKept
        /\ ForecastInForce' = ForecastInForce
        /\ ForecastInPreparation' = ForecastInPreparation
    BY <2>1, <2>2, BudgetFrame
  <2>4. \A a \in Budgets :
          budget'[a].status = IF a = b THEN "active"
                              ELSE IF a \in InForce THEN "superseded" ELSE budget[a].status
    BY <1>1, <2>1 DEF BudgetRow
  <2>5. InForce' = {b} /\ InPreparation' = InPreparation \ {b}
    BY <2>1, <2>4 DEF InForce, InPreparation
  <2>6. ASSUME NEW f \in ForecastInForce PROVE Governed(forecast[f].budget)'
    <3>1. forecast[f].budget \in Budgets /\ Governed(forecast[f].budget)
      BY DEF ForecastInForce, ControlInv, RowsComplete, MeasuredAgainstApproved
    <3> QED
      BY <2>1, <2>4, <3>1 DEF Governed, InForce
  <2> QED
    BY <2>1, <2>3, <2>5, <2>6 DEF ControlInv, MeasuredAgainstApproved
<1> QED
  BY <1>2, <1>3, <1>4, <1>5, <1>7, <1>8, <1>9, <1>10

-----------------------------------------------------------------------------
(* Forecasts *)

\* What holds of the codes and of the budgets does not depend on forecasts, and
\* a frozen forecast keeps its basis while it keeps its cutoff and its lines.
LEMMA ForecastFrame ==
    ASSUME ControlInv, UNCHANGED <<code, committed, budget, work, today>>,
           forecast' \in [Forecasts -> ForecastRow],
           \A f \in Forecasts :
               Frozen(f) =>
                   /\ forecast'[f].lines = forecast[f].lines
                   /\ forecast'[f].as_of = forecast[f].as_of
    PROVE  /\ ControlTypeOK' /\ ParentsKnown' /\ BreakdownIsATree' /\ PastKept
           /\ InForce' = InForce /\ InPreparation' = InPreparation /\ Known' = Known
           /\ \A b \in Budgets : Governed(b)' = Governed(b)
<1>1. ControlTypeOK'
  BY DEF ControlInv, ControlTypeOK
<1>2. ParentsKnown' /\ BreakdownIsATree'
  BY DEF ControlInv, ParentsKnown, BreakdownIsATree, Known
<1>3. PastKept
  BY DEF PastKept, Basis, StandingAt
<1> QED
  BY <1>1, <1>2, <1>3 DEF InForce, InPreparation, Known, Governed

LEMMA ForecastRowStep ==
    ASSUME ControlInv, NEW f \in Forecasts, NEW row \in ForecastRow, ChangeForecast(f, row),
           forecast[f].status # "active", row.status # "active",
           row.status \in {"draft", "submitted", "approved"}
               => f \in ForecastInPreparation \/ ForecastInPreparation = {},
           row.budget \in Budgets, DOMAIN row.lines \subseteq Known,
           Frozen(f) => row.lines = forecast[f].lines /\ row.as_of = forecast[f].as_of
    PROVE  ControlInv' /\ PastKept
<1>1. /\ UNCHANGED <<code, committed, budget, work, today>>
      /\ forecast' = [forecast EXCEPT ![f] = row]
      /\ forecast \in [Forecasts -> ForecastRow]
  BY DEF ChangeForecast, ControlInv, ControlTypeOK
<1>2. /\ forecast' \in [Forecasts -> ForecastRow]
      /\ forecast'[f] = row /\ \A g \in Forecasts \ {f} : forecast'[g] = forecast[g]
  BY <1>1
<1>3. /\ ControlTypeOK' /\ ParentsKnown' /\ BreakdownIsATree' /\ PastKept
      /\ InForce' = InForce /\ InPreparation' = InPreparation /\ Known' = Known
      /\ \A b \in Budgets : Governed(b)' = Governed(b)
  BY <1>1, <1>2, ForecastFrame
<1>4. RowsComplete'
  BY <1>1, <1>2, <1>3 DEF ControlInv, RowsComplete
<1>5. /\ \A g \in ForecastInForce' : g \in ForecastInForce /\ forecast'[g] = forecast[g]
      /\ \A g, h \in ForecastInPreparation' : g = h
  BY <1>2 DEF ForecastInForce, ForecastInPreparation, ControlInv, MeasuredAgainstApproved
<1>6. \A g \in ForecastInForce : /\ forecast[g].budget \in Budgets
                                 /\ Governed(forecast[g].budget)
  BY DEF ForecastInForce, ControlInv, RowsComplete, MeasuredAgainstApproved
<1>7. ASSUME NEW g \in ForecastInForce' PROVE Governed(forecast[g].budget)'
  BY <1>3, <1>5, <1>6 DEF Governed
<1> QED
  BY <1>3, <1>4, <1>5, <1>7 DEF ControlInv, MeasuredAgainstApproved

LEMMA ForecastStep ==
    ASSUME ControlInv, ForecastNext
    PROVE  ControlInv' /\ PastKept
<1>1. /\ forecast \in [Forecasts -> ForecastRow]
      /\ \A g \in Forecasts : DOMAIN forecast[g].lines \subseteq Known
      /\ \A g \in Forecasts : forecast[g].lines \in Lines(Remaining)
      /\ \A g \in Forecasts : forecast[g].status # "none" => forecast[g].budget \in Budgets
  BY DEF ControlInv, ControlTypeOK, RowsComplete, ForecastRow, Lines
<1>2. PICK f \in Forecasts :
        \/ \E b \in Budgets, as_of \in Days, source \in {0} \cup Forecasts :
              create_forecast(f, b, as_of, source)
        \/ \E c \in Codes, amount \in Remaining : set_forecast_line(f, c, amount)
        \/ submit_forecast(f) \/ approve_forecast(f) \/ reject_forecast(f)
        \/ activate_forecast(f)
  BY DEF ForecastNext
<1>3. ASSUME NEW b \in Budgets, NEW as_of \in Days, NEW source \in {0} \cup Forecasts,
             create_forecast(f, b, as_of, source)
      PROVE  ControlInv' /\ PastKept
  <2> DEFINE row == [status |-> "draft", budget |-> b, as_of |-> as_of,
                     lines |-> IF source = 0 THEN NoForecast.lines
                               ELSE forecast[source].lines]
  <2>1. /\ forecast[f].status = "none" /\ ForecastInPreparation = {}
        /\ ChangeForecast(f, row)
    BY <1>3, Numbers DEF create_forecast, NextForecast
  <2>2. NoForecast.lines \in Lines(Remaining) /\ DOMAIN NoForecast.lines = {}
    BY NoLines DEF NoForecast
  <2>3. row.lines \in Lines(Remaining) /\ DOMAIN row.lines \subseteq Known
    BY <1>1, <2>2
  <2>4. row \in ForecastRow
    BY <2>3 DEF ForecastRow, Lines
  <2>5. row.budget \in Budgets /\ row.status = "draft" /\ ~Frozen(f)
    BY <2>1 DEF Frozen
  <2> HIDE DEF row
  <2> QED
    BY <2>1, <2>3, <2>4, <2>5, ForecastRowStep
<1>4. ASSUME NEW c \in Codes, NEW amount \in Remaining, set_forecast_line(f, c, amount)
      PROVE  ControlInv' /\ PastKept
  <2> DEFINE lines == WithLine(forecast[f].lines, c, amount)
             row == [forecast[f] EXCEPT !.lines = lines]
  <2>1. /\ forecast[f].status \in {"draft", "rejected"} /\ ~Frozen(f)
        /\ c \in Known /\ ChangeForecast(f, row)
    BY <1>1, <1>4 DEF set_forecast_line, Frozen, ForecastRow
  <2>2. lines \in Lines(Remaining) /\ DOMAIN lines \subseteq Known
    <3>1. forecast[f].lines \in Lines(Remaining) /\ DOMAIN forecast[f].lines \subseteq Known
      BY <1>1
    <3>2. lines \in Lines(Remaining)
      BY <3>1, LineEntered
    <3>3. DOMAIN lines = DOMAIN forecast[f].lines \cup {c}
      BY DEF WithLine
    <3> HIDE DEF lines
    <3> QED
      BY <2>1, <3>1, <3>2, <3>3
  <2> HIDE DEF lines
  <2>3. /\ row \in ForecastRow /\ row.status = forecast[f].status
        /\ row.budget \in Budgets /\ DOMAIN row.lines \subseteq Known
    BY <1>1, <2>1, <2>2 DEF ForecastRow, Lines
  <2>4. row.status = "draft" => f \in ForecastInPreparation
    BY <2>3 DEF ForecastInPreparation
  <2> HIDE DEF row
  <2> QED
    BY <2>1, <2>3, <2>4, ForecastRowStep
<1>5. ASSUME NEW status \in {"submitted", "approved", "rejected"},
             forecast[f].status # "none"
      PROVE  LET row == [forecast[f] EXCEPT !.status = status] IN
             /\ row \in ForecastRow /\ row.status = status
             /\ row.budget \in Budgets /\ DOMAIN row.lines \subseteq Known
             /\ row.lines = forecast[f].lines /\ row.as_of = forecast[f].as_of
  BY <1>1, <1>5 DEF ForecastRow
<1>6. CASE submit_forecast(f)
  BY <1>5, <1>6, ForecastRowStep DEF submit_forecast, ForecastInPreparation
<1>7. CASE approve_forecast(f)
  BY <1>5, <1>7, ForecastRowStep DEF approve_forecast, ForecastInPreparation
<1>8. CASE reject_forecast(f)
  BY <1>5, <1>8, ForecastRowStep DEF reject_forecast, ForecastInPreparation
<1>9. CASE activate_forecast(f)
  <2>1. /\ forecast[f].status = "approved" /\ Governed(forecast[f].budget)
        /\ UNCHANGED <<code, committed, budget, work, today>>
        /\ forecast' = [g \in Forecasts |->
              IF g = f THEN [forecast[g] EXCEPT !.status = "active"]
              ELSE IF g \in ForecastInForce THEN [forecast[g] EXCEPT !.status = "superseded"]
              ELSE forecast[g]]
    BY <1>9 DEF activate_forecast
  <2>2. forecast' \in [Forecasts -> ForecastRow]
    BY <1>1, <2>1 DEF ForecastRow
  <2>3. \A g \in Forecasts :
          /\ forecast'[g].status = IF g = f THEN "active"
                                   ELSE IF g \in ForecastInForce THEN "superseded"
                                   ELSE forecast[g].status
          /\ forecast'[g].lines = forecast[g].lines
          /\ forecast'[g].as_of = forecast[g].as_of
          /\ forecast'[g].budget = forecast[g].budget
    BY <1>1, <2>1 DEF ForecastRow
  <2>4. /\ ControlTypeOK' /\ ParentsKnown' /\ BreakdownIsATree' /\ PastKept
        /\ InForce' = InForce /\ InPreparation' = InPreparation /\ Known' = Known
        /\ \A b \in Budgets : Governed(b)' = Governed(b)
    BY <2>1, <2>2, <2>3, ForecastFrame
  <2>5. RowsComplete'
    BY <1>1, <2>1, <2>3, <2>4 DEF ControlInv, RowsComplete, ForecastInForce
  <2>6. /\ ForecastInForce' = {f}
        /\ ForecastInPreparation' = ForecastInPreparation \ {f}
    BY <2>1, <2>3 DEF ForecastInForce, ForecastInPreparation
  <2>7. Governed(forecast[f].budget)'
    BY <1>1, <2>1, <2>3 DEF Governed
  <2> QED
    BY <2>4, <2>5, <2>6, <2>7 DEF ControlInv, MeasuredAgainstApproved
<1> QED
  BY <1>2, <1>3, <1>4, <1>6, <1>7, <1>8, <1>9

-----------------------------------------------------------------------------
(* Commitments, certificates and the calendar *)

\* Certificates certified or reversed after a cutoff do not move what was standing
\* at it.
LEMMA BasisOfWork ==
    ASSUME ControlInv, UNCHANGED <<code, forecast>>, today' \in Days,
           work' \in [Works -> WorkRow],
           \A k \in Works : \A d \in Nat : d < today =>
               (StandingAt(k, d)' <=> StandingAt(k, d)),
           \A k \in Works : work[k].certified # 0 => work'[k].code = work[k].code
    PROVE  PastKept
<1>1. SUFFICES ASSUME NEW f \in Forecasts, forecast[f].as_of < today
               PROVE  Basis(f)' = Basis(f)
  BY DEF PastKept
<1>2. forecast[f].as_of \in Nat
  <2>1. forecast[f].as_of \in {0} \cup Days
    BY DEF ControlInv, ControlTypeOK, ForecastRow
  <2> QED
    BY <2>1, ControlAssumption DEF Days
<1>3. \A k \in Works :
        StandingAt(k, forecast[f].as_of)' <=> StandingAt(k, forecast[f].as_of)
  BY <1>1, <1>2 DEF StandingAt
<1>4. \A k \in Works : StandingAt(k, forecast[f].as_of) => work'[k].code = work[k].code
  BY DEF StandingAt
<1> QED
  BY <1>3, <1>4 DEF Basis

LEMMA WorkStep ==
    ASSUME ControlInv, WorkNext
    PROVE  ControlInv' /\ PastKept
<1>1. UNCHANGED <<code, budget, forecast>>
  BY DEF WorkNext, commit, certify, reverse, next_day
<1>2. /\ committed \in [Codes -> Nat] /\ work \in [Works -> WorkRow]
      /\ today \in Days /\ today \in Nat
      /\ \A k \in Works : work[k].certified # 0 => work[k].code \in Known
  BY Numbers DEF ControlInv, ControlTypeOK, RowsComplete
<1>3. /\ ParentsKnown' /\ BreakdownIsATree' /\ MeasuredAgainstApproved' /\ Known' = Known
  BY <1>1 DEF ControlInv, ParentsKnown, BreakdownIsATree, MeasuredAgainstApproved, Known,
              InForce, InPreparation, ForecastInForce, ForecastInPreparation, Governed
<1>4. ASSUME committed' \in [Codes -> Nat], work' \in [Works -> WorkRow],
             today' \in Days,
             \A k \in Works : work'[k].certified # 0 => work'[k].code \in Known
      PROVE  ControlInv'
  BY <1>1, <1>3, <1>4 DEF ControlInv, ControlTypeOK, RowsComplete
<1>5. ASSUME NEW c \in Codes, NEW amount \in Authorised, commit(c, amount)
      PROVE  ControlInv' /\ PastKept
  <2>1. committed' \in [Codes -> Nat] /\ UNCHANGED <<work, today>>
    BY <1>2, <1>5, ControlAssumption DEF commit
  <2> QED
    BY <1>1, <1>2, <1>4, <2>1, BasisOfCodes
<1>6. ASSUME NEW c \in Codes, NEW k \in Works, certify(k, c)
      PROVE  ControlInv' /\ PastKept
  <2> DEFINE row == [code |-> c, certified |-> today, reversed |-> 0]
  <2>1. /\ work[k] = NoWork /\ c \in Known /\ work' = [work EXCEPT ![k] = row]
        /\ UNCHANGED <<committed, today>>
    BY <1>6 DEF certify
  <2>2. row \in WorkRow
    BY <1>2 DEF WorkRow
  <2>3. /\ work' \in [Works -> WorkRow] /\ work'[k] = row
        /\ \A j \in Works \ {k} : work'[j] = work[j]
    BY <1>2, <2>1, <2>2
  <2>4. \A j \in Works : \A d \in Nat : d < today => (StandingAt(j, d)' <=> StandingAt(j, d))
    BY <1>2, <2>1, <2>3 DEF StandingAt, NoWork
  <2>5. \A j \in Works : work[j].certified # 0 => work'[j].code = work[j].code
    BY <2>1, <2>3 DEF NoWork
  <2> QED
    BY <1>1, <1>2, <1>4, <2>1, <2>3, <2>4, <2>5, BasisOfWork
<1>7. ASSUME NEW k \in Works, reverse(k)
      PROVE  ControlInv' /\ PastKept
  <2>1. /\ work[k].reversed = 0 /\ work' = [work EXCEPT ![k].reversed = today]
        /\ UNCHANGED <<committed, today>>
    BY <1>7 DEF reverse
  <2>2. /\ work' \in [Works -> WorkRow] /\ work'[k].reversed = today
        /\ \A j \in Works : /\ work'[j].certified = work[j].certified
                            /\ work'[j].code = work[j].code
        /\ \A j \in Works \ {k} : work'[j] = work[j]
    BY <1>2, <2>1 DEF WorkRow
  <2>3. \A j \in Works : \A d \in Nat : d < today => (StandingAt(j, d)' <=> StandingAt(j, d))
    BY <1>2, <2>1, <2>2 DEF StandingAt
  <2> QED
    BY <1>1, <1>2, <1>4, <2>1, <2>2, <2>3, BasisOfWork
<1>8. CASE next_day
  <2>1. today' \in Days /\ UNCHANGED <<committed, work>>
    BY <1>2, <1>8, ControlAssumption DEF next_day, Days
  <2>2. \A j \in Works : \A d \in Nat : StandingAt(j, d)' <=> StandingAt(j, d)
    BY <2>1 DEF StandingAt
  <2> QED
    BY <1>1, <1>2, <1>4, <2>1, <2>2, BasisOfWork
<1> QED
  BY <1>5, <1>6, <1>7, <1>8 DEF WorkNext

-----------------------------------------------------------------------------
(* The specification *)

LEMMA ControlStart ==
    ASSUME ControlInit
    PROVE  ControlInv
<1>1. NoBudget.lines \in Lines(Authorised) /\ NoForecast.lines \in Lines(Remaining)
  BY NoLines DEF NoBudget, NoForecast
<1>2. NoBudget \in BudgetRow /\ NoForecast \in ForecastRow
  BY <1>1 DEF NoBudget, BudgetRow, NoForecast, ForecastRow, Lines
<1>3. 1 \in Days
  BY ControlAssumption DEF Days
<1>4. ControlTypeOK
  BY <1>2, <1>3 DEF ControlInit, ControlTypeOK, NoCode, CodeRow, NoWork, WorkRow
<1>5. ParentsKnown /\ RowsComplete
  BY DEF ControlInit, ParentsKnown, RowsComplete, NoCode, NoForecast, NoWork
<1>6. BreakdownIsATree
  BY Numbers DEF ControlInit, BreakdownIsATree, NoCode
<1>7. MeasuredAgainstApproved
  BY DEF ControlInit, MeasuredAgainstApproved, NoBudget, NoForecast, InForce,
         InPreparation, ForecastInForce, ForecastInPreparation
<1> QED
  BY <1>4, <1>5, <1>6, <1>7 DEF ControlInv

LEMMA ControlStep ==
    ASSUME ControlInv, [ControlNext]_controlVars
    PROVE  ControlInv' /\ [PastKept]_controlVars
<1>1. CASE ControlNext
  BY <1>1, CodeStep, BudgetStep, ForecastStep, WorkStep DEF ControlNext
<1>2. CASE UNCHANGED controlVars
  BY <1>2 DEF controlVars, ControlInv, ControlTypeOK, ParentsKnown, RowsComplete,
              BreakdownIsATree, MeasuredAgainstApproved, Known, InForce, InPreparation,
              ForecastInForce, ForecastInPreparation, Governed
<1> QED
  BY <1>1, <1>2

\* The breakdown is a tree of created codes, and budgets and forecasts are of them.
THEOREM ControlInvariant == ControlSpec => []ControlInv
<1>1. ControlInit => ControlInv
  BY ControlStart
<1>2. ControlInv /\ [ControlNext]_controlVars => ControlInv'
  BY ControlStep
<1> QED
  BY <1>1, <1>2, PTL DEF ControlSpec

\* Every table keeps its columns' types.
THEOREM ControlTyped == ControlSpec => []ControlTypeOK
<1>1. ControlInv => ControlTypeOK
  BY DEF ControlInv
<1> QED
  BY <1>1, ControlInvariant, PTL

\* update_cost_code never makes a breakdown that hangs under itself.
THEOREM ATree == ControlSpec => []BreakdownIsATree
<1>1. ControlInv => BreakdownIsATree
  BY DEF ControlInv
<1> QED
  BY <1>1, ControlInvariant, PTL

\* The forecast in force is always measured against a budget that was approved
\* and not rejected since.
THEOREM Measured == ControlSpec => []MeasuredAgainstApproved
<1>1. ControlInv => MeasuredAgainstApproved
  BY DEF ControlInv
<1> QED
  BY <1>1, ControlInvariant, PTL

\* What a forecast that was submitted, and not turned down, adds up as at its
\* cutoff is settled once that day is over.
THEOREM PastStands == ControlSpec => PastBasisStands
<1>1. ControlInv /\ [ControlNext]_controlVars => [PastKept]_controlVars
  BY ControlStep
<1>2. ControlSpec => [][PastKept]_controlVars
  BY <1>1, ControlInvariant, PTL DEF ControlSpec
<1> QED
  BY <1>2 DEF PastBasisStands, PastKept

-----------------------------------------------------------------------------
(* Budgets and forecasts are versions of record *)

\* A row that is written is a version that moves, and no other says anything new.
LEMMA BudgetRowMoves ==
    ASSUME budget \in [Budgets -> BudgetRow], NEW b \in Budgets, NEW row, ChangeBudget(b, row)
    PROVE  /\ BudgetStatus[b] = budget[b].status
           /\ BudgetStatus' = [BudgetStatus EXCEPT ![b] = row.status]
           /\ BudgetRecord!Writes(b)
           /\ row.effective = budget[b].effective /\ row.lines = budget[b].lines
                 => BudgetContent' = BudgetContent
           /\ row.status = budget[b].status => BudgetStatus' = BudgetStatus
<1>1. budget'[b] = row /\ \A a \in Budgets \ {b} : budget'[a] = budget[a]
  BY DEF ChangeBudget
<1>2. BudgetStatus' = [BudgetStatus EXCEPT ![b] = row.status]
  BY <1>1 DEF BudgetStatus
<1>3. BudgetRecord!Writes(b)
  BY <1>1 DEF BudgetContent, BudgetRecord!Writes
<1>4. row.effective = budget[b].effective /\ row.lines = budget[b].lines
         => BudgetContent' = BudgetContent
  BY <1>1 DEF BudgetContent
<1>5. row.status = budget[b].status => BudgetStatus' = BudgetStatus
  BY <1>1 DEF BudgetStatus
<1> QED
  BY <1>2, <1>3, <1>4, <1>5 DEF BudgetStatus

LEMMA BudgetStepRecorded ==
    ASSUME ControlInv, BudgetNext
    PROVE  BudgetRecord!Next
<1>1. budget \in [Budgets -> BudgetRow]
  BY DEF ControlInv, ControlTypeOK
<1>2. PICK b \in Budgets :
        \/ \E effective \in Days, source \in {0} \cup Budgets :
              create_budget(b, effective, source)
        \/ \E c \in Codes :
              \/ \E amount \in Authorised : set_budget_line(b, c, amount)
              \/ remove_budget_line(b, c)
        \/ submit_budget(b) \/ approve_budget(b) \/ reject_budget(b) \/ activate_budget(b)
  BY DEF BudgetNext
<1>3. BudgetRecord!Prepared = InPreparation
  BY DEF BudgetRecord!Prepared, InPreparation, BudgetStatus
<1>4. ASSUME NEW effective \in Days, NEW source \in {0} \cup Budgets,
             create_budget(b, effective, source)
      PROVE  BudgetRecord!Draft(b)
  <2> DEFINE row == [status |-> "draft", effective |-> effective,
                     lines |-> IF source = 0 THEN NoBudget.lines ELSE budget[source].lines]
  <2>1. budget[b].status = "none" /\ InPreparation = {} /\ ChangeBudget(b, row)
    BY <1>4, Numbers DEF create_budget, NextBudget
  <2>2. row.status = "draft"
    OBVIOUS
  <2> HIDE DEF row
  <2> QED
    BY <1>1, <1>3, <2>1, <2>2, BudgetRowMoves DEF BudgetRecord!Draft
<1>5. ASSUME NEW lines, budget[b].status = "draft",
             ChangeBudget(b, [budget[b] EXCEPT !.lines = lines])
      PROVE  BudgetRecord!Rewrite(b)
  <2> DEFINE row == [budget[b] EXCEPT !.lines = lines]
  <2>1. row.status = budget[b].status
    BY <1>1 DEF BudgetRow
  <2>2. ChangeBudget(b, row)
    BY <1>5
  <2> HIDE DEF row
  <2> QED
    BY <1>1, <1>5, <2>1, <2>2, BudgetRowMoves DEF BudgetRecord!Rewrite
<1>6. ASSUME NEW c \in Codes,
             (\E amount \in Authorised : set_budget_line(b, c, amount)) \/ remove_budget_line(b, c)
      PROVE  BudgetRecord!Rewrite(b)
  BY <1>5, <1>6 DEF set_budget_line, remove_budget_line
<1>7. ASSUME NEW status, NEW from, budget[b].status \in from,
             ChangeBudget(b, [budget[b] EXCEPT !.status = status])
      PROVE  BudgetRecord!Passes(b, from, status)
  <2> DEFINE row == [budget[b] EXCEPT !.status = status]
  <2>1. /\ row.status = status
        /\ row.effective = budget[b].effective /\ row.lines = budget[b].lines
    BY <1>1 DEF BudgetRow
  <2>2. ChangeBudget(b, row)
    BY <1>7
  <2> HIDE DEF row
  <2> QED
    BY <1>1, <1>7, <2>1, <2>2, BudgetRowMoves DEF BudgetRecord!Passes
<1>8. ASSUME submit_budget(b) PROVE BudgetRecord!Submit(b)
  BY <1>7, <1>8 DEF submit_budget, BudgetRecord!Submit
<1>9. ASSUME approve_budget(b) PROVE BudgetRecord!Approve(b)
  BY <1>7, <1>9 DEF approve_budget, BudgetRecord!Approve
<1>10. ASSUME reject_budget(b) PROVE BudgetRecord!Reject(b)
  <2>1. /\ budget[b].status \in {"draft", "submitted", "approved"}
        /\ ChangeBudget(b, [budget[b] EXCEPT !.status = "rejected"])
    BY <1>10 DEF reject_budget
  <2> QED
    BY <1>7, <2>1 DEF BudgetRecord!Reject
<1>11. ASSUME activate_budget(b) PROVE BudgetRecord!PutInForce(b)
  <2>1. /\ budget[b].status = "approved"
        /\ budget' = [a \in Budgets |->
              IF a = b THEN [budget[a] EXCEPT !.status = "active"]
              ELSE IF a \in InForce THEN [budget[a] EXCEPT !.status = "superseded"]
              ELSE budget[a]]
    BY <1>11 DEF activate_budget
  <2>2. \A a \in Budgets :
          /\ budget'[a].status = IF a = b THEN "active"
                                 ELSE IF budget[a].status = "active" THEN "superseded"
                                 ELSE budget[a].status
          /\ budget'[a].effective = budget[a].effective /\ budget'[a].lines = budget[a].lines
    BY <1>1, <2>1 DEF BudgetRow, InForce
  <2>3. BudgetContent' = BudgetContent
    BY <2>2 DEF BudgetContent
  <2>4. BudgetStatus' = [a \in Budgets |->
           IF a = b THEN "active"
           ELSE IF BudgetStatus[a] = "active" THEN "superseded" ELSE BudgetStatus[a]]
    BY <2>2 DEF BudgetStatus
  <2> QED
    BY <2>1, <2>3, <2>4 DEF BudgetRecord!PutInForce, BudgetStatus
<1> QED
  BY <1>2, <1>4, <1>6, <1>8, <1>9, <1>10, <1>11 DEF BudgetRecord!Next

LEMMA ForecastRowMoves ==
    ASSUME forecast \in [Forecasts -> ForecastRow], NEW f \in Forecasts, NEW row,
           ChangeForecast(f, row)
    PROVE  /\ ForecastStatus[f] = forecast[f].status
           /\ ForecastStatus' = [ForecastStatus EXCEPT ![f] = row.status]
           /\ ForecastRecord!Writes(f)
           /\ row.budget = forecast[f].budget /\ row.as_of = forecast[f].as_of
                 /\ row.lines = forecast[f].lines
                 => ForecastContent' = ForecastContent
           /\ row.status = forecast[f].status => ForecastStatus' = ForecastStatus
<1>1. forecast'[f] = row /\ \A g \in Forecasts \ {f} : forecast'[g] = forecast[g]
  BY DEF ChangeForecast
<1>2. ForecastStatus' = [ForecastStatus EXCEPT ![f] = row.status]
  BY <1>1 DEF ForecastStatus
<1>3. ForecastRecord!Writes(f)
  BY <1>1 DEF ForecastContent, ForecastRecord!Writes
<1>4. row.budget = forecast[f].budget /\ row.as_of = forecast[f].as_of
         /\ row.lines = forecast[f].lines
         => ForecastContent' = ForecastContent
  BY <1>1 DEF ForecastContent
<1>5. row.status = forecast[f].status => ForecastStatus' = ForecastStatus
  BY <1>1 DEF ForecastStatus
<1> QED
  BY <1>2, <1>3, <1>4, <1>5 DEF ForecastStatus

LEMMA ForecastStepRecorded ==
    ASSUME ControlInv, ForecastNext
    PROVE  ForecastRecord!Next
<1>1. forecast \in [Forecasts -> ForecastRow]
  BY DEF ControlInv, ControlTypeOK
<1>2. PICK f \in Forecasts :
        \/ \E b \in Budgets, as_of \in Days, source \in {0} \cup Forecasts :
              create_forecast(f, b, as_of, source)
        \/ \E c \in Codes, amount \in Remaining : set_forecast_line(f, c, amount)
        \/ submit_forecast(f) \/ approve_forecast(f) \/ reject_forecast(f)
        \/ activate_forecast(f)
  BY DEF ForecastNext
<1>3. ForecastRecord!Prepared = ForecastInPreparation
  BY DEF ForecastRecord!Prepared, ForecastInPreparation, ForecastStatus
<1>4. ASSUME NEW b \in Budgets, NEW as_of \in Days, NEW source \in {0} \cup Forecasts,
             create_forecast(f, b, as_of, source)
      PROVE  ForecastRecord!Draft(f)
  <2> DEFINE row == [status |-> "draft", budget |-> b, as_of |-> as_of,
                     lines |-> IF source = 0 THEN NoForecast.lines
                               ELSE forecast[source].lines]
  <2>1. forecast[f].status = "none" /\ ForecastInPreparation = {} /\ ChangeForecast(f, row)
    BY <1>4, Numbers DEF create_forecast, NextForecast
  <2>2. row.status = "draft"
    OBVIOUS
  <2> HIDE DEF row
  <2> QED
    BY <1>1, <1>3, <2>1, <2>2, ForecastRowMoves DEF ForecastRecord!Draft
<1>5. ASSUME NEW c \in Codes, NEW amount \in Remaining, set_forecast_line(f, c, amount)
      PROVE  ForecastRecord!Rewrite(f)
  <2> DEFINE row == [forecast[f] EXCEPT !.lines = WithLine(forecast[f].lines, c, amount)]
  <2>1. forecast[f].status \in {"draft", "rejected"} /\ ChangeForecast(f, row)
    BY <1>1, <1>5 DEF set_forecast_line, Frozen, ForecastRow
  <2>2. row.status = forecast[f].status
    BY <1>1 DEF ForecastRow
  <2> HIDE DEF row
  <2> QED
    BY <1>1, <2>1, <2>2, ForecastRowMoves DEF ForecastRecord!Rewrite
<1>6. ASSUME NEW status, NEW from, forecast[f].status \in from,
             ChangeForecast(f, [forecast[f] EXCEPT !.status = status])
      PROVE  ForecastRecord!Passes(f, from, status)
  <2> DEFINE row == [forecast[f] EXCEPT !.status = status]
  <2>1. /\ row.status = status
        /\ row.budget = forecast[f].budget /\ row.as_of = forecast[f].as_of
        /\ row.lines = forecast[f].lines
    BY <1>1 DEF ForecastRow
  <2>2. ChangeForecast(f, row)
    BY <1>6
  <2> HIDE DEF row
  <2> QED
    BY <1>1, <1>6, <2>1, <2>2, ForecastRowMoves DEF ForecastRecord!Passes
<1>7. ASSUME submit_forecast(f) PROVE ForecastRecord!Submit(f)
  BY <1>6, <1>7 DEF submit_forecast, ForecastRecord!Submit
<1>8. ASSUME approve_forecast(f) PROVE ForecastRecord!Approve(f)
  BY <1>6, <1>8 DEF approve_forecast, ForecastRecord!Approve
<1>9. ASSUME reject_forecast(f) PROVE ForecastRecord!Reject(f)
  <2>1. /\ forecast[f].status \in {"draft", "submitted", "approved"}
        /\ ChangeForecast(f, [forecast[f] EXCEPT !.status = "rejected"])
    BY <1>9 DEF reject_forecast
  <2> QED
    BY <1>6, <2>1 DEF ForecastRecord!Reject
<1>10. ASSUME activate_forecast(f) PROVE ForecastRecord!PutInForce(f)
  <2>1. /\ forecast[f].status = "approved"
        /\ forecast' = [g \in Forecasts |->
              IF g = f THEN [forecast[g] EXCEPT !.status = "active"]
              ELSE IF g \in ForecastInForce THEN [forecast[g] EXCEPT !.status = "superseded"]
              ELSE forecast[g]]
    BY <1>10 DEF activate_forecast
  <2>2. \A g \in Forecasts :
          /\ forecast'[g].status = IF g = f THEN "active"
                                   ELSE IF forecast[g].status = "active" THEN "superseded"
                                   ELSE forecast[g].status
          /\ forecast'[g].budget = forecast[g].budget
          /\ forecast'[g].as_of = forecast[g].as_of
          /\ forecast'[g].lines = forecast[g].lines
    BY <1>1, <2>1 DEF ForecastRow, ForecastInForce
  <2>3. ForecastContent' = ForecastContent
    BY <2>2 DEF ForecastContent
  <2>4. ForecastStatus' = [g \in Forecasts |->
           IF g = f THEN "active"
           ELSE IF ForecastStatus[g] = "active" THEN "superseded" ELSE ForecastStatus[g]]
    BY <2>2 DEF ForecastStatus
  <2> QED
    BY <2>1, <2>3, <2>4 DEF ForecastRecord!PutInForce, ForecastStatus
<1> QED
  BY <1>2, <1>4, <1>5, <1>7, <1>8, <1>9, <1>10 DEF ForecastRecord!Next

\* A step on one kind of version leaves the other alone, and a step on codes,
\* commitments or certificates leaves both.
LEMMA ControlStepRecorded ==
    ASSUME ControlInv, [ControlNext]_controlVars
    PROVE  [BudgetRecord!Next]_(BudgetRecord!record) /\ [ForecastRecord!Next]_(ForecastRecord!record)
<1>1. ASSUME UNCHANGED budget PROVE UNCHANGED BudgetRecord!record
  BY <1>1 DEF BudgetRecord!record, BudgetStatus, BudgetContent
<1>2. ASSUME UNCHANGED forecast PROVE UNCHANGED ForecastRecord!record
  BY <1>2 DEF ForecastRecord!record, ForecastStatus, ForecastContent
<1>3. ASSUME CodeNext \/ WorkNext \/ UNCHANGED controlVars
      PROVE  UNCHANGED <<budget, forecast>>
  BY <1>3 DEF CodeNext, create_cost_code, reparent_cost_code, recategorise_cost_code,
              retire_cost_code, ChangeCode, WorkNext, commit, certify, reverse, next_day,
              controlVars
<1>4. ASSUME BudgetNext PROVE UNCHANGED forecast
  BY <1>4 DEF BudgetNext, create_budget, set_budget_line, remove_budget_line, submit_budget,
              approve_budget, reject_budget, activate_budget, ChangeBudget
<1>5. ASSUME ForecastNext PROVE UNCHANGED budget
  BY <1>5 DEF ForecastNext, create_forecast, set_forecast_line, submit_forecast,
              approve_forecast, reject_forecast, activate_forecast, ChangeForecast
<1>6. CASE BudgetNext
  BY <1>2, <1>4, <1>6, BudgetStepRecorded
<1>7. CASE ForecastNext
  BY <1>1, <1>5, <1>7, ForecastStepRecorded
<1> QED
  BY <1>1, <1>2, <1>3, <1>6, <1>7 DEF ControlNext

\* Budgets and construction forecasts keep the promise of versioned documents for
\* any codes, amounts and numbers of versions: BudgetControl implements
\* VersionOfRecord twice over.
THEOREM ControlKeepsRecord == ControlSpec => ControlOfRecord
<1>1. ControlInit => BudgetRecord!Init /\ ForecastRecord!Init
  BY DEF ControlInit, NoBudget, NoForecast, BudgetRecord!Init, ForecastRecord!Init,
         BudgetStatus, ForecastStatus
<1>2. ControlInv /\ [ControlNext]_controlVars
         => /\ [BudgetRecord!Next]_(BudgetRecord!record)
            /\ [ForecastRecord!Next]_(ForecastRecord!record)
  BY ControlStepRecorded
<1> QED
  BY <1>1, <1>2, ControlInvariant, PTL
     DEF ControlSpec, ControlOfRecord, BudgetRecord!Spec, ForecastRecord!Spec

-----------------------------------------------------------------------------
(* The programme and what falls due on it *)

\* A version that was never in force has told the buyer no date.
NothingToldYet ==
    \A v \in PlanVersions : schedule_of[v].status \in {"none", "draft"}
        => \A s \in Slots : schedule_of[v].rows[s].due = 0

\* An attestation is of a manual instalment that was in force, is the only one
\* there, and has made nothing due before it is approved.
AttestedOnce ==
    \A a \in attested :
        /\ schedule_of[a.version].status \notin {"none", "draft"}
        /\ schedule_of[a.version].rows[a.slot].trigger = "manual"
        /\ a.status = "submitted" => schedule_of[a.version].rows[a.slot].due = 0
        /\ \A b \in attested : b.version = a.version /\ b.slot = a.slot => b = a

ProgrammeInv ==
    /\ ProgrammeTypeOK
    /\ ProgrammeCanStart
    /\ DueForAReason
    /\ NothingToldYet
    /\ AttestedOnce

-----------------------------------------------------------------------------
(* Dependencies *)

\* A dependency that closes no way back leaves every group a place to start: the
\* milestones it reaches are closed, so a group that meets them starts inside
\* them, and one that does not starts where it did.
LEMMA AddedKeepsStart ==
    ASSUME NEW m \in Milestones, NEW u \in Milestones, m \notin Upstream(u),
           depends \subseteq Milestones \X Milestones, ProgrammeCanStart,
           depends' = depends \cup {<<m, u>>}
    PROVE  ProgrammeCanStart'
<1>1. PICK T \in SUBSET Milestones :
         /\ u \in T /\ m \notin T
         /\ \A d \in depends : d[1] \in T => d[2] \in T
  BY DEF Upstream
<1>2. SUFFICES ASSUME NEW S \in SUBSET Milestones, S # {}
               PROVE  \E x \in S : \A n \in S : <<x, n>> \notin depends'
  BY DEF ProgrammeCanStart
<1>3. CASE S \cap T # {}
  <2>1. PICK x \in S \cap T : \A n \in S \cap T : <<x, n>> \notin depends
    BY <1>3 DEF ProgrammeCanStart
  <2>2. ASSUME NEW n \in S, <<x, n>> \in depends' PROVE FALSE
    <3>1. <<x, n>> \in depends
      BY <1>1, <2>1, <2>2
    <3>2. n \in T
      BY <1>1, <2>1, <3>1
    <3> QED
      BY <2>1, <3>1, <3>2
  <2> QED
    BY <2>1, <2>2
<1>4. CASE S \cap T = {}
  <2>1. PICK x \in S : \A n \in S : <<x, n>> \notin depends
    BY <1>2 DEF ProgrammeCanStart
  <2>2. \A n \in S : <<x, n>> \notin depends'
    BY <1>1, <1>4, <2>1
  <2> QED
    BY <2>2
<1> QED
  BY <1>3, <1>4

-----------------------------------------------------------------------------
(* Triggers *)

\* What firing a trigger does to each instalment.
LEMMA MadeDue ==
    ASSUME ProgrammeTypeOK, NEW t \in Triggers, NEW date \in Nat,
           schedule_of' = MakeDue(t, date)
    PROVE  /\ schedule_of' \in [PlanVersions -> PlanVersionRow]
           /\ \A v \in PlanVersions :
                 /\ schedule_of'[v].status = schedule_of[v].status
                 /\ \A s \in Slots :
                       LET row == schedule_of[v].rows[s]
                           new == schedule_of'[v].rows[s] IN
                       /\ new.trigger = row.trigger
                       /\ \/ new.due = row.due
                          \/ row.trigger = t /\ row.due = 0 /\ new.due = date
                             /\ schedule_of[v].status = "active"
                       /\ schedule_of[v].status = "active" /\ row.trigger = t
                             /\ row.due = 0 => new.due = date
<1>0. schedule_of \in [PlanVersions -> PlanVersionRow]
  BY DEF ProgrammeTypeOK
<1>1. ASSUME NEW v \in PlanVersions
      PROVE  /\ schedule_of'[v] \in PlanVersionRow
             /\ schedule_of'[v].status = schedule_of[v].status
             /\ \A s \in Slots :
                   schedule_of'[v].rows[s] =
                      IF s \in Waiting(v, t) THEN [schedule_of[v].rows[s] EXCEPT !.due = date]
                      ELSE schedule_of[v].rows[s]
  <2> DEFINE rows == [s \in Slots |->
                IF s \in Waiting(v, t) THEN [schedule_of[v].rows[s] EXCEPT !.due = date]
                ELSE schedule_of[v].rows[s]]
  <2>1. schedule_of[v] \in PlanVersionRow
    BY <1>0
  <2>2. \A s \in Slots : schedule_of[v].rows[s] \in InstalmentRow
    BY <2>1 DEF PlanVersionRow
  <2>3. rows \in [Slots -> InstalmentRow]
    BY <2>2 DEF InstalmentRow
  <2>4. schedule_of'[v] = [schedule_of[v] EXCEPT !.rows = rows]
    BY <2>1 DEF MakeDue, PlanVersionRow
  <2>5. \A s \in Slots : rows[s] =
          IF s \in Waiting(v, t) THEN [schedule_of[v].rows[s] EXCEPT !.due = date]
          ELSE schedule_of[v].rows[s]
    OBVIOUS
  <2> HIDE DEF rows
  <2>6. schedule_of'[v] = [status |-> schedule_of[v].status, rows |-> rows]
    BY <2>1, <2>4 DEF PlanVersionRow
  <2> QED
    BY <2>1, <2>3, <2>5, <2>6 DEF PlanVersionRow
<1>2. schedule_of' \in [PlanVersions -> PlanVersionRow]
  BY <1>1 DEF MakeDue
<1>3. ASSUME NEW v \in PlanVersions, NEW s \in Slots
      PROVE  /\ schedule_of'[v].rows[s].trigger = schedule_of[v].rows[s].trigger
             /\ s \in Waiting(v, t) => schedule_of'[v].rows[s].due = date
             /\ s \notin Waiting(v, t) =>
                   schedule_of'[v].rows[s].due = schedule_of[v].rows[s].due
  <2>1. schedule_of[v].rows[s] \in InstalmentRow
    BY <1>0 DEF PlanVersionRow
  <2> QED
    BY <1>1, <2>1 DEF InstalmentRow
<1> QED
  BY <1>1, <1>2, <1>3 DEF Waiting

\* What dating one instalment does.
LEMMA DueSet ==
    ASSUME ProgrammeTypeOK, NEW v \in PlanVersions, NEW s \in Slots, NEW date \in Nat,
           schedule_of' = SetDue(v, s, date)
    PROVE  /\ schedule_of' \in [PlanVersions -> PlanVersionRow]
           /\ \A w \in PlanVersions :
                 /\ schedule_of'[w].status = schedule_of[w].status
                 /\ \A x \in Slots :
                       /\ schedule_of'[w].rows[x].trigger = schedule_of[w].rows[x].trigger
                       /\ <<w, x>> # <<v, s>> =>
                             schedule_of'[w].rows[x].due = schedule_of[w].rows[x].due
           /\ schedule_of'[v].rows[s].due = date
<1>1. schedule_of[v] \in PlanVersionRow /\ schedule_of[v].rows \in [Slots -> InstalmentRow]
  BY DEF ProgrammeTypeOK, PlanVersionRow
<1> DEFINE rows == [schedule_of[v].rows EXCEPT ![s] =
                       [schedule_of[v].rows[s] EXCEPT !.due = date]]
<1>2. rows \in [Slots -> InstalmentRow]
  BY <1>1 DEF InstalmentRow
<1>3. schedule_of' = [schedule_of EXCEPT ![v] =
                         [schedule_of[v] EXCEPT !.rows = rows]]
  BY DEF SetDue
<1> HIDE DEF rows
<1>4. /\ schedule_of'[v] = [status |-> schedule_of[v].status, rows |-> rows]
      /\ \A w \in PlanVersions \ {v} : schedule_of'[w] = schedule_of[w]
  BY <1>1, <1>3 DEF ProgrammeTypeOK, PlanVersionRow
<1>5. schedule_of' \in [PlanVersions -> PlanVersionRow]
  BY <1>1, <1>2, <1>3 DEF ProgrammeTypeOK, PlanVersionRow
<1>6. \A x \in Slots : /\ rows[x].trigger = schedule_of[v].rows[x].trigger
                       /\ x # s => rows[x].due = schedule_of[v].rows[x].due
                       /\ rows[s].due = date
  BY <1>1 DEF rows, InstalmentRow
<1> QED
  BY <1>4, <1>5, <1>6

-----------------------------------------------------------------------------
(* Steps *)

\* A date the buyer was told stays or is withdrawn.
Told ==
    \A v \in PlanVersions : \A s \in Slots :
        LET row == schedule_of[v].rows[s] IN
        row.due # 0 /\ row.due # schedule_of'[v].rows[s].due
          => row.trigger = "manual" /\ schedule_of'[v].rows[s].due = 0

\* The invariant without the dependencies.
PlanInv == ProgrammeTypeOK /\ DueForAReason /\ NothingToldYet /\ AttestedOnce

\* The site may do anything with a milestone that is not certified.
LEMMA SiteStep ==
    ASSUME PlanInv, UNCHANGED plan_side,
           milestone' \in [Milestones -> MilestoneRow],
           depends' \subseteq Milestones \X Milestones,
           \A m \in Milestones :
               milestone[m].status = "certified" => milestone'[m] = milestone[m]
    PROVE  PlanInv' /\ Told
<1>1. ProgrammeTypeOK'
  BY DEF PlanInv, ProgrammeTypeOK, plan_side
<1>2. DueForAReason'
  BY DEF PlanInv, DueForAReason, Standing, plan_side
<1>3. NothingToldYet' /\ AttestedOnce' /\ Told
  BY DEF PlanInv, NothingToldYet, AttestedOnce, Told, plan_side
<1> QED
  BY <1>1, <1>2, <1>3 DEF PlanInv

\* A trigger fires: a milestone on its certification, or an event of the sale.
LEMMA FiredStep ==
    ASSUME PlanInv, NEW t \in Triggers, t # "manual", NEW date \in Nat,
           schedule_of' = MakeDue(t, date),
           attested' = attested, transferred' \in Nat, depends' = depends,
           milestone' \in [Milestones -> MilestoneRow],
           \A m \in Milestones :
               milestone[m].status = "certified" => milestone'[m] = milestone[m],
           t \in Milestones => /\ milestone[t].status # "certified"
                               /\ milestone'[t].status = "certified"
                               /\ milestone'[t].certified = date
    PROVE  PlanInv' /\ Told
<1>1. ProgrammeTypeOK
  BY DEF PlanInv
<1>2. /\ schedule_of' \in [PlanVersions -> PlanVersionRow]
      /\ \A v \in PlanVersions :
            /\ schedule_of'[v].status = schedule_of[v].status
            /\ \A s \in Slots :
                  LET row == schedule_of[v].rows[s]
                      new == schedule_of'[v].rows[s] IN
                  /\ new.trigger = row.trigger
                  /\ \/ new.due = row.due
                     \/ row.trigger = t /\ row.due = 0 /\ new.due = date
                        /\ schedule_of[v].status = "active"
  BY <1>1, MadeDue
<1>3. ProgrammeTypeOK'
  BY <1>1, <1>2 DEF ProgrammeTypeOK
<1>4. DueForAReason'
  <2>1. SUFFICES ASSUME NEW v \in PlanVersions, NEW s \in Slots
                 PROVE  LET row == schedule_of'[v].rows[s] IN
                        /\ row.trigger \in Milestones /\ row.due # 0
                              => /\ milestone'[row.trigger].status = "certified"
                                 /\ milestone'[row.trigger].certified = row.due
                        /\ row.trigger = "manual"
                              => \/ row.due = 0
                                 \/ \E a \in Standing(v, s) :
                                       a.status = "approved" /\ a.date = row.due
    BY DEF DueForAReason, Standing
  <2>2. CASE schedule_of'[v].rows[s].due = schedule_of[v].rows[s].due
    BY SMTT(30), <1>2, <2>2 DEF PlanInv, DueForAReason
  <2>3. CASE /\ schedule_of[v].rows[s].trigger = t
             /\ schedule_of'[v].rows[s].due = date
    BY <1>2, <2>3
  <2> QED
    BY <1>2, <2>2, <2>3
<1>5. NothingToldYet'
  BY <1>2 DEF PlanInv, NothingToldYet
<1>6. AttestedOnce'
  <2>1. \A a \in attested : a.version \in PlanVersions /\ a.slot \in Slots
    BY <1>1 DEF ProgrammeTypeOK, AttestationRow
  <2> QED
    BY <1>2, <2>1 DEF PlanInv, AttestedOnce
<1>7. Told
  BY <1>2 DEF Told
<1> QED
  BY <1>3, <1>4, <1>5, <1>6, <1>7 DEF PlanInv

\* A version is drawn, changed, rejected or put in force: the others keep their
\* rows, and those of this one that were not due before are dated or free.
LEMMA VersionStep ==
    ASSUME PlanInv, UNCHANGED <<site_side, attested, transferred>>,
           NEW v \in PlanVersions, schedule_of[v].status \in {"none", "draft"},
           schedule_of' \in [PlanVersions -> PlanVersionRow],
           \A s \in Slots : schedule_of'[v].rows[s].due = 0
                            \/ schedule_of'[v].rows[s].trigger = "dated",
           schedule_of'[v].status \in {"none", "draft"}
               => \A s \in Slots : schedule_of'[v].rows[s].due = 0,
           \A w \in PlanVersions \ {v} :
               /\ schedule_of'[w].rows = schedule_of[w].rows
               /\ schedule_of'[w].status \in {"none", "draft"}
                     <=> schedule_of[w].status \in {"none", "draft"}
    PROVE  PlanInv' /\ Told
<1>1. ProgrammeTypeOK'
  BY DEF PlanInv, ProgrammeTypeOK, site_side
<1>2. \A s \in Slots : schedule_of[v].rows[s].due = 0
  BY DEF PlanInv, NothingToldYet
<1>3. "dated" \notin Milestones /\ "dated" # "manual"
  BY ProgrammeAssumption
<1>4. DueForAReason'
  <2>1. SUFFICES ASSUME NEW w \in PlanVersions, NEW s \in Slots
                 PROVE  LET row == schedule_of'[w].rows[s] IN
                        /\ row.trigger \in Milestones /\ row.due # 0
                              => /\ milestone[row.trigger].status = "certified"
                                 /\ milestone[row.trigger].certified = row.due
                        /\ row.trigger = "manual"
                              => \/ row.due = 0
                                 \/ \E a \in Standing(w, s) :
                                       a.status = "approved" /\ a.date = row.due
    BY DEF DueForAReason, Standing, site_side
  <2>2. CASE w = v
    BY <1>3, <2>2
  <2>3. CASE w # v
    BY <2>3 DEF PlanInv, DueForAReason
  <2> QED
    BY <2>2, <2>3
<1>5. NothingToldYet'
  BY DEF PlanInv, NothingToldYet
<1>6. AttestedOnce'
  <2>1. \A a \in attested : a.version \in PlanVersions \ {v}
    BY DEF PlanInv, AttestedOnce, ProgrammeTypeOK, AttestationRow
  <2> QED
    BY <2>1 DEF PlanInv, AttestedOnce
<1>7. Told
  BY <1>2 DEF Told
<1> QED
  BY <1>1, <1>4, <1>5, <1>6, <1>7 DEF PlanInv

LEMMA CreateVersionStep ==
    ASSUME PlanInv, NEW v \in PlanVersions, create_version(v)
    PROVE  PlanInv' /\ Told
<1> DEFINE rows == [s \in Slots |->
               [trigger |-> IF GoverningVersion = {} THEN "dated"
                            ELSE schedule_of[CHOOSE w \in GoverningVersion : TRUE].rows[s].trigger,
                due |-> 0]]
<1>1. schedule_of \in [PlanVersions -> PlanVersionRow]
  BY DEF PlanInv, ProgrammeTypeOK
<1>2. schedule_of' = [schedule_of EXCEPT ![v] = [status |-> "draft", rows |-> rows]]
  BY DEF create_version
<1>3. ASSUME NEW s \in Slots PROVE rows[s] \in InstalmentRow /\ rows[s].due = 0
  <2>1. CASE GoverningVersion = {}
    BY <2>1 DEF InstalmentRow, Triggers
  <2>2. CASE GoverningVersion # {}
    <3>1. PICK w \in PlanVersions : w = (CHOOSE x \in GoverningVersion : TRUE)
      BY <2>2 DEF GoverningVersion
    <3>2. schedule_of[w].rows[s] \in InstalmentRow
      BY <1>1 DEF PlanVersionRow
    <3> QED
      BY <2>2, <3>1, <3>2 DEF InstalmentRow
  <2> QED
    BY <2>1, <2>2
<1>4. rows \in [Slots -> InstalmentRow]
  BY <1>3
<1> HIDE DEF rows
<1>5. schedule_of[v].status = "none"
  BY ProgrammeAssumption DEF create_version, NextVersion, PlanVersions
<1>6. schedule_of' \in [PlanVersions -> PlanVersionRow]
  BY <1>1, <1>2, <1>4 DEF PlanVersionRow
<1>7. /\ schedule_of'[v].rows = rows
      /\ \A w \in PlanVersions \ {v} : schedule_of'[w] = schedule_of[w]
  BY <1>1, <1>2
<1>8. UNCHANGED <<site_side, attested, transferred>>
  BY DEF create_version
<1> QED
  BY <1>3, <1>5, <1>6, <1>7, <1>8, VersionStep

LEMMA ReplaceRowStep ==
    ASSUME PlanInv, NEW v \in PlanVersions, NEW s \in Slots, NEW t \in Triggers,
           replace_row(v, s, t)
    PROVE  PlanInv' /\ Told
<1> DEFINE rows == [schedule_of[v].rows EXCEPT ![s] =
                       [schedule_of[v].rows[s] EXCEPT !.trigger = t]]
<1>1. schedule_of \in [PlanVersions -> PlanVersionRow]
  BY DEF PlanInv, ProgrammeTypeOK
<1>2. schedule_of[v].status = "draft"
  BY DEF replace_row, InDraft
<1>3. schedule_of[v].rows \in [Slots -> InstalmentRow]
  BY <1>1 DEF PlanVersionRow
<1>4. /\ rows \in [Slots -> InstalmentRow]
      /\ \A x \in Slots : rows[x].due = schedule_of[v].rows[x].due
  BY <1>3 DEF InstalmentRow
<1>5. schedule_of' = [schedule_of EXCEPT ![v] = [schedule_of[v] EXCEPT !.rows = rows]]
  BY DEF replace_row
<1> HIDE DEF rows
<1>6. schedule_of'[v] = [status |-> "draft", rows |-> rows]
  BY <1>1, <1>2, <1>5 DEF PlanVersionRow
<1>7. \A w \in PlanVersions \ {v} : schedule_of'[w] = schedule_of[w]
  BY <1>1, <1>5
<1>8. schedule_of' \in [PlanVersions -> PlanVersionRow]
  BY <1>1, <1>4, <1>5, <1>6 DEF PlanVersionRow
<1>9. \A x \in Slots : schedule_of'[v].rows[x].due = 0
  BY <1>2, <1>4, <1>6 DEF PlanInv, NothingToldYet
<1>10. UNCHANGED <<site_side, attested, transferred>>
  BY DEF replace_row
<1> QED
  BY <1>2, <1>7, <1>8, <1>9, <1>10, VersionStep

LEMMA RejectVersionStep ==
    ASSUME PlanInv, NEW v \in PlanVersions, reject_version(v)
    PROVE  PlanInv' /\ Told
<1>1. schedule_of \in [PlanVersions -> PlanVersionRow]
  BY DEF PlanInv, ProgrammeTypeOK
<1>2. schedule_of[v].status = "draft"
  BY DEF reject_version, InDraft
<1>3. /\ schedule_of' \in [PlanVersions -> PlanVersionRow]
      /\ schedule_of'[v].rows = schedule_of[v].rows
      /\ \A w \in PlanVersions \ {v} : schedule_of'[w] = schedule_of[w]
  BY <1>1 DEF reject_version, PlanVersionRow
<1>4. \A x \in Slots : schedule_of'[v].rows[x].due = 0
  BY <1>2, <1>3 DEF PlanInv, NothingToldYet
<1>5. UNCHANGED <<site_side, attested, transferred>>
  BY DEF reject_version
<1> QED
  BY <1>2, <1>3, <1>4, <1>5, VersionStep

LEMMA ActivateStep ==
    ASSUME PlanInv, NEW v \in PlanVersions, NEW date \in Dates,
           activate_version(v, date)
    PROVE  PlanInv' /\ Told
<1> DEFINE rows == [s \in Slots |->
                  IF schedule_of[v].rows[s].trigger = "dated"
                  THEN [trigger |-> "dated", due |-> date] ELSE schedule_of[v].rows[s]]
<1>1. schedule_of \in [PlanVersions -> PlanVersionRow]
  BY DEF PlanInv, ProgrammeTypeOK
<1>2. schedule_of[v].status = "draft"
  BY DEF activate_version, InDraft
<1>3. date \in Nat
  BY ProgrammeAssumption
<1>4. ASSUME NEW s \in Slots
      PROVE  rows[s] \in InstalmentRow /\ (rows[s].due = 0 \/ rows[s].trigger = "dated")
  <2>1. schedule_of[v].rows[s] \in InstalmentRow
    BY <1>1 DEF PlanVersionRow
  <2>2. schedule_of[v].rows[s].due = 0
    BY <1>2 DEF PlanInv, NothingToldYet
  <2> QED
    BY <1>3, <2>1, <2>2 DEF InstalmentRow, Triggers
<1>5. rows \in [Slots -> InstalmentRow]
  BY <1>4
<1>6. schedule_of' = [w \in PlanVersions |->
          IF w = v THEN [status |-> "active", rows |-> rows]
          ELSE IF w \in GoverningVersion THEN [schedule_of[w] EXCEPT !.status = "superseded"]
          ELSE schedule_of[w]]
  BY DEF activate_version
<1> HIDE DEF rows
<1>7. schedule_of'[v] = [status |-> "active", rows |-> rows]
  BY <1>6
<1>8. \A w \in PlanVersions \ {v} :
        /\ schedule_of'[w] \in PlanVersionRow
        /\ schedule_of'[w].rows = schedule_of[w].rows
        /\ schedule_of'[w].status \in {"none", "draft"}
              <=> schedule_of[w].status \in {"none", "draft"}
  BY <1>1, <1>6 DEF PlanVersionRow, GoverningVersion
<1>9. schedule_of'[v] \in PlanVersionRow
  BY <1>5, <1>7 DEF PlanVersionRow
<1>10. schedule_of' \in [PlanVersions -> PlanVersionRow]
  BY <1>6, <1>8, <1>9
<1>11. UNCHANGED <<site_side, attested, transferred>>
  BY DEF activate_version
<1> QED
  BY <1>2, <1>4, <1>7, <1>8, <1>10, <1>11, VersionStep

-----------------------------------------------------------------------------
(* Attestations *)

LEMMA SubmitManualStep ==
    ASSUME PlanInv, NEW v \in PlanVersions, NEW s \in Slots, NEW date \in Dates,
           submit_manual_trigger(v, s, date)
    PROVE  PlanInv' /\ Told
<1> DEFINE a == [version |-> v, slot |-> s, date |-> date, status |-> "submitted"]
<1>1. /\ schedule_of[v].status = "active" /\ schedule_of[v].rows[s].trigger = "manual"
      /\ schedule_of[v].rows[s].due = 0
      /\ Standing(v, s) = {}
  BY DEF submit_manual_trigger, Waiting
<1>2. attested' = attested \cup {a} /\ UNCHANGED <<site_side, schedule_of, transferred>>
  BY DEF submit_manual_trigger
<1>3. ProgrammeTypeOK'
  BY <1>2 DEF PlanInv, ProgrammeTypeOK, AttestationRow, site_side
<1>4. DueForAReason'
  BY <1>2 DEF PlanInv, DueForAReason, Standing, site_side
<1>5. NothingToldYet' /\ Told
  BY <1>2 DEF PlanInv, NothingToldYet, Told
<1>6. AttestedOnce'
  BY <1>1, <1>2 DEF PlanInv, AttestedOnce, Standing
<1> QED
  BY <1>3, <1>4, <1>5, <1>6 DEF PlanInv

LEMMA ApproveManualStep ==
    ASSUME PlanInv, NEW a \in attested, approve_manual_trigger(a)
    PROVE  PlanInv' /\ Told
<1> DEFINE b == [a EXCEPT !.status = "approved"]
<1>1. /\ a \in AttestationRow /\ a.status = "submitted"
      /\ schedule_of[a.version].rows[a.slot].trigger = "manual"
      /\ schedule_of[a.version].rows[a.slot].due = 0
      /\ \A c \in attested : c.version = a.version /\ c.slot = a.slot => c = a
  BY DEF PlanInv, ProgrammeTypeOK, AttestedOnce, approve_manual_trigger
<1>2. a.version \in PlanVersions /\ a.slot \in Slots /\ a.date \in Nat
  BY <1>1, ProgrammeAssumption DEF AttestationRow
<1>3. /\ b \in AttestationRow /\ b.version = a.version /\ b.slot = a.slot
      /\ b.date = a.date /\ b.status = "approved"
  BY <1>1 DEF AttestationRow
<1> HIDE DEF b
<1>4. /\ attested' = (attested \ {a}) \cup {b} /\ UNCHANGED <<site_side, transferred>>
      /\ schedule_of' = SetDue(a.version, a.slot, a.date)
  BY DEF approve_manual_trigger, b
<1>5. /\ schedule_of' \in [PlanVersions -> PlanVersionRow]
      /\ \A w \in PlanVersions :
            /\ schedule_of'[w].status = schedule_of[w].status
            /\ \A x \in Slots :
                  /\ schedule_of'[w].rows[x].trigger = schedule_of[w].rows[x].trigger
                  /\ <<w, x>> # <<a.version, a.slot>> =>
                        schedule_of'[w].rows[x].due = schedule_of[w].rows[x].due
      /\ schedule_of'[a.version].rows[a.slot].due = a.date
  BY <1>2, <1>4, DueSet DEF PlanInv
<1>6. ProgrammeTypeOK'
  BY <1>3, <1>4, <1>5 DEF PlanInv, ProgrammeTypeOK, site_side
<1>7. DueForAReason'
  <2>1. SUFFICES ASSUME NEW v \in PlanVersions, NEW s \in Slots
                 PROVE  LET row == schedule_of'[v].rows[s] IN
                        /\ row.trigger \in Milestones /\ row.due # 0
                              => /\ milestone[row.trigger].status = "certified"
                                 /\ milestone[row.trigger].certified = row.due
                        /\ row.trigger = "manual"
                              => \/ row.due = 0
                                 \/ \E c \in Standing(v, s)' :
                                       c.status = "approved" /\ c.date = row.due
    BY <1>4 DEF DueForAReason, site_side
  <2>2. CASE v = a.version /\ s = a.slot
    <3>1. b \in Standing(v, s)'
      BY <1>3, <1>4, <2>2 DEF Standing
    <3>2. "manual" \notin Milestones
      BY ProgrammeAssumption
    <3> QED
      BY <1>1, <1>3, <1>5, <2>2, <3>1, <3>2
  <2>3. CASE <<v, s>> # <<a.version, a.slot>>
    <3>1. \A c \in Standing(v, s) : c \in Standing(v, s)'
      BY <1>4, <2>3 DEF Standing
    <3> QED
      BY SMTT(30), <1>5, <2>3, <3>1 DEF PlanInv, DueForAReason
  <2> QED
    BY <2>2, <2>3
<1>8. NothingToldYet'
  BY <1>1, <1>2, <1>5 DEF PlanInv, NothingToldYet, AttestedOnce
<1>9. AttestedOnce'
  <2>1. SUFFICES ASSUME NEW c \in attested'
                 PROVE  /\ schedule_of'[c.version].status \notin {"none", "draft"}
                        /\ schedule_of'[c.version].rows[c.slot].trigger = "manual"
                        /\ c.status = "submitted"
                              => schedule_of'[c.version].rows[c.slot].due = 0
                        /\ \A d \in attested' :
                              d.version = c.version /\ d.slot = c.slot => d = c
    BY DEF AttestedOnce
  <2>2. CASE c = b
    BY ZenonT(40), <1>1, <1>2, <1>3, <1>4, <1>5, <2>2 DEF PlanInv, AttestedOnce
  <2>3. CASE c # b
    <3>1. c \in attested /\ c # a
      BY <1>4, <2>3
    <3>2. c.version \in PlanVersions /\ c.slot \in Slots
      BY <3>1 DEF PlanInv, ProgrammeTypeOK, AttestationRow
    <3>3. c.version # a.version \/ c.slot # a.slot
      BY <1>1, <3>1
    <3> QED
      BY <1>3, <1>4, <1>5, <3>1, <3>2, <3>3 DEF PlanInv, AttestedOnce
  <2> QED
    BY <2>2, <2>3
<1>10. Told
  BY <1>1, <1>5 DEF Told
<1> QED
  BY <1>6, <1>7, <1>8, <1>9, <1>10 DEF PlanInv

LEMMA ReverseManualStep ==
    ASSUME PlanInv, NEW a \in attested, reverse_manual_trigger(a)
    PROVE  PlanInv' /\ Told
<1>1. /\ a \in AttestationRow /\ a.status = "approved"
      /\ schedule_of[a.version].status \notin {"none", "draft"}
      /\ schedule_of[a.version].rows[a.slot].trigger = "manual"
      /\ \A c \in attested : c.version = a.version /\ c.slot = a.slot => c = a
  BY DEF PlanInv, ProgrammeTypeOK, AttestedOnce, reverse_manual_trigger
<1>2. a.version \in PlanVersions /\ a.slot \in Slots
  BY <1>1 DEF AttestationRow
<1>3. /\ attested' = attested \ {a} /\ UNCHANGED <<site_side, transferred>>
      /\ schedule_of' = SetDue(a.version, a.slot, 0)
  BY DEF reverse_manual_trigger
<1>4. /\ schedule_of' \in [PlanVersions -> PlanVersionRow]
      /\ \A w \in PlanVersions :
            /\ schedule_of'[w].status = schedule_of[w].status
            /\ \A x \in Slots :
                  /\ schedule_of'[w].rows[x].trigger = schedule_of[w].rows[x].trigger
                  /\ <<w, x>> # <<a.version, a.slot>> =>
                        schedule_of'[w].rows[x].due = schedule_of[w].rows[x].due
      /\ schedule_of'[a.version].rows[a.slot].due = 0
  BY <1>2, <1>3, DueSet DEF PlanInv
<1>5. ProgrammeTypeOK'
  BY <1>3, <1>4 DEF PlanInv, ProgrammeTypeOK, site_side
<1>6. DueForAReason'
  <2>1. SUFFICES ASSUME NEW v \in PlanVersions, NEW s \in Slots
                 PROVE  LET row == schedule_of'[v].rows[s] IN
                        /\ row.trigger \in Milestones /\ row.due # 0
                              => /\ milestone[row.trigger].status = "certified"
                                 /\ milestone[row.trigger].certified = row.due
                        /\ row.trigger = "manual"
                              => \/ row.due = 0
                                 \/ \E c \in Standing(v, s)' :
                                       c.status = "approved" /\ c.date = row.due
    BY <1>3 DEF DueForAReason, site_side
  <2>2. CASE v = a.version /\ s = a.slot
    BY <1>4, <2>2
  <2>3. CASE <<v, s>> # <<a.version, a.slot>>
    <3>1. \A c \in Standing(v, s) : c \in Standing(v, s)'
      BY <1>3, <2>3 DEF Standing
    <3> QED
      BY <1>4, <2>3, <3>1 DEF PlanInv, DueForAReason
  <2> QED
    BY <2>2, <2>3
<1>7. NothingToldYet'
  BY <1>4 DEF PlanInv, NothingToldYet
<1>8. AttestedOnce'
  <2>1. \A c \in attested' : c \in attested /\ c.version \in PlanVersions /\ c.slot \in Slots
    BY <1>3 DEF PlanInv, ProgrammeTypeOK, AttestationRow
  <2>2. \A c \in attested' : c.version # a.version \/ c.slot # a.slot
    BY <1>1, <1>3
  <2> QED
    BY <1>4, <2>1, <2>2 DEF PlanInv, AttestedOnce
<1>9. Told
  BY <1>1, <1>4 DEF Told
<1> QED
  BY <1>5, <1>6, <1>7, <1>8, <1>9 DEF PlanInv

-----------------------------------------------------------------------------
(* The specification *)

LEMMA ProgrammeStart ==
    ASSUME ProgrammeInit
    PROVE  ProgrammeInv
<1>1. ProgrammeTypeOK
  BY DEF ProgrammeInit, ProgrammeTypeOK, NoMilestone, Unscheduled, MilestoneRow,
         PlanVersionRow, InstalmentRow, Triggers
<1>2. ProgrammeCanStart
  BY DEF ProgrammeInit, ProgrammeCanStart
<1>3. DueForAReason /\ NothingToldYet
  BY DEF ProgrammeInit, DueForAReason, NothingToldYet, Unscheduled
<1>4. AttestedOnce
  BY DEF ProgrammeInit, AttestedOnce
<1> QED
  BY <1>1, <1>2, <1>3, <1>4 DEF ProgrammeInv

LEMMA SiteNextStep ==
    ASSUME ProgrammeInv, SiteNext
    PROVE  ProgrammeInv' /\ Told
<1>1. PlanInv /\ milestone \in [Milestones -> MilestoneRow]
      /\ depends \subseteq Milestones \X Milestones
  BY DEF ProgrammeInv, PlanInv, ProgrammeTypeOK
<1>2. SUFFICES ASSUME NEW m \in Milestones,
                      \/ create_milestone(m) \/ cancel_milestone(m)
                      \/ \E date \in Dates : achieve_milestone(m, date) \/ certify_milestone(m, date)
                      \/ \E n \in Milestones :
                            add_milestone_dependency(m, n) \/ remove_milestone_dependency(m, n)
               PROVE  PlanInv' /\ Told /\ ProgrammeCanStart'
  BY DEF SiteNext, ProgrammeInv, PlanInv
<1>3. ASSUME depends' = depends PROVE ProgrammeCanStart'
  BY <1>3 DEF ProgrammeInv, ProgrammeCanStart
<1>4. CASE create_milestone(m)
  <2>1. /\ milestone' \in [Milestones -> MilestoneRow]
        /\ \A x \in Milestones :
              milestone[x].status = "certified" => milestone'[x] = milestone[x]
    BY <1>1, <1>4 DEF create_milestone, Listed, MilestoneRow
  <2>2. UNCHANGED <<depends, plan_side>>
    BY <1>4 DEF create_milestone
  <2> QED
    BY <1>1, <1>3, <2>1, <2>2, SiteStep
<1>5. CASE cancel_milestone(m)
  <2>1. /\ milestone' \in [Milestones -> MilestoneRow]
        /\ \A x \in Milestones :
              milestone[x].status = "certified" => milestone'[x] = milestone[x]
    BY <1>1, <1>5 DEF cancel_milestone, MilestoneRow
  <2>2. UNCHANGED <<depends, plan_side>>
    BY <1>5 DEF cancel_milestone
  <2> QED
    BY <1>1, <1>3, <2>1, <2>2, SiteStep
<1>6. ASSUME NEW date \in Dates, achieve_milestone(m, date)
      PROVE  PlanInv' /\ Told /\ ProgrammeCanStart'
  <2>1. /\ milestone' \in [Milestones -> MilestoneRow]
        /\ \A x \in Milestones :
              milestone[x].status = "certified" => milestone'[x] = milestone[x]
    BY <1>1, <1>6 DEF achieve_milestone, MilestoneRow
  <2>2. UNCHANGED <<depends, plan_side>>
    BY <1>6 DEF achieve_milestone
  <2> QED
    BY <1>1, <1>3, <2>1, <2>2, SiteStep
<1>7. ASSUME NEW date \in Dates, certify_milestone(m, date)
      PROVE  PlanInv' /\ Told /\ ProgrammeCanStart'
  <2>1. date \in Nat /\ m \in Triggers /\ m # "manual"
    BY ProgrammeAssumption DEF Triggers
  <2>2. /\ milestone' \in [Milestones -> MilestoneRow]
        /\ \A x \in Milestones :
              milestone[x].status = "certified" => milestone'[x] = milestone[x]
        /\ milestone[m].status # "certified"
        /\ milestone'[m].status = "certified" /\ milestone'[m].certified = date
    BY <1>1, <1>7, <2>1 DEF certify_milestone, MilestoneRow
  <2>3. /\ schedule_of' = MakeDue(m, date)
        /\ depends' = depends /\ attested' = attested /\ transferred' = transferred
    BY <1>7 DEF certify_milestone
  <2>4. transferred \in Nat
    BY DEF ProgrammeInv, ProgrammeTypeOK
  <2> QED
    BY <1>1, <1>3, <2>1, <2>2, <2>3, <2>4, FiredStep
<1>8. ASSUME NEW n \in Milestones, add_milestone_dependency(m, n)
      PROVE  PlanInv' /\ Told /\ ProgrammeCanStart'
  <2>1. /\ m \notin Upstream(n) /\ depends' = depends \cup {<<m, n>>}
        /\ UNCHANGED <<milestone, plan_side>>
    BY <1>8 DEF add_milestone_dependency
  <2>2. PlanInv' /\ Told
    BY <1>1, <2>1, SiteStep
  <2>3. ProgrammeCanStart'
    BY <1>1, <2>1, AddedKeepsStart DEF ProgrammeInv
  <2> QED
    BY <2>2, <2>3
<1>9. ASSUME NEW n \in Milestones, remove_milestone_dependency(m, n)
      PROVE  PlanInv' /\ Told /\ ProgrammeCanStart'
  <2>1. depends' \subseteq depends /\ UNCHANGED <<milestone, plan_side>>
    BY <1>9 DEF remove_milestone_dependency
  <2>2. PlanInv' /\ Told
    BY <1>1, <2>1, SiteStep
  <2>3. ProgrammeCanStart'
    BY <2>1 DEF ProgrammeInv, ProgrammeCanStart
  <2> QED
    BY <2>2, <2>3
<1> QED
  BY <1>2, <1>4, <1>5, <1>6, <1>7, <1>8, <1>9

LEMMA PlanNextStep ==
    ASSUME ProgrammeInv, PlanNext
    PROVE  ProgrammeInv' /\ Told
<1>1. /\ PlanInv /\ milestone \in [Milestones -> MilestoneRow]
      /\ depends \subseteq Milestones \X Milestones /\ transferred \in Nat
  BY DEF ProgrammeInv, PlanInv, ProgrammeTypeOK
<1>2. depends' = depends
  BY DEF PlanNext, create_version, reject_version, activate_version, replace_row,
         submit_manual_trigger, approve_manual_trigger, reverse_manual_trigger,
         refresh_triggers, record_transfer, reverse_transfer, site_side
<1>3. ProgrammeCanStart'
  BY <1>2 DEF ProgrammeInv, ProgrammeCanStart
<1>4. SUFFICES PlanInv' /\ Told
  BY <1>3 DEF ProgrammeInv, PlanInv
<1>5. ASSUME NEW v \in PlanVersions,
             \/ create_version(v) \/ reject_version(v)
             \/ \E date \in Dates : activate_version(v, date)
             \/ \E s \in Slots :
                   \/ \E t \in Triggers : replace_row(v, s, t)
                   \/ \E date \in Dates : submit_manual_trigger(v, s, date)
      PROVE  PlanInv' /\ Told
  BY <1>1, <1>5, CreateVersionStep, RejectVersionStep, ActivateStep, ReplaceRowStep,
     SubmitManualStep
<1>6. ASSUME NEW a \in attested, approve_manual_trigger(a) \/ reverse_manual_trigger(a)
      PROVE  PlanInv' /\ Told
  BY <1>1, <1>6, ApproveManualStep, ReverseManualStep
<1>7. CASE refresh_triggers
  <2>1. "title" \in Triggers /\ "title" \notin Milestones /\ "title" # "manual"
    BY ProgrammeAssumption DEF Triggers
  <2>2. /\ schedule_of' = MakeDue("title", transferred) /\ milestone' = milestone
        /\ attested' = attested /\ transferred' = transferred
    BY <1>7 DEF refresh_triggers, site_side
  <2> QED
    BY <1>1, <1>2, <2>1, <2>2, FiredStep
<1>8. ASSUME \/ \E date \in Dates : record_transfer(date)
             \/ reverse_transfer
      PROVE  PlanInv' /\ Told
  <2>1. /\ UNCHANGED <<milestone, depends, schedule_of, attested>>
        /\ transferred' \in Nat
    BY <1>8, ProgrammeAssumption DEF record_transfer, reverse_transfer, site_side
  <2> QED
    BY SMTT(30), <1>1, <2>1 DEF PlanInv, ProgrammeTypeOK, DueForAReason, Standing,
                      NothingToldYet, AttestedOnce, Told
<1> QED
  BY <1>5, <1>6, <1>7, <1>8 DEF PlanNext

LEMMA ProgrammeStep ==
    ASSUME ProgrammeInv, [ProgrammeNext]_programmeVars
    PROVE  ProgrammeInv' /\ [Told]_programmeVars
<1>1. CASE ProgrammeNext
  BY <1>1, SiteNextStep, PlanNextStep DEF ProgrammeNext
<1>2. CASE UNCHANGED programmeVars
  BY SMTT(30), <1>2 DEF ProgrammeInv, ProgrammeTypeOK, ProgrammeCanStart, DueForAReason, Standing,
              NothingToldYet, AttestedOnce, programmeVars
<1> QED
  BY <1>1, <1>2

\* The graph can start, and what is due on a schedule is due for a reason.
THEOREM ProgrammeInvariant == ProgrammeSpec => []ProgrammeInv
<1>1. ProgrammeInit => ProgrammeInv
  BY ProgrammeStart
<1>2. ProgrammeInv /\ [ProgrammeNext]_programmeVars => ProgrammeInv'
  BY ProgrammeStep
<1> QED
  BY <1>1, <1>2, PTL DEF ProgrammeSpec

\* Every table keeps its columns' types.
THEOREM ProgrammeTyped == ProgrammeSpec => []ProgrammeTypeOK
<1>1. ProgrammeInv => ProgrammeTypeOK
  BY DEF ProgrammeInv
<1> QED
  BY <1>1, ProgrammeInvariant, PTL

\* add_milestone_dependency's search keeps every programme startable, however
\* many milestones it has.
THEOREM CanStart == ProgrammeSpec => []ProgrammeCanStart
<1>1. ProgrammeInv => ProgrammeCanStart
  BY DEF ProgrammeInv
<1> QED
  BY <1>1, ProgrammeInvariant, PTL

\* No instalment of any schedule falls due but on the date its milestone was
\* certified, or on one that stands attested and approved.
THEOREM DueReason == ProgrammeSpec => []DueForAReason
<1>1. ProgrammeInv => DueForAReason
  BY DEF ProgrammeInv
<1> QED
  BY <1>1, ProgrammeInvariant, PTL

\* A due date the buyer was told is never moved to another date.
THEOREM DueStands == ProgrammeSpec => DueDateStands
<1>1. ProgrammeInv /\ [ProgrammeNext]_programmeVars => [Told]_programmeVars
  BY ProgrammeStep
<1>2. ProgrammeSpec => [][Told]_programmeVars
  BY <1>1, ProgrammeInvariant, PTL DEF ProgrammeSpec
<1> QED
  BY <1>2 DEF DueDateStands, Told
-----------------------------------------------------------------------------
(* The administrators *)

\* What a request at work read and counted still holds of what is committed, as far
\* as a deactivation by somebody else leaves it: its user can have lost, not gained;
\* whom it counted are administrators, active or not; and a request that was cleared
\* to take its user's place away holds the row of another administrator.
RequestSound(r) ==
    LET u == request[r].of
        step == request[r].step
    IN  step # "idle" =>
          /\ user[u].exists
          /\ user[u].active => request[r].was.active
          /\ user[u].admin => request[r].was.admin
          /\ step = "counted" =>
               /\ u \in ActiveAdmins => u \in request[r].seen
               /\ \A w \in request[r].seen : user[w].exists /\ user[w].admin
          /\ step = "cleared" /\ Guarded(request[r].change) /\ ~KeepsAdmin(r)
               /\ u \in ActiveAdmins
               => \E w \in request[r].locked : w # u /\ w \in ActiveAdmins

AccessInv ==
    /\ AccessTypeOK
    /\ AnAdministratorRemains
    /\ Apart
    /\ \A u \in Users : user[u].active => user[u].exists
    /\ \A r \in Requests : RequestSound(r)

\* To a request a user that was there may only have lost its place.
Lowered(v) ==
    user[v].exists =>
        /\ user'[v].exists
        /\ user'[v].active => user[v].active
        /\ user'[v].admin = user[v].admin

\* A request that others work beside stays sound if they only take places away, and
\* no place whose row it holds.
LEMMA OthersSound ==
    ASSUME AccessInv, AccessTypeOK', NEW r \in Requests,
           request[r].step # "idle" => request'[r] = request[r],
           request[r].step = "idle" => request'[r].step = "idle",
           \A v \in Users : Lowered(v),
           \A v \in request[r].locked :
               v \in ActiveAdmins => v \in ActiveAdmins'
    PROVE  RequestSound(r)'
<1>1. CASE request[r].step = "idle"
  BY <1>1 DEF RequestSound
<1>2. CASE request[r].step # "idle"
  <2> DEFINE u == request[r].of
  <2>1. u \in Users /\ request'[r] = request[r] /\ RequestSound(r)
    BY <1>2 DEF AccessInv, AccessTypeOK, RequestRow
  <2>2. user[u].exists /\ Lowered(u)
    BY <1>2, <2>1 DEF RequestSound
  <2>3. /\ user'[u].exists
        /\ user'[u].active => request[r].was.active
        /\ user'[u].admin => request[r].was.admin
    BY <1>2, <2>1, <2>2 DEF RequestSound, Lowered
  <2>4. u \in ActiveAdmins' => u \in ActiveAdmins
    BY <2>1, <2>2 DEF ActiveAdmins, Lowered
  <2>5. ASSUME request[r].step = "counted"
        PROVE  /\ u \in ActiveAdmins' => u \in request[r].seen
               /\ \A w \in request[r].seen : user'[w].exists /\ user'[w].admin
    <3>1. request[r].seen \subseteq Users
      BY DEF AccessInv, AccessTypeOK, RequestRow
    <3>2. \A w \in request[r].seen : user[w].exists /\ user[w].admin
      BY <1>2, <2>1, <2>5 DEF RequestSound
    <3>3. u \in ActiveAdmins => u \in request[r].seen
      BY <1>2, <2>1, <2>5 DEF RequestSound
    <3> QED  BY <2>4, <3>1, <3>2, <3>3 DEF Lowered
  <2>6. ASSUME request[r].step = "cleared", Guarded(request[r].change), ~KeepsAdmin(r),
               u \in ActiveAdmins'
        PROVE  \E w \in request[r].locked : w # u /\ w \in ActiveAdmins'
    <3>1. \E w \in request[r].locked : w # u /\ w \in ActiveAdmins
      BY <1>2, <2>1, <2>4, <2>6 DEF RequestSound
    <3> QED  BY <3>1
  <2>7. KeepsAdmin(r)' <=> KeepsAdmin(r)
    BY <2>1 DEF KeepsAdmin
  <2> QED  BY <1>2, <2>1, <2>3, <2>5, <2>6, <2>7 DEF RequestSound, Guarded
<1> QED  BY <1>1, <1>2

\* What r does to its own row of the table of requests leaves the others alone.
LEMMA OneRequest ==
    ASSUME AccessTypeOK, NEW r \in Requests, NEW new, Set(r, new)
    PROVE  /\ request'[r] = new
           /\ \A q \in Requests \ {r} : request'[q] = request[q]
BY DEF AccessTypeOK, Set

LEMMA RowsTyped ==
    ASSUME AccessTypeOK, user' \in [Users -> UserRow], NEW r \in Requests,
           NEW new \in RequestRow, new.step # "idle" => new.of \in Users, Set(r, new)
    PROVE  AccessTypeOK'
BY DEF AccessTypeOK, Set

LEMMA AccessTypes ==
    ASSUME AccessTypeOK, AccessNext
    PROVE  AccessTypeOK'
<1>0. /\ user \in [Users -> UserRow] /\ request \in [Requests -> RequestRow]
      /\ \A r \in Requests : request[r].step # "idle" => request[r].of \in Users
  BY DEF AccessTypeOK
<1>a. /\ Idle \in RequestRow /\ Idle.step = "idle"
      /\ \A c \in Changes : c \in [active : Answers, admin : Answers]
      /\ ActiveAdmins \subseteq Users
  BY DEF Idle, RequestRow, UserRow, NoUser, Deactivate, Answers, Changes, ActiveAdmins
<1>1. ASSUME NEW u \in Users, NEW admin \in BOOLEAN, create_user(u, admin)
      PROVE  AccessTypeOK'
  BY <1>0, <1>1 DEF create_user, AccessTypeOK, UserRow
<1>2. ASSUME NEW r \in Requests, NEW u \in Users, NEW c \in Changes, read_user(r, u, c)
      PROVE  AccessTypeOK'
  <2> DEFINE new == [Idle EXCEPT !.step = IF Guarded(c) THEN "read" ELSE "cleared",
                                 !.of = u, !.change = c, !.was = user[u]]
  <2>1. new \in RequestRow /\ new.of = u
    BY <1>0, <1>a DEF RequestRow, Idle
  <2> QED  BY <1>0, <1>2, <2>1, RowsTyped DEF read_user
<1>3. ASSUME NEW r \in Requests, count_admins(r)
      PROVE  AccessTypeOK'
  <2> DEFINE new == [request[r] EXCEPT !.step = "counted", !.seen = ActiveAdmins]
  <2>1. new \in RequestRow /\ new.of = request[r].of /\ request[r].of \in Users
    BY <1>0, <1>a, <1>3 DEF RequestRow, count_admins
  <2> QED  BY <1>0, <1>3, <2>1, RowsTyped DEF count_admins
<1>4. ASSUME NEW r \in Requests, _guard_last_system_admin(r)
      PROVE  AccessTypeOK'
  <2> DEFINE new == [request[r] EXCEPT !.step = "cleared", !.locked = request[r].seen]
  <2>1. new \in RequestRow /\ new.of = request[r].of /\ request[r].of \in Users
    BY <1>0, <1>4 DEF RequestRow, _guard_last_system_admin
  <2>2. user' = user /\ (Set(r, Idle) \/ Set(r, new))
    BY <1>4 DEF _guard_last_system_admin
  <2> QED  BY <1>0, <1>a, <2>1, <2>2, RowsTyped
<1>5. ASSUME NEW r \in Requests, update_user(r)
      PROVE  AccessTypeOK'
  <2> DEFINE u == request[r].of
             c == request[r].change
  <2>1. u \in Users
    BY <1>0, <1>5 DEF update_user
  <2>2. PICK a \in BOOLEAN, b \in BOOLEAN :
            user' = [user EXCEPT ![u] = [user[u] EXCEPT !.admin = b, !.active = a]]
    <3>1. Then(c.admin, user[u].admin) \in BOOLEAN /\ user[u].active \in BOOLEAN
      BY <1>0, <2>1 DEF Then, UserRow
    <3> QED  BY <1>0, <1>5, <2>1, <3>1 DEF update_user
  <2>3. user' \in [Users -> UserRow]
    BY <1>0, <2>1, <2>2 DEF UserRow
  <2>4. Set(r, Idle)
    BY <1>5 DEF update_user
  <2> QED  BY <1>a, <2>3, <2>4, RowsTyped
<1>6. ASSUME NEW r \in Requests, rollback(r)
      PROVE  AccessTypeOK'
  BY <1>0, <1>a, <1>6, RowsTyped DEF rollback
<1> QED  BY <1>1, <1>2, <1>3, <1>4, <1>5, <1>6 DEF AccessNext

\* A step that leaves the users alone, or only adds one, disturbs no request but its own.
LEMMA UsersStand ==
    ASSUME AccessInv, AccessTypeOK', NEW r \in Requests,
           request[r].step # "idle" => request'[r] = request[r],
           request[r].step = "idle" => request'[r].step = "idle",
           \A v \in Users : user[v].exists => user'[v] = user[v]
    PROVE  RequestSound(r)'
<1>1. \A v \in Users : Lowered(v)
  BY DEF Lowered
<1>2. request[r].locked \subseteq Users
  BY DEF AccessInv, AccessTypeOK, RequestRow, UserRow
<1>3. \A v \in Users : v \in ActiveAdmins => v \in ActiveAdmins'
  BY DEF AccessInv, ActiveAdmins
<1> QED  BY <1>1, <1>2, <1>3, OthersSound

\* A user is created: every administrator stays one.
LEMMA CreateKeepsInv ==
    ASSUME AccessInv, AccessTypeOK', Apart', NEW u \in Users, NEW admin \in BOOLEAN,
           create_user(u, admin)
    PROVE  AccessInv'
<1>1. \A v \in Users : user[v].exists => user'[v] = user[v]
  BY DEF create_user, AccessInv, AccessTypeOK
<1>2. \A v \in Users : v \in ActiveAdmins => v \in ActiveAdmins'
  BY <1>1 DEF AccessInv, ActiveAdmins
<1>3. AnAdministratorRemains'
  <2>1. PICK v \in Users : v \in ActiveAdmins
    BY DEF AccessInv, AnAdministratorRemains, ActiveAdmins
  <2> QED  BY <1>2, <2>1 DEF AnAdministratorRemains
<1>4. \A v \in Users : user'[v].active => user'[v].exists
  BY DEF create_user, AccessInv, AccessTypeOK
<1>5. \A r \in Requests : RequestSound(r)'
  <2> TAKE r \in Requests
  <2>1. request' = request
    BY DEF create_user
  <2> QED  BY <1>1, <2>1, UsersStand
<1> QED  BY <1>3, <1>4, <1>5 DEF AccessInv

\* A request moves on and nothing is written: the others stay sound, so it is enough
\* that it does.
LEMMA NothingWritten ==
    ASSUME AccessInv, AccessTypeOK', Apart', NEW r \in Requests, NEW new, Set(r, new),
           user' = user, RequestSound(r)'
    PROVE  AccessInv'
<1>1. \A q \in Requests \ {r} : request'[q] = request[q]
  BY OneRequest DEF AccessInv
<1>2. ASSUME NEW q \in Requests \ {r}
      PROVE  RequestSound(q)'
  BY <1>1, UsersStand
<1>3. \A q \in Requests : RequestSound(q)'
  BY <1>2
<1>4. ActiveAdmins' = ActiveAdmins
  BY DEF ActiveAdmins
<1> QED  BY <1>3, <1>4 DEF AccessInv, AnAdministratorRemains

LEMMA IdleIsSound ==
    ASSUME NEW r \in Requests, request'[r] = Idle
    PROVE  RequestSound(r)'
BY DEF RequestSound, Idle

LEMMA ReadKeepsInv ==
    ASSUME AccessInv, AccessTypeOK', Apart', NEW r \in Requests, NEW u \in Users,
           NEW c \in Changes, read_user(r, u, c)
    PROVE  AccessInv'
<1> DEFINE new == [Idle EXCEPT !.step = IF Guarded(c) THEN "read" ELSE "cleared",
                               !.of = u, !.change = c, !.was = user[u]]
<1>1. Set(r, new) /\ user' = user /\ user[u].exists
  BY DEF read_user
<1>2. request'[r] = new
  BY <1>1, OneRequest DEF AccessInv
<1>3. /\ request'[r].of = u /\ request'[r].change = c /\ request'[r].was = user[u]
      /\ request'[r].step = IF Guarded(c) THEN "read" ELSE "cleared"
  BY <1>2 DEF Idle
<1>4. RequestSound(r)'
  <2>1. ~(request'[r].step = "cleared" /\ Guarded(request'[r].change))
    BY <1>3
  <2> QED  BY <1>1, <1>3, <2>1 DEF RequestSound, Guarded
<1> QED  BY <1>1, <1>4, NothingWritten

LEMMA CountKeepsInv ==
    ASSUME AccessInv, AccessTypeOK', Apart', NEW r \in Requests, count_admins(r)
    PROVE  AccessInv'
<1> DEFINE new == [request[r] EXCEPT !.step = "counted", !.seen = ActiveAdmins]
<1>1. Set(r, new) /\ user' = user /\ request[r].step = "read"
  BY DEF count_admins
<1>2. request'[r] = new
  BY <1>1, OneRequest DEF AccessInv
<1>3. /\ request'[r].of = request[r].of /\ request'[r].was = request[r].was
      /\ request'[r].step = "counted" /\ request'[r].seen = ActiveAdmins
  BY <1>2 DEF AccessInv, AccessTypeOK, RequestRow, UserRow
<1>4. /\ RequestSound(r)
      /\ \A w \in ActiveAdmins : user[w].exists /\ user[w].admin
  BY DEF AccessInv, ActiveAdmins
<1>5. ActiveAdmins' = ActiveAdmins
  BY <1>1 DEF ActiveAdmins
<1>6. RequestSound(r)'
  BY <1>1, <1>3, <1>4, <1>5 DEF RequestSound
<1> QED  BY <1>1, <1>6, NothingWritten

\* Two rows of a set are a row beside any one of it.
LEMMA AnotherOne ==
    ASSUME NEW S, IsFiniteSet(S), Cardinality(S) > 1, NEW u
    PROVE  \E w \in S : w # u
<1>1. SUFFICES ASSUME \A w \in S : w = u
               PROVE  FALSE
  OBVIOUS
<1>2. S = {} \/ S = {u}
  BY <1>1
<1>3. Cardinality({}) = 0 /\ Cardinality({u}) = 1
  BY FS_EmptySet, FS_Singleton
<1> QED  BY <1>2, <1>3

\* The guard: a request that takes an administrator's place away is cleared only
\* beside another one that is active now, and holds its row.
LEMMA GuardKeepsInv ==
    ASSUME AccessInv, AccessTypeOK', Apart', NEW r \in Requests,
           _guard_last_system_admin(r)
    PROVE  AccessInv'
<1> DEFINE new == [request[r] EXCEPT !.step = "cleared", !.locked = request[r].seen]
<1>1. user' = user /\ request[r].step = "counted" /\ RequestSound(r)
  BY DEF _guard_last_system_admin, AccessInv
<1>2. CASE Set(r, Idle)
  <2>1. request'[r] = Idle
    BY <1>2, OneRequest DEF AccessInv
  <2> QED  BY <1>1, <1>2, <2>1, IdleIsSound, NothingWritten
<1>3. CASE /\ Set(r, new)
           /\ ~(request[r].of \in AdminIds(r) /\ ~KeepsAdmin(r)
                  /\ Cardinality(AdminIds(r)) <= 1)
  <2>1. request'[r] = new
    BY <1>3, OneRequest DEF AccessInv
  <2>2. /\ request'[r].of = request[r].of /\ request'[r].was = request[r].was
        /\ request'[r].change = request[r].change
        /\ request'[r].step = "cleared" /\ request'[r].locked = request[r].seen
    BY <2>1 DEF AccessInv, AccessTypeOK, RequestRow, UserRow
  <2>3. KeepsAdmin(r)' <=> KeepsAdmin(r)
    BY <2>2 DEF KeepsAdmin
  <2>4. ActiveAdmins' = ActiveAdmins
    BY <1>1 DEF ActiveAdmins
  <2>5. ASSUME ~KeepsAdmin(r), request[r].of \in ActiveAdmins
        PROVE  \E w \in request[r].seen : w # request[r].of /\ w \in ActiveAdmins
    <3>1. request[r].seen \subseteq Users
      BY DEF AccessInv, AccessTypeOK, RequestRow, UserRow
    <3>2. request[r].of \in AdminIds(r)
      BY <1>1, <2>5 DEF RequestSound, AdminIds, ActiveAdmins
    <3>3. IsFiniteSet(AdminIds(r))
      BY <3>1, AccessAssumption, FS_Subset DEF AdminIds
    <3>4. Cardinality(AdminIds(r)) > 1
      BY <1>3, <2>5, <3>2, <3>3, FS_CardinalityType
    <3>5. PICK w \in AdminIds(r) : w # request[r].of
      BY <3>3, <3>4, AnotherOne
    <3>6. w \in request[r].seen /\ w \in ActiveAdmins
      BY <1>1, <3>1 DEF RequestSound, AdminIds, ActiveAdmins
    <3> QED  BY <3>5, <3>6
  <2>6. RequestSound(r)'
    BY <1>1, <2>2, <2>3, <2>4, <2>5 DEF RequestSound
  <2> QED  BY <1>1, <1>3, <2>6, NothingWritten
<1> QED  BY <1>2, <1>3 DEF _guard_last_system_admin

LEMMA RollbackKeepsInv ==
    ASSUME AccessInv, AccessTypeOK', Apart', NEW r \in Requests, rollback(r)
    PROVE  AccessInv'
<1>1. Set(r, Idle) /\ user' = user
  BY DEF rollback
<1>2. request'[r] = Idle
  BY <1>1, OneRequest DEF AccessInv
<1> QED  BY <1>1, <1>2, IdleIsSound, NothingWritten

\* update_user writes.  Whom it takes the place from is not the last: it keeps the
\* role, or had none, or the guard left another one whose row it holds.
LEMMA WriteKeepsAnAdministrator ==
    ASSUME AccessInv, NEW r \in Requests, update_user(r)
    PROVE  AnAdministratorRemains'
<1> DEFINE u == request[r].of
           c == request[r].change
           was == request[r].was
<1>1. /\ u \in Users /\ request[r].step = "cleared" /\ RequestSound(r)
      /\ user \in [Users -> UserRow]
      /\ c \in [active : Answers, admin : Answers] /\ was \in UserRow
  BY DEF update_user, AccessInv, AccessTypeOK, RequestRow
<1>2. \A w \in Users \ {u} : user'[w] = user[w]
  BY <1>1 DEF update_user
<1>3. \A w \in Users \ {u} : w \in ActiveAdmins => w \in ActiveAdmins'
  BY <1>2 DEF ActiveAdmins
<1>4. CASE u \notin ActiveAdmins
  <2>1. PICK w \in Users : w \in ActiveAdmins
    BY DEF AccessInv, AnAdministratorRemains, ActiveAdmins
  <2> QED  BY <1>3, <1>4, <2>1 DEF AnAdministratorRemains
<1>5. CASE u \in ActiveAdmins /\ (c.active = "no" \/ c.admin = "no")
  <2>1. Guarded(c) /\ ~KeepsAdmin(r)
    BY <1>5 DEF Guarded, KeepsAdmin, Then
  <2>2. PICK w \in request[r].locked : w # u /\ w \in ActiveAdmins
    BY <1>1, <1>5, <2>1 DEF RequestSound
  <2>3. w \in Users
    BY <2>2 DEF ActiveAdmins
  <2> QED  BY <1>3, <2>2, <2>3 DEF AnAdministratorRemains
<1>6. CASE u \in ActiveAdmins /\ c.active # "no" /\ c.admin # "no"
  <2>1. user[u].active = TRUE /\ user[u].admin = TRUE
    BY <1>1, <1>6 DEF ActiveAdmins, UserRow
  <2>2. c.active \in {"as_is", "yes"} /\ c.admin \in {"as_is", "yes"}
    BY <1>1, <1>6 DEF Answers
  <2>3. user'[u].active /\ user'[u].admin
    BY <1>1, <2>1, <2>2 DEF update_user, Then, UserRow
  <2> QED  BY <1>1, <2>3 DEF AnAdministratorRemains, ActiveAdmins
<1> QED  BY <1>4, <1>5, <1>6

\* And what it takes away from others at work, it takes from no row they hold.
LEMMA WriteKeepsInv ==
    ASSUME AccessInv, AccessTypeOK', Apart', NEW r \in Requests, update_user(r)
    PROVE  AccessInv'
<1> DEFINE u == request[r].of
<1>1. /\ u \in Users /\ request[r].step = "cleared" /\ RequestSound(r)
      /\ user \in [Users -> UserRow] /\ request[r].was \in UserRow
      /\ user[u].exists
  BY DEF update_user, AccessInv, AccessTypeOK, RequestRow, RequestSound
<1>2. Set(r, Idle)
  BY DEF update_user
<1>3. request'[r] = Idle /\ \A q \in Requests \ {r} : request'[q] = request[q]
  BY <1>2, OneRequest DEF AccessInv
<1>4. \A w \in Users \ {u} : user'[w] = user[w]
  BY <1>1 DEF update_user
<1>5. user'[u].exists
  BY <1>1 DEF update_user, UserRow
<1>6. \A v \in Users : user'[v].active => user'[v].exists
  BY <1>4, <1>5 DEF AccessInv
<1>7. ASSUME NEW q \in Requests \ {r}, request[q].step # "idle"
      PROVE  RequestSound(q)'
  <2>1. request[r].change = Deactivate
    BY <1>1, <1>7 DEF AccessInv, Apart
  <2>2. /\ request[r].change.active = "no" /\ request[r].change.admin = "as_is"
    BY <2>1 DEF Deactivate
  <2>3. \/ user' = user
        \/ /\ ~user'[u].active /\ user'[u].admin = user[u].admin
           /\ u \notin HeldByOthers(r)
    <3>1. CASE request[r].was.active
      BY <1>1, <2>2, <3>1 DEF update_user, Then, UserRow
    <3>2. CASE ~request[r].was.active
      BY <1>1, <2>2, <3>2 DEF update_user, Then, UserRow
    <3> QED  BY <3>1, <3>2
  <2>4. \A v \in Users : Lowered(v)
    BY <1>4, <1>5, <2>3 DEF Lowered
  <2>5. ASSUME NEW v \in request[q].locked, v \in ActiveAdmins
        PROVE  v \in ActiveAdmins'
    <3>1. v \in HeldByOthers(r) /\ v \in Users
      BY <2>5 DEF HeldByOthers, ActiveAdmins
    <3>2. user'[v] = user[v]
      BY <1>4, <2>3, <3>1
    <3> QED  BY <2>5, <3>2 DEF ActiveAdmins
  <2> QED  BY <1>3, <1>7, <2>4, <2>5, OthersSound
<1>8. ASSUME NEW q \in Requests
      PROVE  RequestSound(q)'
  <2>1. CASE q = r
    BY <1>3, <2>1, IdleIsSound
  <2>2. CASE q # r /\ request[q].step = "idle"
    BY <1>3, <2>2 DEF RequestSound
  <2> QED  BY <1>7, <2>1, <2>2
<1>9. AnAdministratorRemains'
  BY WriteKeepsAnAdministrator
<1> QED  BY <1>6, <1>8, <1>9 DEF AccessInv

LEMMA AccessInvInit ==
    ASSUME AccessInit
    PROVE  AccessInv
<1>1. PICK u \in Users :
          user = [v \in Users |-> IF v = u
              THEN [exists |-> TRUE, active |-> TRUE, admin |-> TRUE] ELSE NoUser]
  BY DEF AccessInit
<1>2. \A r \in Requests : request[r].step = "idle"
  BY DEF AccessInit, Idle
<1>3. Idle \in RequestRow
  BY DEF Idle, RequestRow, UserRow, NoUser, Deactivate, Answers
<1>4. AccessTypeOK
  BY <1>1, <1>2, <1>3 DEF AccessInit, AccessTypeOK, UserRow, NoUser
<1>5. u \in ActiveAdmins /\ \A v \in Users : user[v].active => user[v].exists
  BY <1>1 DEF ActiveAdmins, NoUser
<1> QED  BY <1>2, <1>4, <1>5 DEF AccessInv, AnAdministratorRemains, Apart, RequestSound

LEMMA AccessStep ==
    ASSUME AccessInv, AccessNext, Apart'
    PROVE  AccessInv'
<1>0. AccessTypeOK'
  BY AccessTypes DEF AccessInv
<1>1. ASSUME NEW u \in Users, NEW admin \in BOOLEAN, create_user(u, admin)
      PROVE  AccessInv'
  BY <1>0, <1>1, CreateKeepsInv
<1>2. ASSUME NEW r \in Requests, NEW u \in Users, NEW c \in Changes, read_user(r, u, c)
      PROVE  AccessInv'
  BY <1>0, <1>2, ReadKeepsInv
<1>3. ASSUME NEW r \in Requests, count_admins(r)
      PROVE  AccessInv'
  BY <1>0, <1>3, CountKeepsInv
<1>4. ASSUME NEW r \in Requests, _guard_last_system_admin(r)
      PROVE  AccessInv'
  BY <1>0, <1>4, GuardKeepsInv
<1>5. ASSUME NEW r \in Requests, update_user(r)
      PROVE  AccessInv'
  BY <1>0, <1>5, WriteKeepsInv
<1>6. ASSUME NEW r \in Requests, rollback(r)
      PROVE  AccessInv'
  BY <1>0, <1>6, RollbackKeepsInv
<1> QED  BY <1>1, <1>2, <1>3, <1>4, <1>5, <1>6 DEF AccessNext

\* Users and requests keep their shape, whatever overlaps.
THEOREM AccessTyped == AccessSpec => []AccessTypeOK
<1>1. AccessInit => AccessTypeOK
  BY AccessInvInit DEF AccessInv
<1>2. AccessTypeOK /\ [AccessNext]_accessVars => AccessTypeOK'
  <2>1. ASSUME AccessTypeOK, UNCHANGED accessVars
        PROVE  AccessTypeOK'
    BY <2>1 DEF accessVars, AccessTypeOK
  <2> QED  BY <2>1, AccessTypes
<1> QED  BY <1>1, <1>2, PTL DEF AccessSpec

\* As long as requests that overlap only deactivate users (and one that does anything
\* else is alone), the guard of access/service.py never lets the last active
\* administrator go, for any number of users and requests.
THEOREM SomebodyAdministers == ApartSpec => []AnAdministratorRemains
<1>1. AccessInit => AccessInv
  BY AccessInvInit
<1>2. AccessInv /\ [AccessNext /\ Apart']_accessVars => AccessInv'
  <2>1. ASSUME AccessInv, UNCHANGED accessVars
        PROVE  AccessInv'
    BY <2>1 DEF accessVars, AccessInv, AccessTypeOK, AnAdministratorRemains, ActiveAdmins,
                Apart, RequestSound, KeepsAdmin
  <2> QED  BY <2>1, AccessStep
<1>3. AccessInv => AnAdministratorRemains
  BY DEF AccessInv
<1> QED  BY <1>1, <1>2, <1>3, PTL DEF ApartSpec
=============================================================================
