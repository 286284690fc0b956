---------------------------- MODULE MCBackOffice ----------------------------
(* The modules of the back office on small instances.  They share no table,    *)
(* so a behaviour works at one desk and the other tables stay empty.           *)
EXTENDS BudgetControl, Programme, PriceLifecycle, Cashflow, UnitEconomics,
        SiteStructure, Refunds, Commissions, Administrators, TLC

CONSTANTS m1, m2, m3
VARIABLE desk

ThreeMilestones == {m1, m2, m3}
TheSlot == {"i"}
ThreeCodes == {1, 2, 3}
One == {1}
Two == {1, 2}
TwoAndThree == {2, 3}
TwoAndFive == {2, 5}
NothingOrOne == {0, 1}
NothingOrHalf == {"nothing", "half"}

Desks == {"breakdown", "control", "site", "schedule", "policy", "unit", "months",
          "escrow", "expense", "margin", "structure", "refund", "commission", "access"}

dealVars == <<placeVars, refundVars, grantVars, accessVars>>

UsedInOrder(table) == table[1].status = "none" => table[2].status = "none"

Init ==
    /\ desk \in Desks
    /\ ControlInit /\ ProgrammeInit /\ PriceInit /\ CashInit /\ EcoInit
    /\ PlaceInit /\ RefundInit /\ GrantInit /\ AccessInit
    /\ desk # "unit" => unit_now.facts = 1 /\ unit_now.name = 1 /\ unit_now.field
    /\ desk # "margin" => source = NoReading
    /\ user[CHOOSE u \in Users : TRUE].exists      \* whoever is the first

\* Construction's control: a breakdown of three codes, or the versions of one, with a
\* certificate and something left to spend as long as there is one budget.
Control ==
    /\ \/ desk = "breakdown" /\ CodeNext
       \/ /\ desk = "control" /\ ControlNext
          /\ \A c \in Codes \ {1} : code'[c] = NoCode
          /\ budget'[2].status # "none" =>
                /\ work'[1] = NoWork
                /\ \A f \in Forecasts : Range(forecast'[f].lines) \subseteq {0}
    /\ UNCHANGED <<desk, programmeVars, priceVars, cashVars, ecoVars, dealVars>>

\* The programme: dependencies of three milestones, or two milestones and a plan.
Site ==
    /\ \/ desk = "site" /\ SiteNext
       \/ /\ desk = "schedule" /\ ProgrammeNext
          /\ depends' = {}
          /\ milestone'[m3] = NoMilestone
    /\ UNCHANGED <<desk, controlVars, priceVars, cashVars, ecoVars, dealVars>>

\* Pricing: two policies and one price, of either total under one policy, of a unit
\* that is measured and otherwise left alone, or two prices entered by hand of a
\* unit that changes, and is renamed after the first.
Pricing ==
    /\ \/ /\ desk = "policy"
          /\ \/ PolicyNext \/ VersionNext
             \/ UnitNext /\ unit_now' = [unit_now EXCEPT !.schedule = 1]
          /\ price'[2].status = "none"
          /\ configuration'[2].status # "none" => price'[1].total < 2
       \/ /\ desk = "unit" /\ (VersionNext \/ UnitNext)
          /\ unit_now'.name = 2 => price'[2].status = "none"
          /\ \A p \in Prices : price'[p].total < 2
    /\ UNCHANGED <<desk, controlVars, programmeVars, cashVars, ecoVars, dealVars>>

\* The months schedule one unit of cost or none, and the second construction
\* forecast leaves one.
Cash ==
    /\ \/ /\ desk = "months" /\ MonthsNext /\ build'[2].left < 2
          /\ \A v \in CashForecasts : cash_forecast'[v].scheduled < 2
       \/ desk = "escrow" /\ EscrowNext
       \/ desk = "expense" /\ MovementNext
    /\ UNCHANGED <<desk, controlVars, programmeVars, priceVars, ecoVars, dealVars>>

\* Every category, the first version's by the project and the second's by a phase;
\* the land's cost moves under one version only.
Margin ==
    /\ desk = "margin" /\ EcoNext
    /\ \A v \in Bases :
          basis'[v].pools \in {{}, {"land", "hard", IF v = 1 THEN "soft" ELSE "phase soft"}}
    /\ basis'[2].status # "none" => source'.land = 0
    /\ UNCHANGED <<desk, controlVars, programmeVars, priceVars, cashVars, dealVars>>

\* What stands where, with a second unit that is never priced, what goes back to a
\* buyer, with rows used in their order, and what a sale's agents share.
Deal ==
    /\ \/ /\ desk = "structure" /\ PlaceNext /\ UNCHANGED <<refundVars, grantVars, accessVars>>
          /\ ~home'[2].priced
       \/ /\ desk = "refund" /\ RefundNext /\ UNCHANGED <<placeVars, grantVars, accessVars>>
          /\ UsedInOrder(deposit') /\ UsedInOrder(case') /\ UsedInOrder(refund')
       \/ desk = "commission" /\ GrantNext /\ UNCHANGED <<placeVars, refundVars, accessVars>>
    /\ UNCHANGED <<desk, controlVars, programmeVars, priceVars, cashVars, ecoVars>>

\* Administrators are deactivated side by side, or something else is done alone.
Access ==
    /\ desk = "access" /\ AccessNext /\ Apart'
    /\ UNCHANGED <<placeVars, refundVars, grantVars>>
    /\ UNCHANGED <<desk, controlVars, programmeVars, priceVars, cashVars, ecoVars>>

Next == Control \/ Site \/ Pricing \/ Cash \/ Margin \/ Deal \/ Access

vars == <<desk, controlVars, programmeVars, priceVars, cashVars, ecoVars, dealVars>>

Spec == Init /\ [][Next]_vars
=============================================================================
