-------------------------- MODULE InventoryProofs ---------------------------
(***************************************************************************)
(* What PriceLifecycle and SiteStructure guarantee for any number of       *)
(* policies, prices and measurements, whatever a unit can be and wherever  *)
(* it stands.                                                              *)
(***************************************************************************)
EXTENDS PriceLifecycle, SiteStructure, TLAPS

-----------------------------------------------------------------------------
(* Prices *)

\* One list price at a time, and never none once there was one.
OneListPrice ==
    /\ \A p, q \in ListPrice : p = q
    /\ (\E p \in Prices : price[p].status = "superseded") => ListPrice # {}

PriceInv ==
    /\ PriceTypeOK
    /\ OneListPrice
    /\ OneListPriceADay
    /\ ApprovedForThisUnit

LEMMA PriceNumbers == {0} \cup PriceDays \subseteq Nat
BY PriceAssumption DEF PriceDays

-----------------------------------------------------------------------------
(* Policies *)

LEMMA PolicyStep ==
    ASSUME PriceInv, PolicyNext
    PROVE  PriceInv'
<1>1. UNCHANGED <<price, unit_now, pricing_approved, business_day>>
  BY DEF PolicyNext, create_configuration, update_configuration, set_internal_base,
         submit_configuration, return_configuration, approve_configuration,
         activate_configuration, activate_escalation, reverse_activation,
         ChangeConfiguration, ChangeEscalation
<1>2. OneListPrice' /\ OneListPriceADay' /\ ApprovedForThisUnit'
  BY <1>1 DEF PriceInv, OneListPrice, OneListPriceADay, ApprovedForThisUnit, ListPrice
<1>3. /\ configuration \in [Configurations -> ConfigurationRow]
      /\ escalation \in [Configurations -> {0} \cup PriceDays]
  BY DEF PriceInv, PriceTypeOK
<1>4. ASSUME configuration' \in [Configurations -> ConfigurationRow],
             escalation' \in [Configurations -> {0} \cup PriceDays]
      PROVE  PriceInv'
  BY <1>1, <1>2, <1>4 DEF PriceInv, PriceTypeOK
<1>5. PICK c \in Configurations :
        \/ \E from \in PriceDays, to \in {0} \cup PriceDays :
              create_configuration(c, from, to) \/ update_configuration(c, from, to)
        \/ \E on \in BOOLEAN : set_internal_base(c, on)
        \/ submit_configuration(c) \/ return_configuration(c)
        \/ approve_configuration(c) \/ activate_configuration(c)
        \/ \E day \in PriceDays : activate_escalation(c, day)
        \/ reverse_activation(c)
  BY DEF PolicyNext
<1>6. ASSUME NEW row \in ConfigurationRow, ChangeConfiguration(c, row)
      PROVE  PriceInv'
  BY <1>3, <1>4, <1>6 DEF ChangeConfiguration
<1>7. ASSUME NEW day \in {0} \cup PriceDays, ChangeEscalation(c, day)
      PROVE  PriceInv'
  BY <1>3, <1>4, <1>7 DEF ChangeEscalation
<1>8. ASSUME NEW from \in PriceDays, NEW to \in {0} \cup PriceDays
      PROVE  /\ create_configuration(c, from, to) => PriceInv'
             /\ update_configuration(c, from, to) => PriceInv'
  <2>1. [NoConfiguration EXCEPT !.status = "draft", !.from = from, !.to = to]
          \in ConfigurationRow
    BY DEF NoConfiguration, ConfigurationRow, PricingStatus
  <2>2. [configuration[c] EXCEPT !.from = from, !.to = to] \in ConfigurationRow
    BY <1>3 DEF ConfigurationRow
  <2> QED
    BY <1>6, <2>1, <2>2 DEF create_configuration, update_configuration
<1>9. ASSUME NEW on \in BOOLEAN, set_internal_base(c, on) PROVE PriceInv'
  <2>1. [configuration[c] EXCEPT !.internal_base = on] \in ConfigurationRow
    BY <1>3 DEF ConfigurationRow
  <2> QED
    BY <1>6, <1>9, <2>1 DEF set_internal_base
<1>10. ASSUME submit_configuration(c) \/ return_configuration(c) \/ approve_configuration(c)
       PROVE  PriceInv'
  <2>1. \A status \in {"draft", "submitted", "approved"} :
          [configuration[c] EXCEPT !.status = status] \in ConfigurationRow
    BY <1>3 DEF ConfigurationRow, PricingStatus
  <2> QED
    BY <1>6, <1>10, <2>1 DEF submit_configuration, return_configuration,
                             approve_configuration
<1>11. CASE activate_configuration(c)
  <2>1. configuration' \in [Configurations -> ConfigurationRow]
    <3>1. configuration' = [d \in Configurations |->
            IF d = c THEN [configuration[d] EXCEPT !.status = "active"]
            ELSE IF d \in PolicyInForce
            THEN [configuration[d] EXCEPT !.status = "superseded",
                     !.to = IF configuration[d].to = 0 THEN configuration[c].from
                            ELSE configuration[d].to]
            ELSE configuration[d]]
      BY <1>11 DEF activate_configuration
    <3> QED
      BY <1>3, <3>1 DEF ConfigurationRow, PricingStatus
  <2> QED
    BY <1>3, <1>4, <1>11, <2>1 DEF activate_configuration
<1> QED
  BY <1>5, <1>7, <1>8, <1>9, <1>10, <1>11 DEF activate_escalation, reverse_activation

-----------------------------------------------------------------------------
(* Prices *)

\* A version that is not on the list changes nothing that is.
LEMMA DraftStep ==
    ASSUME PriceInv, NEW p \in Prices, NEW row \in PriceRow, ChangePrice(p, row),
           price[p].status \notin {"active", "superseded"},
           row.status \notin {"active", "superseded"}
    PROVE  PriceInv'
<1>1. /\ price' \in [Prices -> PriceRow] /\ price'[p] = row
      /\ \A q \in Prices \ {p} : price'[q] = price[q]
      /\ UNCHANGED <<configuration, escalation, unit_now, pricing_approved, business_day>>
  BY DEF ChangePrice, PriceInv, PriceTypeOK
<1>2. ListPrice' = ListPrice
  BY <1>1 DEF ListPrice
<1>3. OneListPrice' /\ OneListPriceADay'
  BY <1>1, <1>2 DEF PriceInv, OneListPrice, OneListPriceADay
<1>4. ApprovedForThisUnit'
  BY <1>1, <1>2 DEF PriceInv, ApprovedForThisUnit, ListPrice
<1> QED
  BY <1>1, <1>3, <1>4 DEF PriceInv, PriceTypeOK

\* The price in force ends where the new one starts, and those before it ended
\* where it had started or earlier.
LEMMA ListPriceStep ==
    ASSUME PriceInv, NEW p \in Prices, activate_price_version(p)
    PROVE  PriceInv'
<1>1. /\ price[p].status = "approved" /\ price[p].basis = unit_now
      /\ \A q \in ListPrice : price[q].from <= price[p].from
      /\ price' = [q \in Prices |->
            IF q = p THEN [price[q] EXCEPT !.status = "active"]
            ELSE IF q \in ListPrice
            THEN [price[q] EXCEPT !.status = "superseded", !.to = price[p].from]
            ELSE price[q]]
      /\ pricing_approved' = TRUE
      /\ UNCHANGED <<configuration, escalation, unit_now, business_day>>
  BY DEF activate_price_version, MakeListPrice, Submittable, Describes
<1>2. /\ price \in [Prices -> PriceRow]
      /\ \A q \in Prices : price[q].from \in {0} \cup PriceDays
                           /\ price[q].to \in {0} \cup PriceDays
  BY DEF PriceInv, PriceTypeOK, PriceRow
<1>3. \A q \in Prices : price[q].from \in Nat /\ price[q].to \in Nat
  BY <1>2, PriceNumbers
<1>4. /\ price'[p].status = "active" /\ price'[p].from = price[p].from
      /\ price'[p].basis = price[p].basis
  BY <1>1, <1>2 DEF PriceRow
<1>5. \A q \in Prices \ {p} :
        /\ price'[q].from = price[q].from
        /\ q \in ListPrice => price'[q].status = "superseded" /\ price'[q].to = price[p].from
        /\ q \notin ListPrice => price'[q] = price[q]
  BY <1>1, <1>2 DEF PriceRow
<1>6. price' \in [Prices -> PriceRow]
  BY ZenonT(40), <1>1, <1>2 DEF PriceRow, PricingStatus
<1>7. p \notin ListPrice /\ ListPrice' = {p}
  BY <1>1, <1>4, <1>5 DEF ListPrice
<1>8. OneListPrice'
  BY <1>7 DEF OneListPrice
<1>9. OneListPriceADay'
  <2>1. SUFFICES ASSUME NEW a \in Prices, NEW b \in Prices, a # b,
                        price'[a].status = "superseded",
                        price'[b].status \in {"active", "superseded"}
                 PROVE  \/ price'[a].to <= price'[b].from
                        \/ price'[b].status = "superseded" /\ price'[b].to <= price'[a].from
    BY DEF OneListPriceADay
  <2>2. a # p
    BY <1>4, <2>1
  <2>3. CASE b = p
    <3>1. CASE a \in ListPrice
      BY <1>3, <1>4, <1>5, <2>2, <2>3, <3>1
    <3>2. CASE a \notin ListPrice
      <4>1. price[a].status = "superseded" /\ price'[a].to = price[a].to
        BY <1>5, <2>1, <2>2, <3>2
      <4>2. PICK o \in ListPrice : TRUE
        BY <4>1 DEF PriceInv, OneListPrice
      <4>3. o \in Prices /\ price[o].status = "active" /\ price[o].from <= price[p].from
        BY <1>1 DEF ListPrice
      <4>4. price[a].to <= price[o].from
        BY <4>1, <4>3 DEF PriceInv, OneListPriceADay
      <4> QED
        BY <1>3, <1>4, <2>3, <4>1, <4>3, <4>4
    <3> QED
      BY <3>1, <3>2
  <2>4. CASE b # p
    <3>1. CASE a \in ListPrice
      <4>1. b \notin ListPrice
        BY <2>1, <3>1 DEF PriceInv, OneListPrice
      <4>2. price[b].status = "superseded" /\ price'[b] = price[b]
        BY <1>5, <2>1, <2>4, <4>1 DEF ListPrice
      <4>3. price[b].to <= price[a].from
        BY <2>1, <3>1, <4>2 DEF PriceInv, OneListPriceADay, ListPrice
      <4> QED
        BY <1>5, <2>2, <4>2, <4>3
    <3>2. CASE a \notin ListPrice /\ b \in ListPrice
      <4>1. price[a].status = "superseded" /\ price'[a] = price[a]
        BY <1>5, <2>1, <2>2, <3>2
      <4>2. price[a].to <= price[b].from
        BY <2>1, <3>2, <4>1 DEF PriceInv, OneListPriceADay, ListPrice
      <4> QED
        BY <1>5, <2>4, <4>1, <4>2
    <3>3. CASE a \notin ListPrice /\ b \notin ListPrice
      BY <1>5, <2>1, <2>2, <2>4, <3>3 DEF PriceInv, OneListPriceADay
    <3> QED
      BY <3>1, <3>2, <3>3
  <2> QED
    BY <2>3, <2>4
<1>10. ApprovedForThisUnit'
  BY <1>1, <1>4, <1>7 DEF ApprovedForThisUnit
<1> QED
  BY <1>1, <1>6, <1>8, <1>9, <1>10 DEF PriceInv, PriceTypeOK

LEMMA VersionStep ==
    ASSUME PriceInv, VersionNext
    PROVE  PriceInv'
<1>1. price \in [Prices -> PriceRow] /\ unit_now \in BasisRow
  BY DEF PriceInv, PriceTypeOK
<1>2. PICK p \in Prices :
        \/ \E total \in Totals :
              \/ \E day \in PriceDays :
                    \/ \E c \in Configurations : generate_price_version(p, c, day, total)
                    \/ direct_price_version(p, day, total)
              \/ update_price_version(p, total)
        \/ submit_price_version(p) \/ return_price_version(p)
        \/ approve_price_version(p) \/ activate_price_version(p)
  BY DEF VersionNext
<1>3. ASSUME NextPrice(p) PROVE price[p].status = "none"
  BY <1>3 DEF NextPrice, Prices
<1>4. ASSUME NEW day \in PriceDays, NEW c \in Configurations, NEW total \in Totals,
             generate_price_version(p, c, day, total)
      PROVE  PriceInv'
  <2> DEFINE row == [status |-> "draft", configuration |-> c, from |-> day, to |-> 0,
                     basis |-> unit_now, escalated |-> escalation[c] \in 1..day,
                     total |-> total]
  <2>1. (escalation[c] \in 1..day) \in BOOLEAN
    OBVIOUS
  <2>2. row \in PriceRow
    BY <1>1, <2>1, Zenon DEF PriceRow, PricingStatus
  <2>3. price[p].status = "none" /\ ChangePrice(p, row)
    BY <1>3, <1>4 DEF generate_price_version
  <2> QED
    BY <2>2, <2>3, DraftStep
<1>5. ASSUME NEW day \in PriceDays, NEW total \in Totals,
             direct_price_version(p, day, total)
      PROVE  PriceInv'
  <2> DEFINE row == [status |-> "draft", configuration |-> 0, from |-> day, to |-> 0,
                     basis |-> unit_now, escalated |-> FALSE, total |-> total]
  <2>1. row \in PriceRow
    BY <1>1 DEF PriceRow, PricingStatus
  <2>2. price[p].status = "none" /\ ChangePrice(p, row)
    BY <1>3, <1>5 DEF direct_price_version
  <2> QED
    BY <2>1, <2>2, DraftStep
<1>6. ASSUME submit_price_version(p) \/ return_price_version(p) \/ approve_price_version(p)
      PROVE  PriceInv'
  <2>1. \A status \in {"draft", "submitted", "approved"} :
          /\ [price[p] EXCEPT !.status = status] \in PriceRow
          /\ [price[p] EXCEPT !.status = status].status = status
    BY <1>1 DEF PriceRow, PricingStatus
  <2> QED
    BY <1>6, <2>1, DraftStep DEF submit_price_version, return_price_version,
                                 approve_price_version
<1>7. ASSUME NEW total \in Totals, update_price_version(p, total)
      PROVE  PriceInv'
  <2>1. /\ [price[p] EXCEPT !.total = total] \in PriceRow
        /\ [price[p] EXCEPT !.total = total].status = price[p].status
    BY <1>1 DEF PriceRow
  <2> QED
    BY <1>7, <2>1, DraftStep DEF update_price_version
<1> QED
  BY <1>2, <1>4, <1>5, <1>6, <1>7, ListPriceStep

-----------------------------------------------------------------------------
(* The unit *)

\* Either the approval goes, or what changed is not compared.
LEMMA UnitStep ==
    ASSUME PriceInv, UnitNext
    PROVE  PriceInv'
<1>1. UNCHANGED <<configuration, escalation, price>>
  BY DEF UnitNext, change_unit, approve_area_schedule, cancelled_contract, rename_parent,
         update_definition, new_business_day, Invalidate, Restate
<1>2. OneListPrice' /\ OneListPriceADay'
  BY <1>1 DEF PriceInv, OneListPrice, OneListPriceADay, ListPrice
<1>3. unit_now \in BasisRow /\ pricing_approved \in BOOLEAN /\ business_day \in PriceDays
  BY DEF PriceInv, PriceTypeOK
<1>4. ASSUME unit_now' \in BasisRow, business_day' \in PriceDays,
             \/ pricing_approved' = FALSE
             \/ /\ pricing_approved' = pricing_approved
                /\ unit_now'.schedule = unit_now.schedule /\ unit_now'.facts = unit_now.facts
      PROVE  PriceInv'
  <2>1. ApprovedForThisUnit'
    BY <1>1, <1>4 DEF PriceInv, ApprovedForThisUnit, ListPrice
  <2> QED
    BY <1>1, <1>2, <1>3, <1>4, <2>1 DEF PriceInv, PriceTypeOK
<1>5. ASSUME NEW f \in Facts, change_unit(f) PROVE PriceInv'
  BY <1>3, <1>4, <1>5 DEF change_unit, Invalidate, BasisRow
<1>6. CASE approve_area_schedule
  <2>1. /\ unit_now.schedule \in 0..MaxSchedules /\ unit_now.schedule < MaxSchedules
        /\ unit_now' = [unit_now EXCEPT !.schedule = unit_now.schedule + 1]
        /\ pricing_approved' = FALSE /\ business_day' = business_day
    BY <1>3, <1>6 DEF approve_area_schedule, Invalidate, BasisRow
  <2>2. unit_now.schedule + 1 \in 0..MaxSchedules
    BY <2>1, PriceAssumption
  <2>3. unit_now' \in BasisRow
    BY <1>3, <2>1, <2>2 DEF BasisRow
  <2> QED
    BY <1>3, <1>4, <2>1, <2>3
<1>7. CASE cancelled_contract
  BY <1>3, <1>4, <1>7 DEF cancelled_contract, Invalidate
<1>8. ASSUME NEW n \in Names, rename_parent(n) PROVE PriceInv'
  BY <1>3, <1>4, <1>8 DEF rename_parent, Restate, BasisRow
<1>9. ASSUME NEW field \in BOOLEAN, unit_now' = [unit_now EXCEPT !.field = field],
             pricing_approved' = pricing_approved, business_day' \in PriceDays
      PROVE  PriceInv'
  BY <1>3, <1>4, <1>9 DEF BasisRow
<1>10. CASE update_definition
  <2>1. (~unit_now.field) \in BOOLEAN
    OBVIOUS
  <2>2. /\ unit_now' = [unit_now EXCEPT !.field = ~unit_now.field]
        /\ pricing_approved' = pricing_approved /\ business_day' = business_day
    BY <1>10 DEF update_definition, Restate
  <2> QED
    BY <1>3, <1>9, <2>1, <2>2, Zenon
<1>11. ASSUME NEW field \in BOOLEAN, new_business_day(field) PROVE PriceInv'
  <2>1. business_day' \in PriceDays
    BY <1>3, <1>11, PriceAssumption DEF new_business_day, PriceDays
  <2> QED
    BY <1>9, <1>11, <2>1 DEF new_business_day
<1> QED
  BY <1>5, <1>6, <1>7, <1>8, <1>10, <1>11 DEF UnitNext

-----------------------------------------------------------------------------
(* The specification *)

LEMMA PriceStart ==
    ASSUME PriceInit
    PROVE  PriceInv
<1>1. unit_now \in BasisRow
  BY PriceAssumption DEF PriceInit, BasisRow
<1>2. 1 \in PriceDays
  BY PriceAssumption DEF PriceDays
<1>3. PriceTypeOK
  BY <1>1, <1>2 DEF PriceInit, PriceTypeOK, NoConfiguration, ConfigurationRow, PriceRow,
                    PricingStatus
<1>4. OneListPrice /\ OneListPriceADay /\ ApprovedForThisUnit
  BY DEF PriceInit, OneListPrice, OneListPriceADay, ApprovedForThisUnit, ListPrice
<1> QED
  BY <1>3, <1>4 DEF PriceInv

\* A unit that was ever priced has one list price, and prices its approvals.
THEOREM PriceInvariant == PriceSpec => []PriceInv
<1>1. PriceInit => PriceInv
  BY PriceStart
<1>2. PriceInv /\ [PriceNext]_priceVars => PriceInv'
  <2>1. PriceInv /\ PriceNext => PriceInv'
    BY PolicyStep, VersionStep, UnitStep DEF PriceNext
  <2>2. PriceInv /\ UNCHANGED priceVars => PriceInv'
    BY DEF priceVars, PriceInv, PriceTypeOK, OneListPrice, OneListPriceADay,
           ApprovedForThisUnit, ListPrice
  <2> QED
    BY <2>1, <2>2
<1> QED
  BY <1>1, <1>2, PTL DEF PriceSpec

\* Every table keeps its columns' types.
THEOREM PriceTyped == PriceSpec => []PriceTypeOK
<1>1. PriceInv => PriceTypeOK
  BY DEF PriceInv
<1> QED
  BY <1>1, PriceInvariant, PTL

\* However many prices a unit had, no day has two list prices.
THEOREM OnePriceADay == PriceSpec => []OneListPriceADay
<1>1. PriceInv => OneListPriceADay
  BY DEF PriceInv
<1> QED
  BY <1>1, PriceInvariant, PTL

\* No change of the unit leaves an approval standing on a price for another unit.
THEOREM ApprovedPrice == PriceSpec => []ApprovedForThisUnit
<1>1. PriceInv => ApprovedForThisUnit
  BY DEF PriceInv
<1> QED
  BY <1>1, PriceInvariant, PTL

-----------------------------------------------------------------------------
(* Policies and list prices are versions of record *)

\* A row that is written is a version that moves, and no other says anything new.
LEMMA PolicyRowMoves ==
    ASSUME configuration \in [Configurations -> ConfigurationRow], NEW c \in Configurations,
           NEW row, ChangeConfiguration(c, row)
    PROVE  /\ PolicyStatus[c] = configuration[c].status
           /\ PolicyStatus' = [PolicyStatus EXCEPT ![c] = row.status]
           /\ PolicyRecord!Writes(c)
           /\ row.from = configuration[c].from
                 /\ row.internal_base = configuration[c].internal_base
                 => PolicyContent' = PolicyContent
           /\ row.status = configuration[c].status => PolicyStatus' = PolicyStatus
<1>1. configuration'[c] = row
      /\ \A d \in Configurations \ {c} : configuration'[d] = configuration[d]
  BY DEF ChangeConfiguration
<1>2. PolicyStatus' = [PolicyStatus EXCEPT ![c] = row.status]
  BY <1>1 DEF PolicyStatus
<1>3. PolicyRecord!Writes(c)
  BY <1>1 DEF PolicyContent, PolicyRecord!Writes
<1>4. row.from = configuration[c].from /\ row.internal_base = configuration[c].internal_base
         => PolicyContent' = PolicyContent
  BY <1>1 DEF PolicyContent
<1>5. row.status = configuration[c].status => PolicyStatus' = PolicyStatus
  BY <1>1 DEF PolicyStatus
<1> QED
  BY <1>2, <1>3, <1>4, <1>5 DEF PolicyStatus

\* Rules are rewritten on a draft only; an activation ends the policy before it
\* and nothing else, and escalations are no part of a policy.
LEMMA PolicyStepRecorded ==
    ASSUME PriceInv, PolicyNext
    PROVE  PolicyRecord!Next \/ UNCHANGED configuration
<1>1. configuration \in [Configurations -> ConfigurationRow]
  BY DEF PriceInv, PriceTypeOK
<1>2. PICK c \in Configurations :
        \/ \E from \in PriceDays, to \in {0} \cup PriceDays :
              create_configuration(c, from, to) \/ update_configuration(c, from, to)
        \/ \E on \in BOOLEAN : set_internal_base(c, on)
        \/ submit_configuration(c) \/ return_configuration(c)
        \/ approve_configuration(c) \/ activate_configuration(c)
        \/ \E day \in PriceDays : activate_escalation(c, day)
        \/ reverse_activation(c)
  BY DEF PolicyNext
<1>3. ASSUME NEW from \in PriceDays, NEW to \in {0} \cup PriceDays,
             create_configuration(c, from, to)
      PROVE  PolicyRecord!Draft(c)
  <2> DEFINE row == [NoConfiguration EXCEPT !.status = "draft", !.from = from, !.to = to]
  <2>1. configuration[c].status = "none" /\ ChangeConfiguration(c, row)
    BY <1>3 DEF create_configuration, Configurations
  <2>2. row.status = "draft"
    BY DEF NoConfiguration
  <2> HIDE DEF row
  <2> QED
    BY <1>1, <2>1, <2>2, PolicyRowMoves DEF PolicyRecord!Draft
<1>4. ASSUME NEW row, row.status = configuration[c].status, configuration[c].status = "draft",
             ChangeConfiguration(c, row)
      PROVE  PolicyRecord!Rewrite(c)
  BY <1>1, <1>4, PolicyRowMoves DEF PolicyRecord!Rewrite
<1>5. ASSUME NEW from \in PriceDays, NEW to \in {0} \cup PriceDays,
             update_configuration(c, from, to)
      PROVE  PolicyRecord!Rewrite(c)
  <2>1. [configuration[c] EXCEPT !.from = from, !.to = to].status = configuration[c].status
    BY <1>1 DEF ConfigurationRow
  <2> QED
    BY <1>4, <1>5, <2>1 DEF update_configuration
<1>6. ASSUME NEW on \in BOOLEAN, set_internal_base(c, on)
      PROVE  PolicyRecord!Rewrite(c)
  <2>1. [configuration[c] EXCEPT !.internal_base = on].status = configuration[c].status
    BY <1>1 DEF ConfigurationRow
  <2> QED
    BY <1>4, <1>6, <2>1 DEF set_internal_base
<1>7. ASSUME NEW status, NEW before, configuration[c].status \in before,
             ChangeConfiguration(c, [configuration[c] EXCEPT !.status = status])
      PROVE  PolicyRecord!Passes(c, before, status)
  <2> DEFINE row == [configuration[c] EXCEPT !.status = status]
  <2>1. /\ row.status = status
        /\ row.from = configuration[c].from
        /\ row.internal_base = configuration[c].internal_base
    BY <1>1 DEF ConfigurationRow
  <2>2. ChangeConfiguration(c, row)
    BY <1>7
  <2> HIDE DEF row
  <2> QED
    BY <1>1, <1>7, <2>1, <2>2, PolicyRowMoves DEF PolicyRecord!Passes
<1>8. ASSUME submit_configuration(c) PROVE PolicyRecord!Submit(c)
  BY <1>7, <1>8 DEF submit_configuration, PolicyRecord!Submit
<1>9. ASSUME return_configuration(c) PROVE PolicyRecord!Return(c)
  BY <1>7, <1>9 DEF return_configuration, PolicyRecord!Return
<1>10. ASSUME approve_configuration(c) PROVE PolicyRecord!Approve(c)
  BY <1>7, <1>10 DEF approve_configuration, PolicyRecord!Approve
<1>11. ASSUME activate_configuration(c) PROVE PolicyRecord!PutInForce(c)
  <2>1. /\ configuration[c].status = "approved"
        /\ configuration' = [d \in Configurations |->
              IF d = c THEN [configuration[d] EXCEPT !.status = "active"]
              ELSE IF d \in PolicyInForce
              THEN [configuration[d] EXCEPT
                       !.status = "superseded",
                       !.to = IF @ = 0 THEN configuration[c].from ELSE @]
              ELSE configuration[d]]
    BY <1>11 DEF activate_configuration
  <2>2. \A d \in Configurations :
          /\ configuration'[d].status = IF d = c THEN "active"
                                        ELSE IF configuration[d].status = "active"
                                        THEN "superseded" ELSE configuration[d].status
          /\ configuration'[d].from = configuration[d].from
          /\ configuration'[d].internal_base = configuration[d].internal_base
    BY <1>1, <2>1 DEF ConfigurationRow, PolicyInForce
  <2>3. PolicyContent' = PolicyContent
    BY <2>2 DEF PolicyContent
  <2>4. PolicyStatus' = [d \in Configurations |->
           IF d = c THEN "active"
           ELSE IF PolicyStatus[d] = "active" THEN "superseded" ELSE PolicyStatus[d]]
    BY <2>2 DEF PolicyStatus
  <2> QED
    BY <2>1, <2>3, <2>4 DEF PolicyRecord!PutInForce, PolicyStatus
<1>12. ASSUME (\E day \in PriceDays : activate_escalation(c, day)) \/ reverse_activation(c)
       PROVE  UNCHANGED configuration
  BY <1>12 DEF activate_escalation, reverse_activation, ChangeEscalation
<1> QED
  BY <1>2, <1>3, <1>5, <1>6, <1>8, <1>9, <1>10, <1>11, <1>12 DEF PolicyRecord!Next

LEMMA PriceRowMoves ==
    ASSUME price \in [Prices -> PriceRow], NEW p \in Prices, NEW row, ChangePrice(p, row)
    PROVE  /\ PriceStatus[p] = price[p].status
           /\ PriceStatus' = [PriceStatus EXCEPT ![p] = row.status]
           /\ ListPriceRecord!Writes(p)
           /\ row.configuration = price[p].configuration /\ row.from = price[p].from
                 /\ row.basis = price[p].basis /\ row.escalated = price[p].escalated
                 /\ row.total = price[p].total
                 => PriceContent' = PriceContent
           /\ row.status = price[p].status => PriceStatus' = PriceStatus
<1>1. price'[p] = row /\ \A q \in Prices \ {p} : price'[q] = price[q]
  BY DEF ChangePrice
<1>2. PriceStatus' = [PriceStatus EXCEPT ![p] = row.status]
  BY <1>1 DEF PriceStatus
<1>3. ListPriceRecord!Writes(p)
  BY <1>1 DEF PriceContent, ListPriceRecord!Writes
<1>4. row.configuration = price[p].configuration /\ row.from = price[p].from
         /\ row.basis = price[p].basis /\ row.escalated = price[p].escalated
         /\ row.total = price[p].total
         => PriceContent' = PriceContent
  BY <1>1 DEF PriceContent
<1>5. row.status = price[p].status => PriceStatus' = PriceStatus
  BY <1>1 DEF PriceStatus
<1> QED
  BY <1>2, <1>3, <1>4, <1>5 DEF PriceStatus

\* A price is overridden only as a draft.
LEMMA VersionStepRecorded ==
    ASSUME PriceInv, VersionNext
    PROVE  ListPriceRecord!Next
<1>1. price \in [Prices -> PriceRow]
  BY DEF PriceInv, PriceTypeOK
<1>2. PICK p \in Prices :
        \/ \E total \in Totals :
              \/ \E day \in PriceDays :
                    \/ \E c \in Configurations : generate_price_version(p, c, day, total)
                    \/ direct_price_version(p, day, total)
              \/ update_price_version(p, total)
        \/ submit_price_version(p) \/ return_price_version(p)
        \/ approve_price_version(p) \/ activate_price_version(p)
  BY DEF VersionNext
<1>3. ASSUME NEW row, row.status = "draft", NextPrice(p), ChangePrice(p, row)
      PROVE  ListPriceRecord!Draft(p)
  <2>1. price[p].status = "none"
    BY <1>3 DEF NextPrice, Prices
  <2> QED
    BY <1>1, <1>3, <2>1, PriceRowMoves DEF ListPriceRecord!Draft
<1>4. ASSUME NEW day \in PriceDays, NEW c \in Configurations, NEW total \in Totals,
             generate_price_version(p, c, day, total)
      PROVE  ListPriceRecord!Draft(p)
  <2> DEFINE row == [status |-> "draft", configuration |-> c, from |-> day, to |-> 0,
                     basis |-> unit_now, escalated |-> escalation[c] \in 1..day,
                     total |-> total]
  <2>1. row.status = "draft" /\ NextPrice(p) /\ ChangePrice(p, row)
    BY <1>4 DEF generate_price_version
  <2> HIDE DEF row
  <2> QED
    BY <1>3, <2>1
<1>5. ASSUME NEW day \in PriceDays, NEW total \in Totals,
             direct_price_version(p, day, total)
      PROVE  ListPriceRecord!Draft(p)
  <2> DEFINE row == [status |-> "draft", configuration |-> 0, from |-> day, to |-> 0,
                     basis |-> unit_now, escalated |-> FALSE, total |-> total]
  <2>1. row.status = "draft" /\ NextPrice(p) /\ ChangePrice(p, row)
    BY <1>5 DEF direct_price_version
  <2> HIDE DEF row
  <2> QED
    BY <1>3, <2>1
<1>6. ASSUME NEW status, NEW before, price[p].status \in before,
             ChangePrice(p, [price[p] EXCEPT !.status = status])
      PROVE  ListPriceRecord!Passes(p, before, status)
  <2> DEFINE row == [price[p] EXCEPT !.status = status]
  <2>1. /\ row.status = status
        /\ row.configuration = price[p].configuration /\ row.from = price[p].from
        /\ row.basis = price[p].basis /\ row.escalated = price[p].escalated
        /\ row.total = price[p].total
    BY <1>1 DEF PriceRow
  <2>2. ChangePrice(p, row)
    BY <1>6
  <2> HIDE DEF row
  <2> QED
    BY <1>1, <1>6, <2>1, <2>2, PriceRowMoves DEF ListPriceRecord!Passes
<1>7. ASSUME submit_price_version(p) PROVE ListPriceRecord!Submit(p)
  BY <1>6, <1>7 DEF submit_price_version, ListPriceRecord!Submit
<1>8. ASSUME return_price_version(p) PROVE ListPriceRecord!Return(p)
  BY <1>6, <1>8 DEF return_price_version, ListPriceRecord!Return
<1>9. ASSUME approve_price_version(p) PROVE ListPriceRecord!Approve(p)
  BY <1>6, <1>9 DEF approve_price_version, ListPriceRecord!Approve
<1>10. ASSUME activate_price_version(p) PROVE ListPriceRecord!PutInForce(p)
  <2>1. /\ price[p].status = "approved"
        /\ price' = [q \in Prices |->
              IF q = p THEN [price[q] EXCEPT !.status = "active"]
              ELSE IF q \in ListPrice
              THEN [price[q] EXCEPT !.status = "superseded", !.to = price[p].from]
              ELSE price[q]]
    BY <1>10 DEF activate_price_version, MakeListPrice
  <2>2. \A q \in Prices :
          /\ price'[q].status = IF q = p THEN "active"
                                ELSE IF price[q].status = "active" THEN "superseded"
                                ELSE price[q].status
          /\ price'[q].configuration = price[q].configuration
          /\ price'[q].from = price[q].from
          /\ price'[q].basis = price[q].basis /\ price'[q].escalated = price[q].escalated
          /\ price'[q].total = price[q].total
    BY <1>1, <2>1 DEF PriceRow, ListPrice
  <2>3. PriceContent' = PriceContent
    BY <2>2 DEF PriceContent
  <2>4. PriceStatus' = [q \in Prices |->
           IF q = p THEN "active"
           ELSE IF PriceStatus[q] = "active" THEN "superseded" ELSE PriceStatus[q]]
    BY <2>2 DEF PriceStatus
  <2> QED
    BY <2>1, <2>3, <2>4 DEF ListPriceRecord!PutInForce, PriceStatus
<1>11. ASSUME NEW total \in Totals, update_price_version(p, total)
       PROVE  ListPriceRecord!Rewrite(p)
  <2> DEFINE row == [price[p] EXCEPT !.total = total]
  <2>1. price[p].status = "draft" /\ ChangePrice(p, row)
    BY <1>11 DEF update_price_version
  <2>2. row.status = price[p].status
    BY <1>1 DEF PriceRow
  <2> HIDE DEF row
  <2> QED
    BY <1>1, <2>1, <2>2, PriceRowMoves DEF ListPriceRecord!Rewrite
<1> QED
  BY <1>2, <1>4, <1>5, <1>7, <1>8, <1>9, <1>10, <1>11 DEF ListPriceRecord!Next

\* What moves under a price, the unit, its parents and the fields, moves neither
\* the price nor the policy.
LEMMA PriceStepRecorded ==
    ASSUME PriceInv, [PriceNext]_priceVars
    PROVE  /\ [PolicyRecord!Next]_(PolicyRecord!record)
           /\ [ListPriceRecord!Next]_(ListPriceRecord!record)
<1>1. ASSUME UNCHANGED configuration PROVE UNCHANGED PolicyRecord!record
  BY <1>1 DEF PolicyRecord!record, PolicyStatus, PolicyContent
<1>2. ASSUME UNCHANGED price PROVE UNCHANGED ListPriceRecord!record
  BY <1>2 DEF ListPriceRecord!record, PriceStatus, PriceContent
<1>3. ASSUME UnitNext \/ UNCHANGED priceVars PROVE UNCHANGED <<configuration, price>>
  BY <1>3 DEF UnitNext, change_unit, approve_area_schedule, cancelled_contract, rename_parent,
              update_definition, new_business_day, Invalidate, Restate, priceVars
<1>4. ASSUME PolicyNext PROVE UNCHANGED price
  BY <1>4 DEF PolicyNext, create_configuration, update_configuration, set_internal_base,
              submit_configuration, return_configuration, approve_configuration,
              activate_configuration, ChangeConfiguration, activate_escalation,
              reverse_activation, ChangeEscalation
<1>5. ASSUME VersionNext PROVE UNCHANGED configuration
  BY <1>5 DEF VersionNext, generate_price_version, direct_price_version, update_price_version,
              submit_price_version, return_price_version, approve_price_version, activate_price_version,
              ChangePrice, MakeListPrice
<1>6. CASE PolicyNext
  BY <1>1, <1>2, <1>4, <1>6, PolicyStepRecorded
<1>7. CASE VersionNext
  BY <1>1, <1>5, <1>7, VersionStepRecorded
<1> QED
  BY <1>1, <1>2, <1>3, <1>6, <1>7 DEF PriceNext

\* Pricing policies and list prices keep the promise of versioned documents for any
\* number of versions and whatever happens to the unit: PriceLifecycle implements
\* VersionOfRecord twice over.
THEOREM PricesKeepRecord == PriceSpec => PricesOfRecord
<1>1. PriceInit => PolicyRecord!Init /\ ListPriceRecord!Init
  BY DEF PriceInit, NoConfiguration, PolicyRecord!Init, ListPriceRecord!Init,
         PolicyStatus, PriceStatus
<1>2. PriceInv /\ [PriceNext]_priceVars
         => /\ [PolicyRecord!Next]_(PolicyRecord!record)
            /\ [ListPriceRecord!Next]_(ListPriceRecord!record)
  BY PriceStepRecorded
<1> QED
  BY <1>1, <1>2, PriceInvariant, PTL
     DEF PriceSpec, PricesOfRecord, PolicyRecord!Spec, ListPriceRecord!Spec

-----------------------------------------------------------------------------
(* Where units stand *)

\* A row refers to rows that are there, and a unit that is not in the table left
\* nothing behind.
RowsStand ==
    /\ \A b \in Buildings :
          building[b].status # "none"
              => building[b].phase \in Phases /\ phase[building[b].phase] # "none"
    /\ \A f \in Floors :
          floor[f].status # "none"
              => floor[f].building \in Buildings /\ building[floor[f].building].status # "none"
    /\ \A h \in Homes :
          IF home[h].status = "none" THEN home[h] = NoHome
          ELSE /\ home[h].on \in Parents
               /\ home[h].on.floor # 0 => floor[home[h].on.floor].status # "none"
               /\ home[h].on.floor = 0 => building[home[h].on.building].status # "none"

PlaceInv ==
    /\ PlaceTypeOK
    /\ RowsStand
    /\ StandsOnActiveGround
    /\ MoveEndsApproval

LEMMA SiteNumbers ==
    /\ 0 \notin Phases /\ 0 \notin Buildings /\ 0 \notin Floors
    /\ \A x \in Parents : \/ x.floor \in Floors /\ x.building = 0
                          \/ x.floor = 0 /\ x.building \in Buildings
    /\ Nowhere \notin Parents
BY SiteAssumption DEF Phases, Buildings, Floors, Parents, Nowhere

\* Where a row's building is.
LEMMA RowsGround ==
    ASSUME PlaceInv, NEW h \in Homes, home[h].status # "none"
    PROVE  /\ home[h].on \in Parents
           /\ BuildingUnder(home[h].on) \in Buildings
           /\ building[BuildingUnder(home[h].on)].status # "none"
           /\ building[BuildingUnder(home[h].on)].phase \in Phases
           /\ phase[building[BuildingUnder(home[h].on)].phase] # "none"
           /\ h \in Under(BuildingUnder(home[h].on))
<1>1. home[h].on \in Parents
  BY DEF PlaceInv, RowsStand
<1>2. CASE home[h].on.floor = 0
  <2>1. home[h].on = [floor |-> 0, building |-> home[h].on.building]
        /\ home[h].on.building \in Buildings
    BY <1>1, <1>2, SiteNumbers DEF Parents
  <2>2. BuildingUnder(home[h].on) = home[h].on.building
    BY <1>2 DEF BuildingUnder
  <2>3. h \in Direct(home[h].on.building)
    BY <2>1 DEF Direct, Rows
  <2> QED
    BY <1>1, <1>2, <2>1, <2>2, <2>3 DEF PlaceInv, RowsStand, Under
<1>3. CASE home[h].on.floor # 0
  <2> DEFINE f == home[h].on.floor
  <2>1. home[h].on = [floor |-> f, building |-> 0] /\ f \in Floors
    BY <1>1, <1>3, SiteNumbers DEF Parents
  <2>2. BuildingUnder(home[h].on) = floor[f].building
    BY <1>3 DEF BuildingUnder
  <2>3. floor[f].status # "none" /\ floor[f].building \in Buildings
    BY <1>3, <2>1 DEF PlaceInv, RowsStand
  <2>4. h \in OnFloor(f) /\ f \in FloorsOf(floor[f].building)
    BY <2>1, <2>3 DEF OnFloor, Rows, FloorsOf
  <2> QED
    BY <1>1, <2>1, <2>2, <2>3, <2>4 DEF PlaceInv, RowsStand, Under
<1> QED
  BY <1>2, <1>3

\* What a withdrawn row keeps.
LEMMA Withdrawn ==
    ASSUME NEW row \in HomeRow
    PROVE  /\ Withdraw(row) \in HomeRow
           /\ Withdraw(row).status = row.status /\ Withdraw(row).on = row.on
           /\ Withdraw(row).released = row.released
           /\ Withdraw(row).approved = NoPlace
BY DEF Withdraw, HomeRow

\* Only one unit changes.
LEMMA HomeStep ==
    ASSUME PlaceInv, NEW h \in Homes, NEW row \in HomeRow, ChangeHome(h, row),
           \/ row = NoHome
           \/ /\ row.status # "none"
              /\ \/ row.on = home[h].on /\ home[h].status # "none"
                 \/ UnitParent(row.on) /\ row.on \in Parents
              /\ row.status = "active" => Upright(row.on)
              /\ row.approved # NoPlace /\ ~row.loaded => row.approved = PlaceOf(row.on)
    PROVE  PlaceInv'
<1> USE DEF ChangeHome
<1>1. /\ home' = [home EXCEPT ![h] = row] /\ home \in [Homes -> HomeRow]
      /\ home' \in [Homes -> HomeRow]
      /\ phase' = phase /\ building' = building /\ floor' = floor
  BY DEF PlaceInv, PlaceTypeOK
<1>2. PlaceTypeOK'
  BY <1>1 DEF PlaceInv, PlaceTypeOK
<1>3. NoHome.status = "none" /\ NoHome.approved = NoPlace
  BY DEF NoHome
<1>4. home'[h] = row /\ \A g \in Homes \ {h} : home'[g] = home[g]
  BY <1>1
<1>5. /\ \A x : /\ BuildingUnder(x)' = BuildingUnder(x) /\ Upright(x)' = Upright(x)
                /\ PlaceOf(x)' = PlaceOf(x)
      /\ \A b : FloorsOf(b)' = FloorsOf(b)
  BY <1>1 DEF BuildingUnder, Upright, GroundActive, PlaceOf, FloorsOf
<1>6. CASE row = NoHome
  <2>1. RowsStand'
    BY <1>1, <1>3, <1>4, <1>6 DEF PlaceInv, RowsStand
  <2>2. \A b \in Buildings : Direct(b)' \subseteq Direct(b)
    BY <1>3, <1>4, <1>6 DEF Direct, Rows
  <2>3. StandsOnActiveGround'
    BY <1>3, <1>4, <1>5, <1>6, <2>2 DEF PlaceInv, StandsOnActiveGround, ActiveAmong
  <2>4. MoveEndsApproval'
    BY <1>3, <1>4, <1>5, <1>6 DEF PlaceInv, MoveEndsApproval, Rows
  <2> QED
    BY <1>2, <2>1, <2>3, <2>4 DEF PlaceInv
<1>7. CASE row # NoHome
  <2>1. row.on \in Parents
    BY <1>7, RowsGround
  <2>2. /\ row.on.floor # 0 => floor[row.on.floor].status # "none"
        /\ row.on.floor = 0 => building[row.on.building].status # "none"
    <3>1. CASE row.on = home[h].on /\ home[h].status # "none"
      BY <3>1 DEF PlaceInv, RowsStand
    <3>2. CASE UnitParent(row.on)
      BY <3>2 DEF UnitParent, Upright, GroundActive, BuildingUnder
    <3> QED
      BY <1>7, <3>1, <3>2
  <2>3. RowsStand'
    BY <1>1, <1>4, <1>7, <2>1, <2>2 DEF PlaceInv, RowsStand
  <2>4. ASSUME NEW b \in Buildings
        PROVE  FloorsOf(b)' = {} \/ Direct(b)' = {}
    <3>1. CASE \E g \in Direct(b)' : g # h
      <4>1. PICK g \in Direct(b)' : g # h
        BY <3>1
      <4>2. g \in Direct(b)
        BY <1>4, <4>1 DEF Direct, Rows
      <4> QED
        BY <1>5, <4>2 DEF PlaceInv, StandsOnActiveGround
    <3>2. CASE h \in Direct(b)'
      <4>1. row.on = [floor |-> 0, building |-> b]
        BY <1>4, <3>2 DEF Direct
      <4>2. CASE row.on = home[h].on /\ home[h].status # "none"
        <5>1. h \in Direct(b)
          BY <4>1, <4>2 DEF Direct, Rows
        <5> QED
          BY <1>5, <5>1 DEF PlaceInv, StandsOnActiveGround
      <4>3. CASE UnitParent(row.on)
        BY <1>5, <4>1, <4>3 DEF UnitParent
      <4> QED
        BY <1>7, <4>2, <4>3
    <3> QED
      BY <3>1, <3>2
  <2>5. StandsOnActiveGround'
    BY <1>4, <1>5, <1>7, <2>4 DEF PlaceInv, StandsOnActiveGround, ActiveAmong
  <2>6. MoveEndsApproval'
    BY <1>4, <1>5, <1>7 DEF PlaceInv, MoveEndsApproval, Rows
  <2> QED
    BY <1>2, <2>3, <2>5, <2>6 DEF PlaceInv
<1> QED
  BY <1>6, <1>7

-----------------------------------------------------------------------------
(* Units *)

LEMMA HomeNextStep ==
    ASSUME PlaceInv, HomeNext
    PROVE  PlaceInv'
<1>1. PICK h \in Homes :
        \/ \E parent \in Parents :
              \/ create_unit(h, parent)
              \/ \E status \in {"active", "inactive"} : update_unit(h, parent, status)
        \/ remove_unit(h) \/ restore_unit(h) \/ delete_unit(h)
        \/ price_unit(h) \/ release_unit(h) \/ return_unit(h)
  BY DEF HomeNext
<1>2. /\ home \in [Homes -> HomeRow] /\ home[h] \in HomeRow
      /\ NoHome.status = "none" /\ NoHome.approved = NoPlace
      /\ Nowhere \notin Parents
  BY SiteNumbers DEF PlaceInv, PlaceTypeOK, NoHome
<1>3. ASSUME home[h].status # "none"
      PROVE  /\ home[h].on \in Parents
             /\ home[h].status = "active" => Upright(home[h].on)
             /\ home[h].approved # NoPlace /\ ~home[h].loaded
                  => home[h].approved = PlaceOf(home[h].on)
  BY <1>3, RowsGround DEF PlaceInv, StandsOnActiveGround, MoveEndsApproval, ActiveAmong, Rows
<1>4. ASSUME NEW row \in HomeRow, ChangeHome(h, row), home[h].status # "none",
             row.on = home[h].on, row.status = home[h].status,
             row.approved = home[h].approved, row.loaded = home[h].loaded
      PROVE  PlaceInv'
  BY <1>3, <1>4, HomeStep
<1>5. ASSUME NEW parent \in Parents, create_unit(h, parent)
      PROVE  PlaceInv'
  <2> DEFINE row == [NoHome EXCEPT !.status = "active", !.on = parent]
  <2>1. row \in HomeRow /\ row.on = parent /\ row.status = "active"
        /\ row.approved = NoPlace
    BY DEF NoHome, HomeRow
  <2>2. ChangeHome(h, row) /\ UnitParent(parent)
    BY <1>5 DEF create_unit
  <2> HIDE DEF row
  <2> QED
    BY <2>1, <2>2, HomeStep DEF UnitParent
<1>6. ASSUME NEW parent \in Parents, NEW status \in {"active", "inactive"},
             update_unit(h, parent, status)
      PROVE  PlaceInv'
  <2> DEFINE row == [Withdraw(home[h]) EXCEPT !.status = status, !.on = parent]
  <2>1. row \in HomeRow /\ row.on = parent /\ row.status = status
        /\ row.approved = NoPlace
    BY ZenonT(40), <1>2, Withdrawn DEF HomeRow
  <2>2. ChangeHome(h, row) /\ home[h].status \in {"active", "inactive"}
        /\ (parent # home[h].on => UnitParent(parent))
        /\ (home[h].status = "inactive" /\ status = "active" => UnitParent(home[h].on))
    BY <1>6 DEF update_unit
  <2> HIDE DEF row
  <2>3. status = "active" => Upright(parent)
    BY <1>3, <2>2 DEF UnitParent
  <2> QED
    BY <2>1, <2>2, <2>3, HomeStep
<1>7. CASE remove_unit(h)
  <2> DEFINE row == [home[h] EXCEPT !.status = "removed"]
  <2>1. row \in HomeRow /\ row.status = "removed" /\ row.on = home[h].on
        /\ row.approved = home[h].approved /\ row.loaded = home[h].loaded
    BY <1>2 DEF HomeRow
  <2>2. ChangeHome(h, row) /\ home[h].status # "none"
    BY <1>7 DEF remove_unit
  <2> HIDE DEF row
  <2> QED
    BY <1>3, <2>1, <2>2, HomeStep
<1>8. CASE restore_unit(h)
  <2> DEFINE row == [home[h] EXCEPT !.status = "active"]
  <2>1. row \in HomeRow /\ row.status = "active" /\ row.on = home[h].on
        /\ row.approved = home[h].approved /\ row.loaded = home[h].loaded
    BY <1>2 DEF HomeRow
  <2>2. ChangeHome(h, row) /\ home[h].status # "none" /\ Upright(home[h].on)
    BY <1>8 DEF restore_unit
  <2> HIDE DEF row
  <2> QED
    BY <1>3, <2>1, <2>2, HomeStep
<1>9. CASE delete_unit(h)
  <2>1. NoHome \in HomeRow
    BY DEF NoHome, HomeRow
  <2> QED
    BY <1>9, <2>1, HomeStep DEF delete_unit
<1>10. CASE price_unit(h)
  <2> DEFINE row == [home[h] EXCEPT !.priced = TRUE, !.loaded = FALSE,
                                    !.approved = PlaceOf(home[h].on)]
  <2>1. ChangeHome(h, row) /\ home[h].status = "active"
    BY <1>10 DEF price_unit
  <2>2. PlaceOf(home[h].on) \in Places
    <3>1. home[h].on.floor \in {0} \cup Floors
      BY <1>3, <2>1, SiteNumbers
    <3> QED
      BY <2>1, <3>1, RowsGround DEF PlaceOf, Places
  <2>3. row \in HomeRow /\ row.status = "active" /\ row.on = home[h].on
        /\ row.approved = PlaceOf(home[h].on)
    BY <1>2, <2>1, <2>2 DEF HomeRow
  <2> HIDE DEF row
  <2> QED
    BY <1>3, <2>1, <2>3, HomeStep
<1>11. CASE release_unit(h)
  <2> DEFINE row == [home[h] EXCEPT !.released = TRUE]
  <2>1. row \in HomeRow /\ row.status = home[h].status /\ row.on = home[h].on
        /\ row.approved = home[h].approved /\ row.loaded = home[h].loaded
    BY <1>2 DEF HomeRow
  <2>2. ChangeHome(h, row) /\ home[h].status # "none"
    BY <1>11 DEF release_unit
  <2> HIDE DEF row
  <2> QED
    BY <1>4, <2>1, <2>2
<1>12. CASE return_unit(h)
  <2> DEFINE row == [home[h] EXCEPT !.released = FALSE]
  <2>1. row \in HomeRow /\ row.status = home[h].status /\ row.on = home[h].on
        /\ row.approved = home[h].approved /\ row.loaded = home[h].loaded
    BY <1>2 DEF HomeRow
  <2>2. ChangeHome(h, row) /\ home[h].status # "none"
    BY <1>12 DEF return_unit
  <2> HIDE DEF row
  <2> QED
    BY <1>4, <2>1, <2>2
<1> QED
  BY <1>1, <1>5, <1>6, <1>7, <1>8, <1>9, <1>10, <1>11, <1>12

-----------------------------------------------------------------------------
(* Phases, buildings and floors *)

\* Some units are withdrawn; the rest of the hierarchy may change around them.
LEMMA WithdrawnRows ==
    ASSUME PlaceInv, NEW homes, home' = WithdrawAll(homes)
    PROVE  /\ home' \in [Homes -> HomeRow]
           /\ \A h \in Homes :
                /\ home'[h].status = home[h].status /\ home'[h].on = home[h].on
                /\ home[h].status = "none" => home'[h] = NoHome
                /\ home'[h].approved # NoPlace => home'[h] = home[h] /\ h \notin homes
           /\ Rows' = Rows
           /\ \A b : Direct(b)' = Direct(b)
           /\ \A f : OnFloor(f)' = OnFloor(f)
<1>1. home \in [Homes -> HomeRow]
  BY DEF PlaceInv, PlaceTypeOK
<1>2. Withdraw(NoHome) = NoHome
  <2>1. NoHome \in HomeRow /\ NoHome.approved = NoPlace /\ NoHome.loaded = FALSE
    BY DEF NoHome, HomeRow
  <2>2. \A row \in HomeRow :
          row.approved = NoPlace /\ row.loaded = FALSE => Withdraw(row) = row
    BY DEF Withdraw, HomeRow
  <2> QED
    BY <2>1, <2>2
<1>3. \A h \in Homes : home'[h] = IF h \in homes THEN Withdraw(home[h]) ELSE home[h]
  BY DEF WithdrawAll
<1>4. \A h \in Homes : home[h].status = "none" => home[h] = NoHome
  BY DEF PlaceInv, RowsStand
<1>5. home' \in [Homes -> HomeRow]
  BY <1>1, Withdrawn DEF WithdrawAll
<1>6. \A h \in Homes :
        /\ home'[h].status = home[h].status /\ home'[h].on = home[h].on
        /\ home[h].status = "none" => home'[h] = NoHome
        /\ home'[h].approved # NoPlace => home'[h] = home[h] /\ h \notin homes
  BY <1>1, <1>2, <1>3, <1>4, Withdrawn
<1>7. Rows' = Rows
  BY <1>6 DEF Rows
<1> QED
  BY <1>5, <1>6, <1>7, Rows \subseteq Homes DEF Direct, OnFloor, Rows

LEMMA PhaseStep ==
    ASSUME PlaceInv, NEW p \in Phases, UNCHANGED <<building, floor, home>>,
           NEW status \in {"none"} \cup Activity, phase' = [phase EXCEPT ![p] = status],
           \/ phase[p] # "none" /\ status = "active"
           \/ phase[p] = "none" /\ status = "active"
           \/ /\ status = "retired" /\ phase[p] # "none"
              /\ \A b \in Buildings : building[b].phase = p => building[b].status # "active"
           \/ \A b \in Buildings : building[b].phase # p
    PROVE  PlaceInv'
<1>1. /\ phase \in [Phases -> {"none"} \cup Activity] /\ PlaceTypeOK'
      /\ phase'[p] = status /\ \A q \in Phases \ {p} : phase'[q] = phase[q]
  BY DEF PlaceInv, PlaceTypeOK
<1>2. \A x : BuildingUnder(x)' = BuildingUnder(x) /\ PlaceOf(x)' = PlaceOf(x)
  BY DEF BuildingUnder, PlaceOf
<1>3. RowsStand'
  BY <1>1 DEF PlaceInv, RowsStand, Activity
<1>4. ASSUME NEW h \in Homes, home[h].status = "active"
      PROVE  Upright(home[h].on)'
  <2>1. /\ Upright(home[h].on) /\ BuildingUnder(home[h].on) \in Buildings
        /\ building[BuildingUnder(home[h].on)].phase \in Phases
    BY <1>4, RowsGround DEF PlaceInv, StandsOnActiveGround, ActiveAmong
  <2> QED
    BY <1>1, <1>2, <2>1 DEF Upright, GroundActive
<1>5. /\ ActiveAmong(Homes)' = ActiveAmong(Homes)
      /\ \A b : FloorsOf(b)' = FloorsOf(b) /\ Direct(b)' = Direct(b)
  BY DEF ActiveAmong, FloorsOf, Direct, Rows
<1>6. StandsOnActiveGround'
  BY <1>4, <1>5 DEF PlaceInv, StandsOnActiveGround, ActiveAmong
<1>7. MoveEndsApproval'
  BY <1>2 DEF PlaceInv, MoveEndsApproval, Rows
<1> QED
  BY <1>1, <1>3, <1>6, <1>7 DEF PlaceInv

LEMMA StandsUnder ==
    ASSUME PlaceInv, NEW b \in Buildings, NEW h \in Under(b)
    PROVE  /\ h \in Homes /\ home[h].status # "none"
           /\ BuildingUnder(home[h].on) = b
<1>1. CASE h \in Direct(b)
  BY <1>1, SiteNumbers DEF Direct, Rows, BuildingUnder
<1>2. ASSUME NEW f \in FloorsOf(b), h \in OnFloor(f)
      PROVE  h \in Homes /\ home[h].status # "none" /\ BuildingUnder(home[h].on) = b
  BY <1>2, SiteNumbers DEF OnFloor, FloorsOf, Rows, BuildingUnder
<1> QED
  BY <1>1, <1>2 DEF Under

LEMMA BuildingStep ==
    ASSUME PlaceInv, NEW b \in Buildings, NEW row \in BuildingRow, NEW homes,
           building' = [building EXCEPT ![b] = row],
           home' = WithdrawAll(homes), UNCHANGED <<phase, floor>>,
           \/ row = NoBuilding /\ Under(b) = {} /\ FloorsOf(b) = {}
           \/ /\ row.phase \in Phases /\ phase[row.phase] # "none"
              /\ row.status # "none"
              /\ row.phase = building[b].phase \/ Under(b) \subseteq homes
              /\ ActiveAmong(Under(b)) # {}
                    => row.status = "active" /\ phase[row.phase] = "active"
    PROVE  PlaceInv'
<1>1. /\ building \in [Buildings -> BuildingRow] /\ building'[b] = row
      /\ \A c \in Buildings \ {b} : building'[c] = building[c]
  BY DEF PlaceInv, PlaceTypeOK
<1>2. PlaceTypeOK'
  BY WithdrawnRows DEF PlaceInv, PlaceTypeOK
<1>3. NoBuilding.status = "none"
  BY DEF NoBuilding
<1>4. /\ \A x : BuildingUnder(x)' = BuildingUnder(x)
      /\ \A c : FloorsOf(c)' = FloorsOf(c)
      /\ \A c : Direct(c)' = Direct(c)
  BY WithdrawnRows DEF BuildingUnder, FloorsOf
<1>5. ASSUME NEW h \in Homes, home[h].status # "none"
      PROVE  /\ home[h].on \in Parents
             /\ BuildingUnder(home[h].on) \in Buildings
             /\ BuildingUnder(home[h].on) = b => h \in Under(b) /\ row.status # "none"
             /\ building'[BuildingUnder(home[h].on)].status # "none"
  BY <1>1, <1>5, RowsGround
<1>6. RowsStand'
  <2>1. \A c \in Buildings :
          building'[c].status # "none"
              => building'[c].phase \in Phases /\ phase'[building'[c].phase] # "none"
    BY <1>1, <1>3 DEF PlaceInv, RowsStand
  <2>2. \A f \in Floors :
          floor'[f].status # "none"
              => floor'[f].building \in Buildings /\ building'[floor'[f].building].status # "none"
    BY <1>1 DEF PlaceInv, RowsStand, FloorsOf
  <2>3. ASSUME NEW h \in Homes
        PROVE  IF home'[h].status = "none" THEN home'[h] = NoHome
               ELSE /\ home'[h].on \in Parents
                    /\ home'[h].on.floor # 0 => floor'[home'[h].on.floor].status # "none"
                    /\ home'[h].on.floor = 0
                          => building'[home'[h].on.building].status # "none"
    BY SMTT(30), <1>5, WithdrawnRows DEF PlaceInv, RowsStand, BuildingUnder
  <2> QED
    BY <2>1, <2>2, <2>3 DEF RowsStand
<1>7. ASSUME NEW h \in Homes, home[h].status = "active"
      PROVE  Upright(home[h].on)'
  <2>1. Upright(home[h].on)
    BY <1>7 DEF PlaceInv, StandsOnActiveGround, ActiveAmong
  <2>2. CASE BuildingUnder(home[h].on) = b
    <3>1. row.status = "active" /\ phase[row.phase] = "active"
      BY <1>5, <1>7, <2>2 DEF ActiveAmong
    <3> QED
      BY <1>1, <1>4, <1>5, <1>7, <2>1, <2>2, <3>1, WithdrawnRows DEF Upright, GroundActive
  <2>3. CASE BuildingUnder(home[h].on) # b
    BY <1>1, <1>4, <1>5, <1>7, <2>1, <2>3, WithdrawnRows DEF Upright, GroundActive
  <2> QED
    BY <2>2, <2>3
<1>8. StandsOnActiveGround'
  BY <1>4, <1>7, WithdrawnRows DEF PlaceInv, StandsOnActiveGround, ActiveAmong
<1>9. MoveEndsApproval'
  <2>1. SUFFICES ASSUME NEW h \in Homes, home[h].status # "none",
                        home'[h].approved # NoPlace, ~home'[h].loaded
                 PROVE  home'[h].approved = PlaceOf(home[h].on)'
    BY WithdrawnRows DEF MoveEndsApproval, Rows
  <2>2. home'[h] = home[h] /\ h \notin homes /\ home'[h].on = home[h].on
    BY <2>1, WithdrawnRows
  <2>3. home[h].approved = PlaceOf(home[h].on)
    BY <2>1, <2>2 DEF PlaceInv, MoveEndsApproval, Rows
  <2>4. building'[BuildingUnder(home[h].on)].phase = building[BuildingUnder(home[h].on)].phase
    BY <1>1, <1>5, <2>1, <2>2
  <2> QED
    BY <1>4, <2>2, <2>3, <2>4 DEF PlaceOf
<1> QED
  BY <1>2, <1>6, <1>8, <1>9 DEF PlaceInv

LEMMA FloorStep ==
    ASSUME PlaceInv, NEW f \in Floors, NEW row \in FloorRow, NEW homes,
           floor' = [floor EXCEPT ![f] = row],
           home' = WithdrawAll(homes), UNCHANGED <<phase, building>>,
           \/ row = NoFloor /\ OnFloor(f) = {}
           \/ /\ row.building \in Buildings /\ building[row.building].status # "none"
              /\ row.status # "none"
              /\ \/ row.building = floor[f].building /\ floor[f].status # "none"
                 \/ Direct(row.building) = {} /\ OnFloor(f) \subseteq homes
              /\ ActiveAmong(OnFloor(f)) # {}
                    => row.status = "active" /\ GroundActive(row.building)
    PROVE  PlaceInv'
<1>1. /\ floor \in [Floors -> FloorRow] /\ floor'[f] = row
      /\ \A g \in Floors \ {f} : floor'[g] = floor[g]
  BY DEF PlaceInv, PlaceTypeOK
<1>2. PlaceTypeOK'
  BY WithdrawnRows DEF PlaceInv, PlaceTypeOK
<1>3. NoFloor.status = "none"
  BY DEF NoFloor
<1>4. /\ \A c : Direct(c)' = Direct(c)
      /\ \A c : GroundActive(c)' = GroundActive(c)
  BY WithdrawnRows DEF GroundActive
<1>5. ASSUME NEW h \in Homes, home[h].status # "none"
      PROVE  /\ home[h].on \in Parents
             /\ home[h].on.floor = f => h \in OnFloor(f) /\ row.status # "none"
             /\ home[h].on.floor # 0
                  => home[h].on.floor \in Floors /\ floor'[home[h].on.floor].status # "none"
             /\ home[h].on.floor # f => BuildingUnder(home[h].on)' = BuildingUnder(home[h].on)
             /\ home[h].on.floor = f => BuildingUnder(home[h].on)' = row.building
  <2>1. home[h].on \in Parents
    BY <1>5, RowsGround
  <2>2. home[h].on.floor = f => h \in OnFloor(f)
    BY <1>5, <2>1, SiteNumbers DEF OnFloor, Rows, Parents
  <2>3. home[h].on.floor # 0 => home[h].on.floor \in Floors /\ floor[home[h].on.floor].status # "none"
    BY <1>5, <2>1, SiteNumbers DEF PlaceInv, RowsStand
  <2> QED
    BY <1>1, <2>1, <2>2, <2>3, SiteNumbers, WithdrawnRows DEF BuildingUnder
<1>6. RowsStand'
  <2>1. \A g \in Floors :
          floor'[g].status # "none"
              => floor'[g].building \in Buildings /\ building'[floor'[g].building].status # "none"
    BY <1>1, <1>3 DEF PlaceInv, RowsStand
  <2>2. ASSUME NEW h \in Homes
        PROVE  IF home'[h].status = "none" THEN home'[h] = NoHome
               ELSE /\ home'[h].on \in Parents
                    /\ home'[h].on.floor # 0 => floor'[home'[h].on.floor].status # "none"
                    /\ home'[h].on.floor = 0
                          => building'[home'[h].on.building].status # "none"
    BY <1>5, WithdrawnRows DEF PlaceInv, RowsStand
  <2> QED
    BY <2>1, <2>2 DEF RowsStand, PlaceInv
<1>7. ASSUME NEW h \in Homes, home[h].status = "active"
      PROVE  Upright(home[h].on)'
  <2>1. Upright(home[h].on)
    BY <1>7 DEF PlaceInv, StandsOnActiveGround, ActiveAmong
  <2>2. CASE home[h].on.floor = f
    <3>1. row.status = "active" /\ GroundActive(row.building)
      BY <1>5, <1>7, <2>2 DEF ActiveAmong
    <3>2. row.building \in Buildings
      BY <1>5, <1>7, <2>2, <1>3
    <3> QED
      BY <1>1, <1>4, <1>5, <1>7, <2>2, <3>1, <3>2, SiteNumbers, WithdrawnRows DEF Upright
  <2>3. CASE home[h].on.floor # f
    BY <1>1, <1>4, <1>5, <1>7, <2>1, <2>3, WithdrawnRows DEF Upright
  <2> QED
    BY <2>2, <2>3
<1>8. ASSUME NEW b \in Buildings
      PROVE  FloorsOf(b)' = {} \/ Direct(b)' = {}
  <2>1. CASE \E g \in FloorsOf(b)' : g # f
    <3>1. FloorsOf(b) # {}
      BY <1>1, <2>1 DEF FloorsOf
    <3> QED
      BY <1>4, <3>1 DEF PlaceInv, StandsOnActiveGround
  <2>2. CASE f \in FloorsOf(b)'
    <3>1. row.building = b /\ row.status # "none"
      BY <1>1, <2>2 DEF FloorsOf
    <3>2. CASE floor[f].building = b /\ floor[f].status # "none"
      <4>1. f \in FloorsOf(b)
        BY <3>2 DEF FloorsOf
      <4> QED
        BY <1>4, <4>1 DEF PlaceInv, StandsOnActiveGround
    <3> QED
      BY <1>3, <1>4, <3>1, <3>2
  <2> QED
    BY <2>1, <2>2
<1>9. StandsOnActiveGround'
  BY <1>7, <1>8, WithdrawnRows DEF StandsOnActiveGround, ActiveAmong
<1>10. MoveEndsApproval'
  <2>1. SUFFICES ASSUME NEW h \in Homes, home[h].status # "none",
                        home'[h].approved # NoPlace, ~home'[h].loaded
                 PROVE  home'[h].approved = PlaceOf(home[h].on)'
    BY WithdrawnRows DEF MoveEndsApproval, Rows
  <2>2. home'[h] = home[h] /\ h \notin homes /\ home'[h].on = home[h].on
    BY <2>1, WithdrawnRows
  <2>3. home[h].approved = PlaceOf(home[h].on)
    BY <2>1, <2>2 DEF PlaceInv, MoveEndsApproval, Rows
  <2>4. BuildingUnder(home[h].on)' = BuildingUnder(home[h].on)
    <3>1. CASE home[h].on.floor = f
      <4>1. row.building = floor[f].building
        BY <1>3, <1>5, <2>1, <2>2, <3>1
      <4> QED
        BY <1>5, <2>1, <3>1, <4>1, SiteNumbers DEF BuildingUnder
    <3> QED
      BY <1>5, <2>1, <3>1
  <2> QED
    BY <2>2, <2>3, <2>4 DEF PlaceOf
<1> QED
  BY <1>2, <1>6, <1>9, <1>10 DEF PlaceInv

LEMMA GroundStep ==
    ASSUME PlaceInv, HierarchyNext
    PROVE  PlaceInv'
<1>1. /\ phase \in [Phases -> {"none"} \cup Activity]
      /\ building \in [Buildings -> BuildingRow]
      /\ floor \in [Floors -> FloorRow]
      /\ home \in [Homes -> HomeRow]
  BY DEF PlaceInv, PlaceTypeOK
<1>2. WithdrawAll({}) = home
  BY <1>1 DEF WithdrawAll
<1>3. ASSUME NEW p \in Phases, create_phase(p)
      PROVE  PlaceInv'
  BY <1>3, PhaseStep DEF create_phase, Activity
<1>4. ASSUME NEW p \in Phases, NEW status \in Activity, update_phase(p, status)
      PROVE  PlaceInv'
  BY <1>4, PhaseStep DEF update_phase, Activity
<1>5. ASSUME NEW p \in Phases, NEW b \in Buildings, create_building(b, p)
      PROVE  PlaceInv'
  <2> DEFINE row == [status |-> "active", phase |-> p]
  <2>1. row \in BuildingRow /\ row.status = "active" /\ row.phase = p
    BY DEF BuildingRow, Activity
  <2>2. building' = [building EXCEPT ![b] = row] /\ building[b].status = "none"
        /\ phase[p] = "active" /\ UNCHANGED <<phase, floor, home>>
    BY <1>5 DEF create_building
  <2>3. Under(b) = {}
    BY <2>2, StandsUnder, RowsGround
  <2> HIDE DEF row
  <2> QED
    BY <1>2, <2>1, <2>2, <2>3, BuildingStep
<1>6. ASSUME NEW p \in Phases, NEW b \in Buildings, NEW status \in Activity,
             update_building(b, p, status)
      PROVE  PlaceInv'
  <2> DEFINE row == [status |-> status, phase |-> p]
             homes == IF p = building[b].phase THEN {} ELSE Under(b)
  <2>1. row \in BuildingRow /\ row.status = status /\ row.phase = p /\ status # "none"
    BY DEF BuildingRow, Activity
  <2>2. /\ building' = [building EXCEPT ![b] = row] /\ building[b].status # "none"
        /\ home' = WithdrawAll(homes) /\ UNCHANGED <<phase, floor>>
        /\ p # building[b].phase => phase[p] = "active"
        /\ building[b].status = "active" /\ status = "retired" =>
              /\ \A f \in FloorsOf(b) : floor[f].status # "active"
              /\ ActiveAmong(Direct(b)) = {}
    BY <1>6 DEF update_building
  <2>3. row.phase = building[b].phase \/ Under(b) \subseteq homes
    BY <2>1
  <2>4. phase[p] # "none"
    BY <2>2 DEF PlaceInv, RowsStand
  <2>5. ASSUME NEW h \in Under(b), home[h].status = "active"
        PROVE  status = "active" /\ phase[p] = "active"
    <3>1. h \in Homes /\ BuildingUnder(home[h].on) = b /\ Upright(home[h].on)
      BY <2>5, StandsUnder DEF PlaceInv, StandsOnActiveGround, ActiveAmong
    <3>2. building[b].status = "active" /\ phase[building[b].phase] = "active"
      BY <3>1 DEF Upright, GroundActive
    <3>3. CASE h \in Direct(b)
      BY <2>2, <2>5, <3>2, <3>3 DEF ActiveAmong, Activity
    <3>4. ASSUME NEW f \in FloorsOf(b), h \in OnFloor(f)
          PROVE  status = "active"
      <4>1. home[h].on.floor = f /\ f # 0
        BY <3>4, SiteNumbers DEF OnFloor, FloorsOf
      <4>2. floor[f].status = "active"
        BY <3>1, <4>1 DEF Upright
      <4> QED
        BY <2>2, <3>2, <4>2 DEF Activity
    <3> QED
      BY <2>2, <2>5, <3>2, <3>3, <3>4 DEF Under, ActiveAmong, Activity
  <2> HIDE DEF row, homes
  <2> QED
    BY <2>1, <2>2, <2>3, <2>4, <2>5, BuildingStep DEF ActiveAmong
<1>7. ASSUME NEW f \in Floors, NEW b \in Buildings, create_floor(f, b)
      PROVE  PlaceInv'
  <2> DEFINE row == [status |-> "active", building |-> b]
  <2>1. row \in FloorRow /\ row.status = "active" /\ row.building = b
    BY DEF FloorRow, Activity
  <2>2. floor' = [floor EXCEPT ![f] = row] /\ floor[f].status = "none"
        /\ building[b].status = "active" /\ Direct(b) = {} /\ UNCHANGED <<phase, building, home>>
    BY <1>7 DEF create_floor
  <2>3. OnFloor(f) = {}
    BY <2>2, SiteNumbers DEF OnFloor, Rows, PlaceInv, RowsStand
  <2> HIDE DEF row
  <2> QED
    BY <1>2, <2>1, <2>2, <2>3, FloorStep DEF ActiveAmong
<1>8. ASSUME NEW f \in Floors, NEW b \in Buildings, NEW status \in Activity,
             update_floor(f, b, status)
      PROVE  PlaceInv'
  <2> DEFINE row == [status |-> status, building |-> b]
             homes == IF b = floor[f].building THEN {} ELSE OnFloor(f)
  <2>1. row \in FloorRow /\ row.status = status /\ row.building = b /\ status # "none"
    BY DEF FloorRow, Activity
  <2>2. /\ floor' = [floor EXCEPT ![f] = row] /\ floor[f].status # "none"
        /\ home' = WithdrawAll(homes) /\ UNCHANGED <<phase, building>>
        /\ b # floor[f].building
              => Direct(b) = {} /\ building[b].status # "none" /\ GroundActive(b)
        /\ floor[f].status = "active" /\ status = "retired" => ActiveAmong(OnFloor(f)) = {}
    BY <1>8 DEF update_floor
  <2>3. \/ row.building = floor[f].building /\ floor[f].status # "none"
        \/ Direct(row.building) = {} /\ OnFloor(f) \subseteq homes
    BY <2>1, <2>2
  <2>4. building[b].status # "none"
    BY <2>2 DEF PlaceInv, RowsStand
  <2>5. ASSUME NEW h \in OnFloor(f), home[h].status = "active"
        PROVE  status = "active" /\ GroundActive(b)
    <3>1. h \in Homes /\ home[h].on = [floor |-> f, building |-> 0] /\ Upright(home[h].on)
      BY <2>5 DEF PlaceInv, StandsOnActiveGround, ActiveAmong, OnFloor, Rows
    <3>2. floor[f].status = "active" /\ GroundActive(floor[f].building)
      BY <3>1, SiteNumbers DEF Upright, BuildingUnder
    <3> QED
      BY <2>2, <2>5, <3>2 DEF ActiveAmong, Activity
  <2> HIDE DEF row, homes
  <2> QED
    BY <2>1, <2>2, <2>3, <2>4, <2>5, FloorStep DEF ActiveAmong
<1>9. CASE delete_structure
  <2>1. ASSUME NEW p \in Phases, \A b \in Buildings : building[b].phase # p,
               phase' = [phase EXCEPT ![p] = "none"], UNCHANGED <<building, floor, home>>
        PROVE  PlaceInv'
    BY <2>1, PhaseStep
  <2>2. ASSUME NEW b \in Buildings, FloorsOf(b) = {}, Direct(b) = {},
               building' = [building EXCEPT ![b] = NoBuilding],
               UNCHANGED <<phase, floor, home>>
        PROVE  PlaceInv'
    <3>1. NoBuilding \in BuildingRow
      BY DEF NoBuilding, BuildingRow
    <3>2. Under(b) = {}
      BY <2>2 DEF Under
    <3> QED
      BY <1>2, <2>2, <3>1, <3>2, BuildingStep
  <2>3. ASSUME NEW f \in Floors, OnFloor(f) = {},
               floor' = [floor EXCEPT ![f] = NoFloor],
               UNCHANGED <<phase, building, home>>
        PROVE  PlaceInv'
    <3>1. NoFloor \in FloorRow
      BY DEF NoFloor, FloorRow
    <3> QED
      BY <1>2, <2>3, <3>1, FloorStep
  <2> QED
    BY <1>9, <2>1, <2>2, <2>3 DEF delete_structure
<1> QED
  BY <1>3, <1>4, <1>5, <1>6, <1>7, <1>8, <1>9 DEF HierarchyNext

-----------------------------------------------------------------------------
(* An imported row *)

LEMMA LoadStep ==
    ASSUME PlaceInv, NEW h \in Homes, NEW p \in Phases, NEW b \in Buildings, NEW f \in Floors,
           load_row(h, p, b, f)
    PROVE  PlaceInv'
<1> DEFINE parent == [floor |-> f, building |-> 0]
           row == home'[h]
<1>1. /\ phase[p] # "retired"
      /\ building[b] \in {NoBuilding, [status |-> "active", phase |-> p]}
      /\ floor[f] \in {NoFloor, [status |-> "active", building |-> b]}
      /\ floor[f] = NoFloor => Direct(b) = {}
      /\ phase' = [phase EXCEPT ![p] = "active"]
      /\ building' = [building EXCEPT ![b] = [status |-> "active", phase |-> p]]
      /\ floor' = [floor EXCEPT ![f] = [status |-> "active", building |-> b]]
      /\ home' = [home EXCEPT ![h] =
            [home[h] EXCEPT
                !.status = IF home[h].status = "none" THEN "active" ELSE home[h].status,
                !.on = parent,
                !.loaded = home[h].loaded \/ (home[h].on # parent /\ home[h].approved # NoPlace)]]
  BY DEF load_row
<1>2. /\ phase \in [Phases -> {"none"} \cup Activity]
      /\ building \in [Buildings -> BuildingRow]
      /\ floor \in [Floors -> FloorRow]
      /\ home \in [Homes -> HomeRow]
  BY DEF PlaceInv, PlaceTypeOK
<1>3. /\ NoBuilding.status = "none" /\ NoFloor.status = "none"
      /\ NoHome.status = "none" /\ NoHome.approved = NoPlace
  BY DEF NoBuilding, NoFloor, NoHome
<1>4. /\ phase'[p] = "active"
      /\ \A q \in Phases : phase[q] # "none" => phase'[q] = phase[q]
  BY <1>1, <1>2 DEF Activity
<1>5. /\ building'[b] = [status |-> "active", phase |-> p]
      /\ \A c \in Buildings : building[c].status # "none" => building'[c] = building[c]
      /\ \A c \in Buildings \ {b} : building'[c] = building[c]
  BY <1>1, <1>2, <1>3
<1>6. /\ floor'[f] = [status |-> "active", building |-> b]
      /\ \A g \in Floors : floor[g].status # "none" => floor'[g] = floor[g]
      /\ \A g \in Floors \ {f} : floor'[g] = floor[g]
  BY <1>1, <1>2, <1>3
<1>7. /\ row \in HomeRow /\ row.on = parent /\ row.status # "none"
      /\ row.approved = home[h].approved
      /\ row.status = IF home[h].status = "none" THEN "active" ELSE home[h].status
      /\ row.loaded = (home[h].loaded \/ (home[h].on # parent /\ home[h].approved # NoPlace))
      /\ \A g \in Homes \ {h} : home'[g] = home[g]
      /\ parent \in Parents
  <2>1. parent \in Parents
    BY DEF Parents
  <2>2. PICK status : status = IF home[h].status = "none" THEN "active" ELSE home[h].status
    OBVIOUS
  <2>3. PICK loaded : loaded = (home[h].loaded \/ (home[h].on # parent /\ home[h].approved # NoPlace))
    OBVIOUS
  <2>4. home[h] \in HomeRow /\ loaded \in BOOLEAN /\ status # "none"
        /\ status \in {"active", "inactive", "removed"}
    BY <1>2, <2>2, <2>3 DEF HomeRow
  <2>5. /\ row = [home[h] EXCEPT !.status = status, !.on = parent, !.loaded = loaded]
        /\ \A g \in Homes \ {h} : home'[g] = home[g]
    <3> HIDE DEF parent
    <3>1. home' = [home EXCEPT ![h] = [home[h] EXCEPT !.status = status, !.on = parent, !.loaded = loaded]]
      BY <1>1, <2>2, <2>3, Zenon
    <3> QED
      BY <1>2, <3>1
  <2> HIDE DEF parent, row
  <2>6. row \in HomeRow /\ row.on = parent /\ row.status = status
        /\ row.approved = home[h].approved /\ row.loaded = loaded
    BY <2>1, <2>4, <2>5 DEF HomeRow
  <2> QED
    BY <2>1, <2>2, <2>3, <2>4, <2>5, <2>6
<1>8. home' \in [Homes -> HomeRow]
  BY <1>1, <1>2, <1>7
<1>9. PlaceTypeOK'
  <2>1. /\ "active" \in Activity
        /\ [status |-> "active", phase |-> p] \in BuildingRow
        /\ [status |-> "active", building |-> b] \in FloorRow
    BY DEF Activity, BuildingRow, FloorRow
  <2>2. /\ phase' \in [Phases -> {"none"} \cup Activity]
        /\ building' \in [Buildings -> BuildingRow]
        /\ floor' \in [Floors -> FloorRow]
    BY <1>1, <1>2, <2>1
  <2> QED
    BY <1>8, <2>2 DEF PlaceTypeOK
<1> HIDE DEF row
\* The rows that were there stand as they stood.
<1>10. ASSUME NEW x \in Parents,
              x.floor # 0 => floor[x.floor].status # "none",
              x.floor = 0 => building[x.building].status # "none"
       PROVE  /\ BuildingUnder(x)' = BuildingUnder(x)
              /\ PlaceOf(x)' = PlaceOf(x)
              /\ Upright(x) => Upright(x)'
              /\ x.floor # 0 => floor'[x.floor].status # "none"
              /\ x.floor = 0 => building'[x.building].status # "none"
  <2>1. BuildingUnder(x)' = BuildingUnder(x)
    BY <1>6, <1>10, SiteNumbers DEF BuildingUnder
  <2>2. BuildingUnder(x) \in Buildings /\ building[BuildingUnder(x)].status # "none"
    BY <1>10, SiteNumbers DEF BuildingUnder, PlaceInv, RowsStand
  <2>3. building'[BuildingUnder(x)] = building[BuildingUnder(x)]
    BY <1>5, <2>2
  <2>4. building[BuildingUnder(x)].phase \in Phases /\ phase[building[BuildingUnder(x)].phase] # "none"
    BY <2>2 DEF PlaceInv, RowsStand
  <2> QED
    BY <1>4, <1>5, <1>6, <1>10, <2>1, <2>2, <2>3, <2>4, SiteNumbers
    DEF PlaceOf, Upright, GroundActive
<1>11. /\ BuildingUnder(parent)' = b /\ Upright(parent)'
       /\ PlaceOf(parent)' = [floor |-> f, building |-> b, phase |-> p]
  <2>1. parent.floor = f /\ f # 0 /\ b # 0
    BY SiteNumbers
  <2> HIDE DEF parent
  <2> QED
    BY <1>4, <1>5, <1>6, <2>1 DEF BuildingUnder, Upright, GroundActive, PlaceOf
<1>12. \A g \in Homes : home[g].status # "none" =>
         /\ home[g].on \in Parents
         /\ home[g].on.floor # 0 => floor[home[g].on.floor].status # "none"
         /\ home[g].on.floor = 0 => building[home[g].on.building].status # "none"
  BY DEF PlaceInv, RowsStand
<1>13. RowsStand'
  <2>1. \A c \in Buildings :
          building'[c].status # "none"
              => building'[c].phase \in Phases /\ phase'[building'[c].phase] # "none"
    BY <1>4, <1>5 DEF PlaceInv, RowsStand
  <2>2. \A g \in Floors :
          floor'[g].status # "none"
              => floor'[g].building \in Buildings /\ building'[floor'[g].building].status # "none"
    BY <1>5, <1>6 DEF PlaceInv, RowsStand
  <2>3. ASSUME NEW g \in Homes
        PROVE  IF home'[g].status = "none" THEN home'[g] = NoHome
               ELSE /\ home'[g].on \in Parents
                    /\ home'[g].on.floor # 0 => floor'[home'[g].on.floor].status # "none"
                    /\ home'[g].on.floor = 0
                          => building'[home'[g].on.building].status # "none"
    <3>1. CASE g = h
      BY <1>6, <1>7, <3>1, SiteNumbers DEF row
    <3>2. CASE g # h
      <4>1. home'[g] = home[g]
        BY <1>7, <3>2
      <4>2. CASE home[g].status = "none"
        BY <4>1, <4>2 DEF PlaceInv, RowsStand
      <4>3. CASE home[g].status # "none"
        BY <1>10, <1>12, <4>1, <4>3
      <4> QED
        BY <4>2, <4>3
    <3> QED
      BY <3>1, <3>2
  <2> QED
    BY <2>1, <2>2, <2>3 DEF RowsStand
<1>14. ASSUME NEW g \in Homes, home'[g].status = "active"
       PROVE  Upright(home[g].on)'
  <2>1. CASE g = h
    BY <1>7, <1>11, <2>1 DEF row
  <2>2. CASE g # h
    <3>1. home'[g] = home[g] /\ home[g].status = "active"
      BY <1>7, <1>14, <2>2
    <3>2. Upright(home[g].on)
      BY <3>1 DEF PlaceInv, StandsOnActiveGround, ActiveAmong
    <3>3. PICK x \in Parents : x = home[g].on
      BY <1>12, <3>1
    <3>4. Upright(x)'
      BY <1>10, <1>12, <3>1, <3>2, <3>3
    <3> QED
      BY <3>1, <3>3, <3>4
  <2> QED
    BY <2>1, <2>2
<1>15. ASSUME NEW c \in Buildings
       PROVE  FloorsOf(c)' = {} \/ Direct(c)' = {}
  <2>1. Direct(c)' \subseteq Direct(c)
    <3>1. [floor |-> 0, building |-> c] # parent
      BY SiteNumbers
    <3> QED
      BY <1>7, <3>1 DEF Direct, Rows, row
  <2>2. CASE FloorsOf(c)' \subseteq FloorsOf(c)
    BY <2>1, <2>2 DEF PlaceInv, StandsOnActiveGround
  <2>3. CASE ~(FloorsOf(c)' \subseteq FloorsOf(c))
    <3>1. c = b /\ floor[f] = NoFloor
      BY <1>1, <1>3, <1>6, <2>3 DEF FloorsOf
    <3> QED
      BY <1>1, <2>1, <3>1
  <2> QED
    BY <2>2, <2>3
<1>16. StandsOnActiveGround'
  BY <1>14, <1>15 DEF StandsOnActiveGround, ActiveAmong
<1>17. MoveEndsApproval'
  <2>1. SUFFICES ASSUME NEW g \in Homes, home'[g].approved # NoPlace, ~home'[g].loaded
                 PROVE  home'[g].approved = PlaceOf(home[g].on)'
    BY DEF MoveEndsApproval, Rows
  <2>2. /\ home'[g].approved = home[g].approved /\ home'[g].on = home[g].on
        /\ home[g].approved # NoPlace /\ ~home[g].loaded
    BY <1>2, <1>7, <2>1 DEF row, HomeRow
  <2>3. home[g].status # "none"
    BY <1>3, <2>2 DEF PlaceInv, RowsStand
  <2>4. home[g].approved = PlaceOf(home[g].on)
    BY <2>2, <2>3 DEF PlaceInv, MoveEndsApproval, Rows
  <2>5. PICK x \in Parents : x = home[g].on
    BY <1>12, <2>3
  <2>6. PlaceOf(x)' = PlaceOf(x)
    BY <1>10, <1>12, <2>3, <2>5
  <2> QED
    BY <2>2, <2>4, <2>5, <2>6
<1> QED
  BY <1>9, <1>13, <1>16, <1>17 DEF PlaceInv

-----------------------------------------------------------------------------
(* The invariant *)

\* Rows refer to rows that are there, active units stand on active ground, and an
\* approval is of the place its unit is in.
THEOREM PlaceInvariant == PlaceSpec => []PlaceInv
<1>1. PlaceInit => PlaceInv
  <2> SUFFICES ASSUME PlaceInit PROVE PlaceInv
    OBVIOUS
  <2>1. /\ NoBuilding \in BuildingRow /\ NoBuilding.status = "none"
        /\ NoFloor \in FloorRow /\ NoFloor.status = "none"
        /\ NoHome \in HomeRow /\ NoHome.status = "none"
    BY DEF NoBuilding, NoFloor, NoHome, BuildingRow, FloorRow, HomeRow
  <2> QED
    BY <2>1 DEF PlaceInit, PlaceInv, PlaceTypeOK, RowsStand, StandsOnActiveGround,
                MoveEndsApproval, ActiveAmong, FloorsOf, Rows
<1>2. PlaceInv /\ [PlaceNext]_placeVars => PlaceInv'
  <2> SUFFICES ASSUME PlaceInv, [PlaceNext]_placeVars PROVE PlaceInv'
    OBVIOUS
  <2>1. CASE UNCHANGED placeVars
    BY <2>1 DEF placeVars, PlaceInv, PlaceTypeOK, RowsStand, StandsOnActiveGround,
                MoveEndsApproval, ActiveAmong, FloorsOf, Rows, Direct, Upright, GroundActive,
                BuildingUnder, PlaceOf
  <2> QED
    BY <2>1, GroundStep, HomeNextStep, LoadStep DEF PlaceNext, LoadNext
<1> QED
  BY <1>1, <1>2, PTL DEF PlaceSpec

\* Every table of the site keeps its columns' types.
THEOREM PlaceTypesKept == PlaceSpec => []PlaceTypeOK
<1>1. PlaceInv => PlaceTypeOK
  BY DEF PlaceInv
<1> QED
  BY <1>1, PlaceInvariant, PTL

\* However records move, leave and return: an active unit stands on active ground, and
\* a building has floors or units of its own, never both.
THEOREM GroundActiveUnderUnits == PlaceSpec => []StandsOnActiveGround
<1>1. PlaceInv => StandsOnActiveGround
  BY DEF PlaceInv
<1> QED
  BY <1>1, PlaceInvariant, PTL

\* A price that reads approved was approved for the place its unit is in, wherever in
\* the hierarchy the move was made; an import is the exception.
THEOREM ApprovalFollowsPlace == PlaceSpec => []MoveEndsApproval
<1>1. PlaceInv => MoveEndsApproval
  BY DEF PlaceInv
<1> QED
  BY <1>1, PlaceInvariant, PTL
=============================================================================
