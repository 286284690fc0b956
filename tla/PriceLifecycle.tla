---------------------------- MODULE PriceLifecycle ----------------------------
(***************************************************************************)
(* How a unit gets its list price: app/modules/pricing/service.py, the     *)
(* pricing configurations, the activation of escalations and the versions  *)
(* of one unit's price; and what app/modules/inventory does to the price's *)
(* approval when the unit changes.                                         *)
(*                                                                         *)
(* Every operation takes the project lock, and those on a price the unit's *)
(* too: each is one action.  A price is what it comes to: its components   *)
(* and the market comparison are left out, and so is who decides.  A date  *)
(* is a number, 0 when unset.                                              *)
(***************************************************************************)
EXTENDS Naturals, FiniteSets

CONSTANTS
    MaxConfigurations, MaxPrices, MaxSchedules,
    Facts,          \* what the unit can be: place, features, parking, values
    Names,          \* codes of its building and phase
    Totals,         \* what a price may come to
    HorizonDay      \* the last business day

ASSUME PriceAssumption ==
    /\ MaxConfigurations \in Nat /\ MaxPrices \in Nat /\ MaxSchedules \in Nat
    /\ HorizonDay \in Nat \ {0} /\ Facts # {} /\ Names # {}
    /\ Totals \subseteq Nat

VARIABLES
    configuration,  \* pricing_configurations
    escalation,     \* per configuration, the date of its standing activation
    price,          \* unit_price_versions of the unit
    unit_now,       \* what pricing_basis reads of the unit
    pricing_approved,
    business_day

priceVars == <<configuration, escalation, price, unit_now, pricing_approved, business_day>>

-----------------------------------------------------------------------------
(* Rows *)

Configurations == 1..MaxConfigurations
Prices == 1..MaxPrices
PriceDays == 1..HorizonDay

\* PRICING_STATUSES; "none" is a row not written.
PricingStatus == {"none", "draft", "submitted", "approved", "active", "superseded"}

\* internal_base: an active area rule prices the internal area at the base rate.
ConfigurationRow ==
    [status : PricingStatus, from : {0} \cup PriceDays, to : {0} \cup PriceDays,
     internal_base : BOOLEAN]

\* schedule: the approved measurement, 0 for none.  field: a configurable field
\* that applies to the unit is in force, so that its value counts.
BasisRow == [schedule : 0..MaxSchedules, facts : Facts, name : Names, field : BOOLEAN]

\* configuration = 0 is a selling price entered by hand; total is 0 in a row not
\* written.
PriceRow ==
    [status : PricingStatus, configuration : {0} \cup Configurations,
     from : {0} \cup PriceDays, to : {0} \cup PriceDays, basis : BasisRow,
     escalated : BOOLEAN, total : {0} \cup Totals]

NoConfiguration == [status |-> "none", from |-> 0, to |-> 0, internal_base |-> FALSE]

-----------------------------------------------------------------------------
(* What the service reads *)

PolicyInForce == {c \in Configurations : configuration[c].status = "active"}
ListPrice == {p \in Prices : price[p].status = "active"}

\* _require_configuration_validity
Governs(c, day) ==
    /\ configuration[c].from <= day
    /\ configuration[c].to # 0 => day <= configuration[c].to

\* _require_current_basis
Describes(p) == unit_now.schedule # 0 /\ price[p].basis = unit_now

\* _validate_submittable, without the arithmetic
Submittable(p) ==
    /\ LET c == price[p].configuration IN
       c # 0 => configuration[c].status = "active" /\ Governs(c, price[p].from)
    /\ Describes(p)

PriceInit ==
    /\ configuration = [c \in Configurations |-> NoConfiguration]
    /\ escalation = [c \in Configurations |-> 0]
    /\ unit_now \in [schedule : {0}, facts : Facts, name : Names, field : BOOLEAN]
    /\ price = [p \in Prices |->
          [status |-> "none", configuration |-> 0, from |-> 0, to |-> 0,
           basis |-> unit_now, escalated |-> FALSE, total |-> 0]]
    /\ pricing_approved = FALSE
    /\ business_day = 1

-----------------------------------------------------------------------------
(* Configurations *)

ChangeConfiguration(c, row) ==
    /\ configuration' = [configuration EXCEPT ![c] = row]
    /\ UNCHANGED <<escalation, price, unit_now, pricing_approved, business_day>>

create_configuration(c, from, to) ==
    /\ \A d \in Configurations : (d < c) <=> configuration[d].status # "none"
    /\ to # 0 => from <= to
    /\ ChangeConfiguration(c, [NoConfiguration EXCEPT
                                  !.status = "draft", !.from = from, !.to = to])

update_configuration(c, from, to) ==
    /\ configuration[c].status = "draft"
    /\ to # 0 => from <= to
    /\ ChangeConfiguration(c, [configuration[c] EXCEPT !.from = from, !.to = to])

\* create_area_rule and update_area_rule: one internal base, and on a draft.
set_internal_base(c, on) ==
    /\ configuration[c].status = "draft"
    /\ configuration[c].internal_base # on
    /\ ChangeConfiguration(c, [configuration[c] EXCEPT !.internal_base = on])

submit_configuration(c) ==
    /\ configuration[c].status = "draft"
    /\ configuration[c].internal_base
    /\ ChangeConfiguration(c, [configuration[c] EXCEPT !.status = "submitted"])

return_configuration(c) ==
    /\ configuration[c].status = "submitted"
    /\ ChangeConfiguration(c, [configuration[c] EXCEPT !.status = "draft"])

approve_configuration(c) ==
    /\ configuration[c].status = "submitted"
    /\ ChangeConfiguration(c, [configuration[c] EXCEPT !.status = "approved"])

\* The policy in force ends where the new one starts, which the table refuses
\* when it had started later (valid_range).
activate_configuration(c) ==
    /\ configuration[c].status = "approved"
    /\ Governs(c, business_day)
    /\ \A d \in PolicyInForce :
          configuration[d].to = 0 => configuration[d].from <= configuration[c].from
    /\ configuration' = [d \in Configurations |->
          IF d = c THEN [configuration[d] EXCEPT !.status = "active"]
          ELSE IF d \in PolicyInForce
          THEN [configuration[d] EXCEPT
                   !.status = "superseded",
                   !.to = IF @ = 0 THEN configuration[c].from ELSE @]
          ELSE configuration[d]]
    /\ UNCHANGED <<escalation, price, unit_now, pricing_approved, business_day>>

-----------------------------------------------------------------------------
(* Escalations: one rule per configuration, one standing activation per rule *)

ChangeEscalation(c, day) ==
    /\ escalation' = [escalation EXCEPT ![c] = day]
    /\ UNCHANGED <<configuration, price, unit_now, pricing_approved, business_day>>

activate_escalation(c, day) ==
    /\ c \in PolicyInForce
    /\ escalation[c] = 0
    /\ ChangeEscalation(c, day)

reverse_activation(c) ==
    /\ escalation[c] # 0
    /\ ChangeEscalation(c, 0)

-----------------------------------------------------------------------------
(* Price versions *)

ChangePrice(p, row) ==
    /\ price' = [price EXCEPT ![p] = row]
    /\ UNCHANGED <<configuration, escalation, unit_now, pricing_approved, business_day>>

NextPrice(p) == \A q \in Prices : (q < p) <=> price[q].status # "none"

\* The escalations a calculation reads are those in force on its own date.
generate_price_version(p, c, day, total) ==
    /\ NextPrice(p)
    /\ unit_now.schedule # 0
    /\ c \in PolicyInForce /\ Governs(c, day)
    /\ ChangePrice(p, [status |-> "draft", configuration |-> c, from |-> day, to |-> 0,
                       basis |-> unit_now, escalated |-> escalation[c] \in 1..day,
                       total |-> total])

\* A selling price, with no policy behind it.
direct_price_version(p, day, total) ==
    /\ NextPrice(p)
    /\ unit_now.schedule # 0
    /\ ChangePrice(p, [status |-> "draft", configuration |-> 0, from |-> day, to |-> 0,
                       basis |-> unit_now, escalated |-> FALSE, total |-> total])

\* Components are overridden, or their overrides taken back.  The effective date,
\* and with it the escalations that were read, stays.
update_price_version(p, total) ==
    /\ price[p].status = "draft"
    /\ ChangePrice(p, [price[p] EXCEPT !.total = total])

submit_price_version(p) ==
    /\ price[p].status = "draft"
    /\ Submittable(p)
    /\ ChangePrice(p, [price[p] EXCEPT !.status = "submitted"])

return_price_version(p) ==
    /\ price[p].status = "submitted"
    /\ ChangePrice(p, [price[p] EXCEPT !.status = "draft"])

approve_price_version(p) ==
    /\ price[p].status = "submitted"
    /\ Submittable(p)
    /\ ChangePrice(p, [price[p] EXCEPT !.status = "approved"])

MakeListPrice(p, ends) ==
    /\ price' = [q \in Prices |->
          IF q = p THEN [price[q] EXCEPT !.status = "active"]
          ELSE IF q \in ListPrice
          THEN [price[q] EXCEPT !.status = "superseded", !.to = ends]
          ELSE price[q]]
    /\ pricing_approved' = TRUE
    /\ UNCHANGED <<configuration, escalation, unit_now, business_day>>

\* Mutant of activate_price_version: the old price ends today.
ActivateFromToday(p) ==
    /\ price[p].status = "approved"
    /\ price[p].from <= business_day
    /\ Submittable(p)
    /\ \A q \in ListPrice : price[q].from <= business_day
    /\ MakeListPrice(p, business_day)

\* Mutant of activate_price_version: what was approved is not looked at again.
ActivateAsApproved(p) ==
    /\ price[p].status = "approved"
    /\ price[p].from <= business_day
    /\ \A q \in ListPrice : price[q].from <= price[p].from
    /\ MakeListPrice(p, price[p].from)

\* The price in force ends where the new one starts; valid_range refuses a new
\* one that starts before it.
activate_price_version(p) ==
    /\ price[p].status = "approved"
    /\ price[p].from <= business_day
    /\ Submittable(p)
    /\ \A q \in ListPrice : price[q].from <= price[p].from
    /\ MakeListPrice(p, price[p].from)

-----------------------------------------------------------------------------
(* What moves under a price *)

\* invalidate_pricing
Invalidate(now) ==
    /\ unit_now' = now
    /\ pricing_approved' = FALSE
    /\ UNCHANGED <<configuration, escalation, price, business_day>>

\* A fact the price read is changed: on the unit, its floor's or building's place,
\* its parking and storage, or a configurable value.
change_unit(f) ==
    /\ unit_now.facts # f
    /\ Invalidate([unit_now EXCEPT !.facts = f])

approve_area_schedule ==
    /\ unit_now.schedule < MaxSchedules
    /\ Invalidate([unit_now EXCEPT !.schedule = @ + 1])

\* A cancelled contract gives the unit back unpriced.
cancelled_contract ==
    /\ pricing_approved
    /\ Invalidate(unit_now)

Restate(now) ==
    /\ unit_now' = now
    /\ UNCHANGED <<configuration, escalation, price, pricing_approved, business_day>>

\* The code of the building or of the phase is corrected.
rename_parent(n) ==
    /\ unit_now.name # n
    /\ Restate([unit_now EXCEPT !.name = n])

\* update_definition: a field is switched on or off for every unit it reaches.
update_definition == Restate([unit_now EXCEPT !.field = ~@])

\* A field's validity starts or ends overnight.
new_business_day(field) ==
    /\ business_day < HorizonDay
    /\ business_day' = business_day + 1
    /\ unit_now' = [unit_now EXCEPT !.field = field]
    /\ UNCHANGED <<configuration, escalation, price, pricing_approved>>

-----------------------------------------------------------------------------
PolicyNext ==
    \E c \in Configurations :
        \/ \E from \in PriceDays, to \in {0} \cup PriceDays :
              create_configuration(c, from, to) \/ update_configuration(c, from, to)
        \/ \E on \in BOOLEAN : set_internal_base(c, on)
        \/ submit_configuration(c) \/ return_configuration(c)
        \/ approve_configuration(c) \/ activate_configuration(c)
        \/ \E day \in PriceDays : activate_escalation(c, day)
        \/ reverse_activation(c)

VersionNext ==
    \E p \in Prices :
        \/ \E total \in Totals :
              \/ \E day \in PriceDays :
                    \/ \E c \in Configurations : generate_price_version(p, c, day, total)
                    \/ direct_price_version(p, day, total)
              \/ update_price_version(p, total)
        \/ submit_price_version(p) \/ return_price_version(p)
        \/ approve_price_version(p) \/ activate_price_version(p)

UnitNext ==
    \/ \E f \in Facts : change_unit(f)
    \/ approve_area_schedule \/ cancelled_contract
    \/ \E n \in Names : rename_parent(n)
    \/ update_definition
    \/ \E field \in BOOLEAN : new_business_day(field)

PriceNext == PolicyNext \/ VersionNext \/ UnitNext

PriceSpec == PriceInit /\ [][PriceNext]_priceVars

-----------------------------------------------------------------------------
(* Properties *)

\* Every table keeps its columns' types.
PriceTypeOK ==
    /\ configuration \in [Configurations -> ConfigurationRow]
    /\ escalation \in [Configurations -> {0} \cup PriceDays]
    /\ price \in [Prices -> PriceRow]
    /\ unit_now \in BasisRow
    /\ pricing_approved \in BOOLEAN
    /\ business_day \in PriceDays

\* The history of a unit's list price is a line: no day has two list prices, in
\* whatever order versions are drafted, dated, approved and put live.
OneListPriceADay ==
    \A p, q \in Prices :
        p # q /\ price[p].status = "superseded"
              /\ price[q].status \in {"active", "superseded"}
          => \/ price[p].to <= price[q].from
             \/ price[q].status = "superseded" /\ price[q].to <= price[p].from

\* A unit whose price is approved has a list price that was approved for the unit
\* as it is measured, placed and featured, however long ago that was.
ApprovedForThisUnit ==
    pricing_approved =>
        \E p \in ListPrice :
            /\ price[p].basis.schedule = unit_now.schedule
            /\ price[p].basis.facts = unit_now.facts

\* What the two kinds of version are to VersionOfRecord.
PolicyStatus == [c \in Configurations |-> configuration[c].status]
PolicyContent ==
    [c \in Configurations |-> <<configuration[c].from, configuration[c].internal_base>>]
PriceStatus == [p \in Prices |-> price[p].status]
PriceContent ==
    [p \in Prices |->
        <<price[p].configuration, price[p].from, price[p].basis, price[p].escalated,
          price[p].total>>]

PolicyRecord == INSTANCE VersionOfRecord
    WITH Versions <- Configurations, Open <- {"draft"}, Alone <- FALSE,
         status <- PolicyStatus, content <- PolicyContent

ListPriceRecord == INSTANCE VersionOfRecord
    WITH Versions <- Prices, Open <- {"draft"}, Alone <- FALSE,
         status <- PriceStatus, content <- PriceContent

\* Pricing policies and list prices are versions of record: the price a buyer is
\* quoted was approved as it stands, the amount with the policy, the unit and the
\* escalations it was made from, whatever the unit, the policy or an escalation
\* became since.  An amount overridden after a price was returned is submitted again.
\* Only the day a version ends is written later.
PricesOfRecord == PolicyRecord!Spec /\ ListPriceRecord!Spec
=============================================================================
