--------------------------- MODULE UnitEconomics ---------------------------
(***************************************************************************)
(* What a unit costs: app/modules/unit_economics/service.py, the versions  *)
(* of a project's cost basis.  A version divides pools of shared cost over *)
(* the units in their scope, is signed, and answers for the days it was in *)
(* force.                                                                  *)
(*                                                                         *)
(* Every operation takes the project lock and is one action.  An amount or *)
(* a driver is what it was read from: a version of the land register, of   *)
(* the construction forecast in force, and of the units' measurements and  *)
(* prices.  The division itself, roles and the costs of single units are   *)
(* left out.  A date is a number, 0 when not set.                          *)
(***************************************************************************)
EXTENDS Naturals, FiniteSets

CONSTANTS
    MaxBases,
    EcoUnits,       \* the project's units
    PhaseUnits,     \* those of its first phase
    MaxReadings,    \* versions of a source
    LastEcoDay

ASSUME EconomicsAssumption ==
    /\ {MaxBases, MaxReadings, LastEcoDay} \subseteq Nat
    /\ LastEcoDay > 0 /\ PhaseUnits \subseteq EcoUnits

VARIABLES
    basis,          \* unit_cost_allocation_versions, their pools and allocations
    source,         \* the sources a calculation reads, as they are now
    in_project,     \* active units
    eco_day         \* the business day

ecoVars == <<basis, source, in_project, eco_day>>

-----------------------------------------------------------------------------
(* Rows *)

Bases == 1..MaxBases
EcoDays == 1..LastEcoDay

\* One pool of each required category; the soft one may cover a phase only.
Pools == {"land", "hard", "soft", "phase soft"}
Required == {{"land"}, {"hard"}, {"soft", "phase soft"}}

\* forecast = 0: no construction forecast is in force.
Reading == [land : 0..MaxReadings, forecast : 0..MaxReadings, drivers : 0..MaxReadings]

\* calculated: calculated_at is set; read and reached: what the allocations were
\* made from, and the units they reach.
BasisVersionRow ==
    [status : {"none", "draft", "submitted", "approved", "active", "superseded",
               "rejected"},
     from : {0} \cup EcoDays, to : {0} \cup EcoDays, pools : SUBSET Pools,
     calculated : BOOLEAN, read : Reading, reached : [Pools -> SUBSET EcoUnits]]

NoReading == [land |-> 0, forecast |-> 0, drivers |-> 0]
NoBasis ==
    [status |-> "none", from |-> 0, to |-> 0, pools |-> {}, calculated |-> FALSE,
     read |-> NoReading, reached |-> [p \in Pools |-> {}]]

-----------------------------------------------------------------------------
(* What the service reads *)

BasisInForce == {v \in Bases : basis[v].status = "active"}

\* version_as_of: the version whose window holds the day.
BasisOn(d) ==
    {v \in Bases : /\ basis[v].status \in {"active", "superseded"}
                   /\ basis[v].from <= d
                   /\ basis[v].to = 0 \/ d < basis[v].to}

Eligible(p) == IF p = "phase soft" THEN in_project \cap PhaseUnits ELSE in_project

\* stale_sources
Stale(v) ==
    LET b == basis[v] IN
    \/ b.read.drivers # source.drivers
    \/ "land" \in b.pools /\ b.read.land # source.land
    \/ "hard" \in b.pools /\ (source.forecast = 0 \/ b.read.forecast # source.forecast)
    \/ \E p \in b.pools : b.reached[p] # Eligible(p)

\* _coverage_gaps
Uncovered(v) ==
    \E u \in in_project : \E category \in Required :
        \A p \in category : u \notin basis[v].reached[p]

EcoInit ==
    /\ basis = [v \in Bases |-> NoBasis]
    /\ source \in {[NoReading EXCEPT !.forecast = f] : f \in 0..MaxReadings}
    /\ in_project = PhaseUnits
    /\ eco_day = 1

-----------------------------------------------------------------------------
(* Versions *)

ChangeBasis(v, row) ==
    /\ basis' = [basis EXCEPT ![v] = row]
    /\ UNCHANGED <<source, in_project, eco_day>>

\* Only the first version may be back-dated.  A clone takes another's pools and
\* none of its allocations; from = 0 is a version from nothing.
create_basis(v, day, original) ==
    /\ \A w \in Bases : (w < v) <=> basis[w].status # "none"
    /\ BasisInForce # {} => day >= eco_day
    /\ original # 0 => basis[original].status # "none"
    /\ ChangeBasis(v, [NoBasis EXCEPT
          !.status = "draft", !.from = day,
          !.pools = IF original = 0 THEN {} ELSE basis[original].pools])

\* add_pool, remove_pool and update_pool: the calculation is discarded.
set_pools(v, pools) ==
    /\ basis[v].status = "draft"
    /\ "hard" \in pools \ basis[v].pools => source.forecast # 0
    /\ ChangeBasis(v, [NoBasis EXCEPT
          !.status = "draft", !.from = basis[v].from, !.pools = pools])

calculate_version(v) ==
    /\ basis[v].status = "draft"
    /\ basis[v].pools # {}
    /\ "hard" \in basis[v].pools => source.forecast # 0
    /\ \A p \in basis[v].pools : Eligible(p) # {}
    /\ ChangeBasis(v, [basis[v] EXCEPT
          !.calculated = TRUE, !.read = source,
          !.reached = [p \in Pools |-> IF p \in basis[v].pools THEN Eligible(p) ELSE {}]])

\* _require_ready_to_submit; what is calculated reconciles.
submit_basis(v) ==
    /\ basis[v].status = "draft"
    /\ basis[v].calculated
    /\ \A category \in Required : category \cap basis[v].pools # {}
    /\ ~Uncovered(v)
    /\ ~Stale(v)
    /\ ChangeBasis(v, [basis[v] EXCEPT !.status = "submitted"])

approve_basis(v) ==
    /\ basis[v].status = "submitted"
    /\ ChangeBasis(v, [basis[v] EXCEPT !.status = "approved"])

reject_basis(v) ==
    /\ basis[v].status = "submitted"
    /\ ChangeBasis(v, [basis[v] EXCEPT !.status = "rejected"])

TakeOver(v) ==
    /\ basis' = [w \in Bases |->
          IF w = v THEN [basis[w] EXCEPT !.status = "active", !.to = 0]
          ELSE IF w \in BasisInForce
          THEN [basis[w] EXCEPT !.status = "superseded", !.to = basis[v].from]
          ELSE basis[w]]
    /\ UNCHANGED <<source, in_project, eco_day>>

\* Mutant of activate_basis: from the date it was prepared for, if that is past.
ActivateLate(v) ==
    /\ basis[v].status = "approved"
    /\ basis[v].from <= eco_day
    /\ ~Stale(v)
    /\ \A w \in BasisInForce : basis[v].from > basis[w].from
    /\ TakeOver(v)

activate_basis(v) ==
    /\ basis[v].status = "approved"
    /\ basis[v].from <= eco_day
    /\ BasisInForce # {} => basis[v].from = eco_day
    /\ ~Stale(v)
    /\ \A w \in BasisInForce : basis[v].from > basis[w].from
    /\ TakeOver(v)

-----------------------------------------------------------------------------
(* The sources, as far as this module sees them *)

\* The land register, the forecast in force or the drivers move.
move_source(kind) ==
    /\ source[kind] < MaxReadings
    /\ source' = [source EXCEPT ![kind] = @ + 1]
    /\ UNCHANGED <<basis, in_project, eco_day>>

\* A unit is added, deactivated or restored.
change_population(u) ==
    /\ in_project' = IF u \in in_project THEN in_project \ {u} ELSE in_project \cup {u}
    /\ UNCHANGED <<basis, source, eco_day>>

next_eco_day ==
    /\ eco_day < LastEcoDay
    /\ eco_day' = eco_day + 1
    /\ UNCHANGED <<basis, source, in_project>>

-----------------------------------------------------------------------------
BasisNext ==
    \E v \in Bases :
        \/ \E day \in EcoDays, original \in {0} \cup Bases : create_basis(v, day, original)
        \/ \E pools \in SUBSET Pools : set_pools(v, pools)
        \/ calculate_version(v) \/ submit_basis(v) \/ approve_basis(v)
        \/ reject_basis(v) \/ activate_basis(v)

EcoNext ==
    \/ BasisNext
    \/ \E kind \in {"land", "forecast", "drivers"} : move_source(kind)
    \/ \E u \in EcoUnits : change_population(u)
    \/ next_eco_day

EcoSpec == EcoInit /\ [][EcoNext]_ecoVars

-----------------------------------------------------------------------------
(* Properties *)

\* Every table keeps its columns' types.
EcoTypeOK ==
    /\ basis \in [Bases -> BasisVersionRow]
    /\ source \in Reading
    /\ in_project \subseteq EcoUnits
    /\ eco_day \in EcoDays

\* A day that has passed keeps its cost basis: a unit signed under one version is
\* analysed on it for ever, whatever is drafted, dated, signed and put in force
\* later; only days before there was any basis may get one.
PastMarginsStand ==
    [][\A d \in 1..(eco_day - 1) :
          BasisOn(d) # {} =>
              /\ BasisOn(d)' = BasisOn(d)
              /\ \A v \in BasisOn(d) :
                    /\ basis'[v].read = basis[v].read
                    /\ basis'[v].reached = basis[v].reached]_ecoVars

\* What a version is to VersionOfRecord.
CostStatus == [v \in Bases |-> basis[v].status]
CostContent ==
    [v \in Bases |->
        <<basis[v].from, basis[v].pools, basis[v].calculated, basis[v].read,
          basis[v].reached>>]

CostRecord == INSTANCE VersionOfRecord
    WITH Versions <- Bases, Open <- {"draft"}, Alone <- FALSE,
         status <- CostStatus, content <- CostContent

\* Cost bases are versions of record: a basis under a signature or in force is not
\* calculated again, whatever its sources and the project's units do.  Only the
\* day it ends is written later.
CostsOfRecord == CostRecord!Spec
=============================================================================
