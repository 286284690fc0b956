--------------------------- MODULE SiteStructure ---------------------------
(***************************************************************************)
(* Where a project's units stand: app/modules/inventory/service.py (phases,*)
(* buildings, floors, units), deletion.py and import_service.py.           *)
(*                                                                         *)
(* Every operation takes the project lock, reloads the row it changes and  *)
(* is one action; an update may change a row's parent and its activity at  *)
(* once.  A unit stands on a floor or, in a building without floors, on    *)
(* the building itself.  Its commercial life is reduced to whether it was  *)
(* released, and its price to the place it was approved for.  Codes, names *)
(* and who may see a phase are left out; the owner may move a released     *)
(* unit, so update_unit does not ask.                                      *)
(***************************************************************************)
EXTENDS Naturals

CONSTANTS MaxPhases, MaxBuildings, MaxFloors, MaxHomes

ASSUME SiteAssumption == {MaxPhases, MaxBuildings, MaxFloors, MaxHomes} \subseteq Nat

VARIABLES
    phase,          \* phases: "none", "active" or "retired"
    building,       \* buildings and the phase they belong to
    floor,          \* floors and the building they belong to
    home            \* units

placeVars == <<phase, building, floor, home>>

-----------------------------------------------------------------------------
(* Rows *)

Phases == 1..MaxPhases
Buildings == 1..MaxBuildings
Floors == 1..MaxFloors
Homes == 1..MaxHomes

Activity == {"active", "retired"}

\* A parent: a floor, or a building for a unit that has none.
Parents == [floor : Floors, building : {0}] \cup [floor : {0}, building : Buildings]
Nowhere == [floor |-> 0, building |-> 0]

\* Where a unit is: the hierarchy its price was calculated on.
Places == [floor : {0} \cup Floors, building : Buildings, phase : Phases]
NoPlace == [floor |-> 0, building |-> 0, phase |-> 0]

BuildingRow == [status : {"none"} \cup Activity, phase : {0} \cup Phases]
FloorRow == [status : {"none"} \cup Activity, building : {0} \cup Buildings]

\* priced: it has price versions; approved: pricing_approved, as the place the list
\* price was approved for; loaded: an import moved the unit since.
HomeRow ==
    [status : {"none", "active", "inactive", "removed"}, on : Parents \cup {Nowhere},
     released : BOOLEAN, priced : BOOLEAN, approved : Places \cup {NoPlace},
     loaded : BOOLEAN]

NoBuilding == [status |-> "none", phase |-> 0]
NoFloor == [status |-> "none", building |-> 0]
NoHome ==
    [status |-> "none", on |-> Nowhere, released |-> FALSE, priced |-> FALSE,
     approved |-> NoPlace, loaded |-> FALSE]

-----------------------------------------------------------------------------
(* What the service reads *)

BuildingUnder(parent) ==
    IF parent.floor = 0 THEN parent.building ELSE floor[parent.floor].building

\* phase_of_unit, with the building and the floor.
PlaceOf(parent) ==
    [floor |-> parent.floor, building |-> BuildingUnder(parent),
     phase |-> building[BuildingUnder(parent)].phase]

Rows == {h \in Homes : home[h].status # "none"}
Direct(b) == {h \in Rows : home[h].on = [floor |-> 0, building |-> b]}
OnFloor(f) == {h \in Rows : home[h].on = [floor |-> f, building |-> 0]}
FloorsOf(b) == {f \in Floors : floor[f].status # "none" /\ floor[f].building = b}
Under(b) == Direct(b) \cup UNION {OnFloor(f) : f \in FloorsOf(b)}
ActiveAmong(homes) == {h \in homes : home[h].status = "active"}

GroundActive(b) == building[b].status = "active" /\ phase[building[b].phase] = "active"

\* restore_unit's active_hierarchy; unit_parent adds that a building with floors
\* takes no unit of its own.
Upright(parent) ==
    /\ parent.floor # 0 => floor[parent.floor].status = "active"
    /\ BuildingUnder(parent) # 0 /\ GroundActive(BuildingUnder(parent))
UnitParent(parent) ==
    /\ Upright(parent)
    /\ parent.floor = 0 => FloorsOf(parent.building) = {}

\* invalidate_pricing of one unit, and of several.
Withdraw(row) == [row EXCEPT !.approved = NoPlace, !.loaded = FALSE]
WithdrawAll(homes) ==
    [h \in Homes |-> IF h \in homes THEN Withdraw(home[h]) ELSE home[h]]

PlaceInit ==
    /\ phase = [p \in Phases |-> "none"]
    /\ building = [b \in Buildings |-> NoBuilding]
    /\ floor = [f \in Floors |-> NoFloor]
    /\ home = [h \in Homes |-> NoHome]

-----------------------------------------------------------------------------
(* Phases, buildings and floors *)

create_phase(p) ==
    /\ phase[p] = "none"
    /\ phase' = [phase EXCEPT ![p] = "active"]
    /\ UNCHANGED <<building, floor, home>>

update_phase(p, status) ==
    /\ phase[p] \in Activity \ {status}
    /\ status = "retired" =>
          \A b \in Buildings : building[b].phase = p => building[b].status # "active"
    /\ phase' = [phase EXCEPT ![p] = status]
    /\ UNCHANGED <<building, floor, home>>

create_building(b, p) ==
    /\ building[b].status = "none"
    /\ phase[p] = "active"
    /\ building' = [building EXCEPT ![b] = [status |-> "active", phase |-> p]]
    /\ UNCHANGED <<phase, floor, home>>

\* Mutant of update_building: the units on its floors keep their approval.
MoveWithFloors(b, p, status) ==
    /\ building[b].status # "none"
    /\ p # building[b].phase => phase[p] = "active"
    /\ building[b].status = "active" /\ status = "retired" =>
          /\ \A f \in FloorsOf(b) : floor[f].status # "active"
          /\ ActiveAmong(Direct(b)) = {}
    /\ building' = [building EXCEPT ![b] = [status |-> status, phase |-> p]]
    /\ home' = WithdrawAll(IF p = building[b].phase THEN {} ELSE Direct(b))
    /\ UNCHANGED <<phase, floor>>

\* Coming back under a retired phase is not refused.
update_building(b, p, status) ==
    /\ building[b].status # "none"
    /\ p # building[b].phase => phase[p] = "active"
    /\ building[b].status = "active" /\ status = "retired" =>
          /\ \A f \in FloorsOf(b) : floor[f].status # "active"
          /\ ActiveAmong(Direct(b)) = {}
    /\ building' = [building EXCEPT ![b] = [status |-> status, phase |-> p]]
    /\ home' = WithdrawAll(IF p = building[b].phase THEN {} ELSE Under(b))
    /\ UNCHANGED <<phase, floor>>

create_floor(f, b) ==
    /\ floor[f].status = "none"
    /\ building[b].status = "active"
    /\ Direct(b) = {}
    /\ floor' = [floor EXCEPT ![f] = [status |-> "active", building |-> b]]
    /\ UNCHANGED <<phase, building, home>>

update_floor(f, b, status) ==
    /\ floor[f].status # "none"
    /\ b # floor[f].building => Direct(b) = {} /\ building[b].status # "none" /\ GroundActive(b)
    /\ floor[f].status = "active" /\ status = "retired" => ActiveAmong(OnFloor(f)) = {}
    /\ floor' = [floor EXCEPT ![f] = [status |-> status, building |-> b]]
    /\ home' = WithdrawAll(IF b = floor[f].building THEN {} ELSE OnFloor(f))
    /\ UNCHANGED <<phase, building>>

\* delete_record: a record that is still referenced is refused by the database.
delete_structure ==
    \/ /\ \E p \in Phases :
             /\ phase[p] # "none"
             /\ \A b \in Buildings : building[b].phase # p
             /\ phase' = [phase EXCEPT ![p] = "none"]
       /\ UNCHANGED <<building, floor, home>>
    \/ /\ \E b \in Buildings :
             /\ building[b].status # "none"
             /\ FloorsOf(b) = {} /\ Direct(b) = {}
             /\ building' = [building EXCEPT ![b] = NoBuilding]
       /\ UNCHANGED <<phase, floor, home>>
    \/ /\ \E f \in Floors :
             /\ floor[f].status # "none"
             /\ OnFloor(f) = {}
             /\ floor' = [floor EXCEPT ![f] = NoFloor]
       /\ UNCHANGED <<phase, building, home>>

-----------------------------------------------------------------------------
(* Units *)

ChangeHome(h, row) ==
    /\ home' = [home EXCEPT ![h] = row]
    /\ UNCHANGED <<phase, building, floor>>

create_unit(h, parent) ==
    /\ home[h].status = "none"
    /\ UnitParent(parent)
    /\ ChangeHome(h, [NoHome EXCEPT !.status = "active", !.on = parent])

\* Mutant of update_unit: a unit comes back wherever it stood.
UpdateAnyUnit(h, parent, status) ==
    /\ home[h].status \in {"active", "inactive"}
    /\ home[h].status = "active" /\ status = "inactive" => ~home[h].released
    /\ parent # home[h].on => UnitParent(parent)
    /\ status # home[h].status \/ parent # home[h].on
    /\ ChangeHome(h, [Withdraw(home[h]) EXCEPT !.status = status, !.on = parent])

\* Coming back asks the place the unit leaves, a move the place it goes to.
update_unit(h, parent, status) ==
    /\ home[h].status \in {"active", "inactive"}
    /\ home[h].status = "active" /\ status = "inactive" => ~home[h].released
    /\ home[h].status = "inactive" /\ status = "active" => UnitParent(home[h].on)
    /\ parent # home[h].on => UnitParent(parent)
    /\ status # home[h].status \/ parent # home[h].on
    /\ ChangeHome(h, [Withdraw(home[h]) EXCEPT !.status = status, !.on = parent])

\* The owner's removal, whatever was agreed on the unit, and its return.
remove_unit(h) ==
    /\ home[h].status \in {"active", "inactive"}
    /\ ChangeHome(h, [home[h] EXCEPT !.status = "removed"])

restore_unit(h) ==
    /\ home[h].status = "removed"
    /\ Upright(home[h].on)
    /\ ChangeHome(h, [home[h] EXCEPT !.status = "active"])

\* Only a unit that was never priced and never traded leaves the table.
delete_unit(h) ==
    /\ home[h].status # "none"
    /\ ~home[h].priced
    /\ ChangeHome(h, NoHome)

\* import_service.apply, one row: the hierarchy it names is made where it is
\* missing and must be active where it is not; the unit is drawn up or moved.
load_row(h, p, b, f) ==
    LET parent == [floor |-> f, building |-> 0]
        moves == home[h].on # parent
    IN
    /\ phase[p] # "retired"
    /\ building[b] \in {NoBuilding, [status |-> "active", phase |-> p]}
    /\ floor[f] \in {NoFloor, [status |-> "active", building |-> b]}
    /\ floor[f] = NoFloor => Direct(b) = {}
    /\ home[h].status # "none" /\ moves => ~home[h].released
    /\ phase' = [phase EXCEPT ![p] = "active"]
    /\ building' = [building EXCEPT ![b] = [status |-> "active", phase |-> p]]
    /\ floor' = [floor EXCEPT ![f] = [status |-> "active", building |-> b]]
    /\ home' = [home EXCEPT ![h] =
          [home[h] EXCEPT
              !.status = IF home[h].status = "none" THEN "active" ELSE home[h].status,
              !.on = parent,
              !.loaded = home[h].loaded \/ (moves /\ home[h].approved # NoPlace)]]

-----------------------------------------------------------------------------
(* Price and market, as far as this module sees them *)

\* activate_price_version: the price was calculated for an active unit where it
\* stands, and its basis is compared again.
price_unit(h) ==
    /\ home[h].status = "active"
    /\ ChangeHome(h, [home[h] EXCEPT !.priced = TRUE, !.loaded = FALSE,
                                     !.approved = PlaceOf(home[h].on)])

\* update_release_controls; sales returns the unit.
release_unit(h) ==
    /\ home[h].status = "active"
    /\ home[h].approved # NoPlace
    /\ ~home[h].released
    /\ ChangeHome(h, [home[h] EXCEPT !.released = TRUE])

return_unit(h) ==
    /\ home[h].status = "active"
    /\ home[h].released
    /\ ChangeHome(h, [home[h] EXCEPT !.released = FALSE])

-----------------------------------------------------------------------------
HierarchyNext ==
    \/ \E p \in Phases :
          \/ create_phase(p)
          \/ \E status \in Activity : update_phase(p, status)
          \/ \E b \in Buildings :
                \/ create_building(b, p)
                \/ \E status \in Activity : update_building(b, p, status)
    \/ \E f \in Floors, b \in Buildings :
          \/ create_floor(f, b)
          \/ \E status \in Activity : update_floor(f, b, status)
    \/ delete_structure

HomeNext ==
    \E h \in Homes :
        \/ \E parent \in Parents :
              \/ create_unit(h, parent)
              \/ \E status \in {"active", "inactive"} : update_unit(h, parent, status)
        \/ remove_unit(h) \/ restore_unit(h) \/ delete_unit(h)
        \/ price_unit(h) \/ release_unit(h) \/ return_unit(h)

LoadNext ==
    \E h \in Homes, p \in Phases, b \in Buildings, f \in Floors : load_row(h, p, b, f)

PlaceNext == HierarchyNext \/ HomeNext \/ LoadNext

PlaceSpec == PlaceInit /\ [][PlaceNext]_placeVars

-----------------------------------------------------------------------------
(* Properties *)

\* Every table keeps its columns' types.
PlaceTypeOK ==
    /\ phase \in [Phases -> {"none"} \cup Activity]
    /\ building \in [Buildings -> BuildingRow]
    /\ floor \in [Floors -> FloorRow]
    /\ home \in [Homes -> HomeRow]

\* An active unit stands on active ground, all the way up, and a building has
\* floors or units of its own and never both, although a building or a floor may
\* come back under a retired parent and records move, leave and return in any
\* order.  (_refuse_deactivation_with_children, unit_parent, stage_update_floor)
StandsOnActiveGround ==
    /\ \A h \in ActiveAmong(Homes) : Upright(home[h].on)
    /\ \A b \in Buildings : FloorsOf(b) = {} \/ Direct(b) = {}

\* A price that reads approved was approved for the place the unit is in, however
\* far up the hierarchy the move was made; only an import moves a unit without
\* taking its approval.  (invalidate_pricing in stage_update_building,
\* stage_update_floor and update_unit)
MoveEndsApproval ==
    \A h \in Rows :
        home[h].approved # NoPlace /\ ~home[h].loaded
            => home[h].approved = PlaceOf(home[h].on)

\* The same whoever moved it: inventory withdraws the approval when a priced fact
\* about the unit changes, its floor to begin with.  (docs/ARCHITECTURE.md)
PricedWhereItStands ==
    \A h \in Rows :
        home[h].approved # NoPlace => home[h].approved = PlaceOf(home[h].on)
=============================================================================
