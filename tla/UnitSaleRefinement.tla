------------------------- MODULE UnitSaleRefinement -------------------------
(***************************************************************************)
(* UnitSale implements UnitCommitment: the deal is the reservation, also   *)
(* after it was converted, and the ladder is the unit's commercial status. *)
(***************************************************************************)
EXTENDS UnitSale

\* The reservation that holds the unit, itself or through its contract.
Holder(u) ==
    IF ReservationsOn(u) # {} THEN CHOOSE r \in ReservationsOn(u) : TRUE
    ELSE IF ContractsOn(u) # {} THEN sale[CHOOSE s \in ContractsOn(u) : TRUE].reservation
    ELSE NoRecord

Stage(u) ==
    CASE unit[u].commercial_status \in {"unreleased", "held"} -> "off"
      [] unit[u].commercial_status = "available" -> "market"
      [] unit[u].commercial_status = "reserved" -> "reserved"
      [] unit[u].commercial_status = "contract_pending" -> "contract"
      [] unit[u].commercial_status = "contracted" -> "signed"
      [] unit[u].commercial_status = "returned" -> "returned"

Over ==
    {r \in Reservations :
        \/ reservation[r].status \in {"expired", "cancelled"}
        \/ \E s \in Sales : CancelledContract(s) /\ sale[s].reservation = r}

Commitment == INSTANCE UnitCommitment
    WITH Deals <- Reservations, Nobody <- NoRecord,
         stage <- [u \in Units |-> Stage(u)],
         holder <- [u \in Units |-> Holder(u)],
         over <- Over

\* Whatever sequence of legal calls, a unit is only ever taken from the market,
\* contracted by the deal that reserved it, given back by its holder, and never
\* taken again by a deal that is over.
CommitmentKept == Commitment!Spec
=============================================================================
