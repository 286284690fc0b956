--------------------------- MODULE UnitCommitment ---------------------------
(***************************************************************************)
(* What the sales and inventory services promise together about a unit,    *)
(* with quotes, dates, prices and paperwork forgotten: a unit climbs from  *)
(* the market to one deal's reservation, to that same deal's contract, and *)
(* comes back; and a deal that is over never holds a unit again.           *)
(***************************************************************************)
EXTENDS Naturals

CONSTANTS
    Units,     \* units that may be sold
    Deals,     \* what may hold one
    Nobody     \* the holder of a unit nobody holds

VARIABLES
    stage,     \* where each unit is on the ladder
    holder,    \* the deal that holds it
    over       \* deals that are over

ladder == <<stage, holder, over>>

Stages == {"off", "market", "reserved", "contract", "signed", "returned"}

Init ==
    /\ stage = [u \in Units |-> "off"]
    /\ holder = [u \in Units |-> Nobody]
    /\ over = {}

\* The unit moves between two stages and keeps whoever holds it.
Move(u, from, to) ==
    /\ stage[u] \in from
    /\ stage' = [stage EXCEPT ![u] = to]
    /\ UNCHANGED <<holder, over>>

Release(u) == Move(u, {"off"}, "market")
Withdraw(u) == Move(u, {"market"}, "off")
Contract(u) == Move(u, {"reserved"}, "contract")
Sign(u) == Move(u, {"contract"}, "signed")
Remarket(u) == Move(u, {"returned"}, "market")

Reserve(u, d) ==
    /\ stage[u] = "market"
    /\ d \notin over
    /\ \A v \in Units : holder[v] # d
    /\ stage' = [stage EXCEPT ![u] = "reserved"]
    /\ holder' = [holder EXCEPT ![u] = d]
    /\ UNCHANGED over

\* The holder gives the unit up and is over.
LetGo(u, from, to) ==
    /\ stage[u] \in from
    /\ stage' = [stage EXCEPT ![u] = to]
    /\ over' = over \cup {holder[u]}
    /\ holder' = [holder EXCEPT ![u] = Nobody]

Release_or_hold(u) == LetGo(u, {"reserved"}, "market") \/ LetGo(u, {"reserved"}, "off")
GiveBack(u) == LetGo(u, {"contract", "signed"}, "returned")

\* A deal that never held a unit is dropped.
Abandon(d) ==
    /\ \A u \in Units : holder[u] # d
    /\ over' = over \cup {d}
    /\ UNCHANGED <<stage, holder>>

Next ==
    \/ \E u \in Units :
          \/ Release(u) \/ Withdraw(u) \/ Contract(u) \/ Sign(u) \/ Remarket(u)
          \/ Release_or_hold(u) \/ GiveBack(u)
          \/ \E d \in Deals : Reserve(u, d)
    \/ \E d \in Deals : Abandon(d)

Spec == Init /\ [][Next]_ladder
=============================================================================
