----------------------------- MODULE MCUnitSale -----------------------------
(* UnitSale on small instances. *)
EXTENDS UnitSaleRefinement, TLC

Symmetric ==
    Permutations(Units) \cup Permutations(Reservations) \cup Permutations(Sales)
        \cup Permutations(Bases)

\* Moves are dated apart as long as there is one price and one quote: with a second,
\* every event is dated the first day.
DatedApart ==
    \/ \A u \in Units : Len(unit[u].prices) < 2 /\ \A r \in Reservations : reservation[r].quote < 2
    \/ \A u \in Units : dated[u] = 0 /\ \A r \in Reservations : moved[r] = 0
=============================================================================
