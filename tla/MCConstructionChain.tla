------------------------ MODULE MCConstructionChain ------------------------
(* ConstructionChain on small instances: one cost code, few amounts. *)
EXTENDS ConstructionChain

CONSTANTS own

TheCode == {own}
One == {1}
Two == {2}
Four == {4}
OneOrTwo == {1, 2}
NoneOrOne == {0, 1}
Nothing == {0}
MinusTwo == {-2}
=============================================================================
