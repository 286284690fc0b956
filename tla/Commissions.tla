---------------------------- MODULE Commissions ----------------------------
(***************************************************************************)
(* The commission on a sale and how it is shared: app/modules/commissions/ *)
(* service.py.                                                             *)
(*                                                                         *)
(* Every operation takes the project lock and the grant's row and is one   *)
(* action; whoever saves second without reloading is refused and not       *)
(* modelled.  A rate counts RateUnit-ths.  An amount is rounded to the     *)
(* unit; the database refuses one that is not above zero, and with it the  *)
(* operation.  Beneficiaries are their rates; who prepares and releases,   *)
(* notes and currencies are left out.                                      *)
(***************************************************************************)
EXTENDS Naturals, Sequences, FiniteSets, Functions

CONSTANTS
    MaxGrants, MaxShares,
    GrantBases, GrantRates, ShareRates,     \* inputs
    RateUnit

ASSUME CommissionAssumption ==
    /\ {MaxGrants, MaxShares} \subseteq Nat /\ RateUnit \in Nat \ {0}
    /\ GrantBases \cup GrantRates \cup ShareRates \subseteq Nat \ {0}

VARIABLES
    sold,           \* the sale contract is active
    grant           \* commission_grants of the sale, with their allocations

grantVars == <<sold, grant>>

-----------------------------------------------------------------------------
(* Rows *)

Grants == 1..MaxGrants

Share == [rate : ShareRates, amount : Nat]

\* shares: the allocations in the order of their sequence numbers.
GrantRow ==
    [status : {"none", "draft", "released", "reversed"}, base : {0} \cup GrantBases,
     rate : {0} \cup GrantRates, total : Nat, shares : Seq(Share)]
NoGrant == [status |-> "none", base |-> 0, rate |-> 0, total |-> 0, shares |-> <<>>]

-----------------------------------------------------------------------------
(* What the service computes *)

\* money: half is rounded up.
Portion(base, rate) == (2 * base * rate + RateUnit) \div (2 * RateUnit)

RateTotal(shares) == SumFunction([s \in DOMAIN shares |-> shares[s].rate])
AmountTotal(shares) == SumFunction([s \in DOMAIN shares |-> shares[s].amount])

\* _recalculate: once the rates make the whole, what rounding left over, or took too
\* much, goes to the last share; the amounts before it.
Recalculated(row) ==
    LET portions == [s \in DOMAIN row.shares |->
                        [row.shares[s] EXCEPT
                            !.amount = Portion(row.base, row.shares[s].rate)]]
        before == AmountTotal(SubSeq(portions, 1, Len(portions) - 1))
    IN  IF portions # <<>> /\ RateTotal(portions) = row.rate
        THEN [row EXCEPT !.shares = [portions EXCEPT ![Len(portions)].amount =
                 IF before > row.total THEN 0 ELSE row.total - before]]
        ELSE [row EXCEPT !.shares = portions]

\* CommissionAllocation's and CommissionGrant's check constraints.
Payable(row) == row.total > 0 /\ \A s \in DOMAIN row.shares : row.shares[s].amount > 0

\* is_reconciled
Reconciled(row) ==
    /\ row.shares # <<>>
    /\ RateTotal(row.shares) = row.rate
    /\ AmountTotal(row.shares) = row.total

GrantInit ==
    /\ sold = TRUE
    /\ grant = [g \in Grants |-> NoGrant]

ChangeGrant(g, row) ==
    /\ grant' = [grant EXCEPT ![g] = row]
    /\ UNCHANGED sold

\* A draft is changed, every amount is computed again, and the whole is stored.
Redraw(g, row) ==
    /\ grant[g].status = "draft"
    /\ Payable(Recalculated(row))
    /\ ChangeGrant(g, Recalculated(row))

-----------------------------------------------------------------------------
(* Grants *)

\* uq_commission_live_sale refuses a second live grant of the sale.
create_grant(g, base, rate) ==
    /\ grant[g].status = "none"
    /\ sold
    /\ \A o \in Grants : grant[o].status \notin {"draft", "released"}
    /\ Portion(base, rate) > 0
    /\ ChangeGrant(g, [status |-> "draft", base |-> base, rate |-> rate,
                       total |-> Portion(base, rate), shares |-> <<>>])

\* Mutant of update_grant: the shares are computed when one of them changes.
UpdateTermsOnly(g, base, rate) ==
    /\ grant[g].status = "draft"
    /\ Portion(base, rate) > 0
    /\ ChangeGrant(g, [grant[g] EXCEPT
          !.base = base, !.rate = rate, !.total = Portion(base, rate)])

update_grant(g, base, rate) ==
    Redraw(g, [grant[g] EXCEPT !.base = base, !.rate = rate, !.total = Portion(base, rate)])

add_allocation(g, rate) ==
    /\ Len(grant[g].shares) < MaxShares
    /\ Portion(grant[g].base, rate) > 0
    /\ Redraw(g, [grant[g] EXCEPT !.shares = Append(@, [rate |-> rate, amount |-> 0])])

update_allocation(g, s, rate) == Redraw(g, [grant[g] EXCEPT !.shares[s].rate = rate])

remove_allocation(g, s) ==
    Redraw(g, [grant[g] EXCEPT
        !.shares = SubSeq(@, 1, s - 1) \o SubSeq(@, s + 1, Len(@))])

release_grant(g) ==
    /\ sold
    /\ Reconciled(Recalculated(grant[g]))
    /\ Redraw(g, [grant[g] EXCEPT !.status = "released"])

reverse_grant(g) ==
    /\ grant[g].status = "released"
    /\ ChangeGrant(g, [grant[g] EXCEPT !.status = "reversed"])

\* Sales cancels the contract, and may bring it back; no grant hears of it.
sale_moves == sold' = ~sold /\ UNCHANGED grant

-----------------------------------------------------------------------------
GrantNext ==
    \/ \E g \in Grants :
          \/ \E base \in GrantBases, rate \in GrantRates :
                create_grant(g, base, rate) \/ update_grant(g, base, rate)
          \/ \E rate \in ShareRates :
                \/ add_allocation(g, rate)
                \/ \E s \in DOMAIN grant[g].shares : update_allocation(g, s, rate)
          \/ \E s \in DOMAIN grant[g].shares : remove_allocation(g, s)
          \/ release_grant(g) \/ reverse_grant(g)
    \/ sale_moves

GrantSpec == GrantInit /\ [][GrantNext]_grantVars

-----------------------------------------------------------------------------
(* Properties *)

\* Every table keeps its columns' types.
GrantTypeOK ==
    /\ sold \in BOOLEAN
    /\ grant \in [Grants -> GrantRow]

\* However the terms and the shares of a draft were changed, shares whose rates make
\* the granted rate add up to the commission to the last unit, and each is something;
\* what was released adds up, and one grant of the sale counts.  (_recalculate,
\* is_reconciled, uq_commission_live_sale)
SharesMakeTheWhole ==
    /\ \A g \in Grants :
          /\ Payable(grant[g]) \/ grant[g].status = "none"
          /\ RateTotal(grant[g].shares) = grant[g].rate
                => AmountTotal(grant[g].shares) = grant[g].total
          /\ grant[g].status \in {"released", "reversed"} => Reconciled(grant[g])
    /\ \A g, o \in Grants :
          {grant[g].status, grant[o].status} \subseteq {"draft", "released"} => g = o
=============================================================================
