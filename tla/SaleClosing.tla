----------------------------- MODULE SaleClosing -----------------------------
(***************************************************************************)
(* How a submitted contract ends: the legal timeline, the cancellation     *)
(* case, the buyer's confirmed cash and the handover of the keys, all in   *)
(* app/modules/sales/service.py with collections confirming the cash and   *)
(* inventory carrying the unit's statuses.                                 *)
(*                                                                         *)
(* The contracts follow one another on ONE unit; UnitSale shows that at    *)
(* most one of them is live, so here submit_sale finds the unit available  *)
(* and the reservation before it is left out.  Every operation runs under  *)
(* the project lock and is one action, except create_handover, which reads *)
(* the contract's status before the lock: it is two.                       *)
(*                                                                         *)
(* The timeline is the set of its effective events, all entered on one     *)
(* day.  Cash is the number of confirmed receipts that stand; the price of *)
(* a contract is MaxCash of them.  A case's terms are the cash they were   *)
(* derived from: they are zero exactly when the cash is.  A sale keeps its *)
(* latest case, since a closed one is never reopened.  People, dates and   *)
(* documents are left out.                                                 *)
(***************************************************************************)
EXTENDS Naturals, Sequences, FiniteSets

CONSTANTS
    Sales,                       \* contracts drawn, one after the other
    Milestones,                  \* the legal events the parties ever record
    MaxCash,                     \* a contract's price, in receipts
    HandoverNeeds,               \* policy: clearances required for handover
    TitleNeedsCollection,        \* policy: collection clearance before title
    HandoverNeedsTitle           \* policy: title before handover

VARIABLES
    sale,                        \* contract, its timeline, case, cash, handover
    unit,                        \* the unit's three statuses
    preparing                    \* contracts a clerk has read as active, to
                                 \* open a handover

vars == <<sale, unit, preparing>>

-----------------------------------------------------------------------------
(* Tables of the code *)

LEGAL_EVENT_TYPES ==
    <<"spa_drafted", "spa_approved", "spa_issued", "buyer_signed",
      "seller_signed", "stamped", "stamp_duty_recorded", "land_registry_lodged",
      "land_registry_accepted", "registered", "title_transfer_pending",
      "title_transferred", "withdrawal_started", "withdrawn">>

LegalEvents == {LEGAL_EVENT_TYPES[i] : i \in 1..Len(LEGAL_EVENT_TYPES)}
Position(e) == CHOOSE i \in 1..Len(LEGAL_EVENT_TYPES) : LEGAL_EVENT_TYPES[i] = e

Prerequisites(e) ==
    CASE e \in {"spa_approved", "spa_issued"} -> {"spa_drafted"}
      [] e \in {"buyer_signed", "seller_signed"} -> {"spa_issued"}
      [] e \in {"stamped", "land_registry_lodged"} -> {"buyer_signed", "seller_signed"}
      [] e = "stamp_duty_recorded" -> {"stamped"}
      [] e \in {"land_registry_accepted", "registered"} -> {"land_registry_lodged"}
      [] e \in {"title_transfer_pending", "title_transferred"} -> {"registered"}
      [] e = "withdrawn" -> {"withdrawal_started"}
      [] OTHER -> {}

LegalStatusOf ==
    [spa_drafted |-> "drafting", spa_approved |-> "drafting",
     spa_issued |-> "issued", buyer_signed |-> "buyer_signed",
     seller_signed |-> "fully_signed", stamped |-> "stamped",
     stamp_duty_recorded |-> "stamped", land_registry_lodged |-> "lodged_submitted",
     land_registry_accepted |-> "lodged_submitted", registered |-> "registered",
     title_transfer_pending |-> "transfer_pending",
     title_transferred |-> "transferred",
     withdrawal_started |-> "withdrawal_pending", withdrawn |-> "withdrawn"]

RegistryEngaged ==
    {"land_registry_lodged", "registered", "title_transfer_pending",
     "title_transferred"}

CancellationOpen ==
    {"notice", "cure", "termination_pending_approval", "withdrawal_pending",
     "ready_for_unit_return"}

CancellationMoves ==
    [notice                       |-> {"cure", "termination_pending_approval", "withdrawn"},
     cure                         |-> {"termination_pending_approval", "withdrawn"},
     termination_pending_approval |->
        {"withdrawal_pending", "ready_for_unit_return", "withdrawn"},
     withdrawal_pending           |-> {"ready_for_unit_return"},
     ready_for_unit_return        |-> {"withdrawn"}]

ClearanceTypes == {"legal", "collection", "delivery"}

\* "preparation" stands for the four open stages, which no operation tells apart.
HandoverStatuses == {"none", "preparation", "handed_over", "cancelled"}

ASSUME SaleClosingAssumption ==
    /\ Milestones \subseteq LegalEvents
    /\ MaxCash \in Nat
    /\ HandoverNeeds \subseteq ClearanceTypes

CaseRow ==
    [status                      : CancellationOpen \cup {"none", "withdrawn", "completed"},
     legal_withdrawal_required   : BOOLEAN,
     legal_withdrawal_status     : {"not_required", "pending", "completed"},
     financial_approval_required : BOOLEAN,
     approved                    : BOOLEAN,     \* financial_approved_at is set
     basis                       : 0..MaxCash]  \* the cash the terms come from

SaleRow ==
    [status    : {"none", "signature_pending", "active", "termination_pending", "cancelled"},
     activated : BOOLEAN,
     events    : SUBSET LegalEvents,
     cash      : 0..MaxCash,
     case      : CaseRow,
     handover  : HandoverStatuses,
     cleared   : SUBSET ClearanceTypes]

NoCase ==
    [status |-> "none", legal_withdrawal_required |-> FALSE,
     legal_withdrawal_status |-> "not_required",
     financial_approval_required |-> FALSE, approved |-> FALSE, basis |-> 0]

-----------------------------------------------------------------------------
(* What the services read *)

derived_legal_status(events) ==
    IF events = {} THEN "no_spa"
    ELSE LegalStatusOf[CHOOSE e \in events :
                          \A f \in events : Position(f) <= Position(e)]

OpenCase(s) == sale[s].case.status \in CancellationOpen
Engaged(s) == sale[s].events \cap RegistryEngaged # {}

\* require_cancellation_cash_change_allowed
CashMayChange(s) == ~(OpenCase(s) /\ sale[s].case.approved)

\* The money decision was signed, or there never was and is not one to sign.
TermsSettled(s) ==
    \/ sale[s].case.approved
    \/ ~sale[s].case.financial_approval_required /\ sale[s].cash = 0

WithdrawalSettled(s) ==
    sale[s].case.legal_withdrawal_required
        => sale[s].case.legal_withdrawal_status = "completed"

\* clearance_blockers_of is empty.
AccountClear(row) == row.status # "cancelled" /\ row.cash = MaxCash

\* recalculate_collection_status revokes a clearance the ledger has reopened.
Recalculated(row) ==
    IF AccountClear(row) THEN row ELSE [row EXCEPT !.cleared = @ \ {"collection"}]

Init ==
    /\ sale = [s \in Sales |->
                 [status |-> "none", activated |-> FALSE, events |-> {}, cash |-> 0,
                  case |-> NoCase, handover |-> "none", cleared |-> {}]]
    /\ unit = [commercial_status |-> "available", legal_status |-> "no_spa",
               delivered |-> FALSE]
    /\ preparing = {}

-----------------------------------------------------------------------------
(* The contract, as far as this module needs it *)

submit_sale(s) ==
    /\ sale[s].status = "none"
    /\ unit.commercial_status = "available"
    /\ sale' = [sale EXCEPT ![s].status = "signature_pending"]
    /\ unit' = [unit EXCEPT !.commercial_status = "contract_pending"]
    /\ UNCHANGED preparing

activate_sale(s) ==
    /\ sale[s].status = "signature_pending"
    /\ unit.commercial_status = "contract_pending"
    /\ {"buyer_signed", "seller_signed"} \subseteq sale[s].events
    /\ sale' = [sale EXCEPT ![s].status = "active", ![s].activated = TRUE]
    /\ unit' = [unit EXCEPT !.commercial_status = "contracted"]
    /\ UNCHANGED preparing

return_unit_to_market ==
    /\ unit.commercial_status = "returned"
    /\ \E s \in Sales : sale[s].status = "cancelled" /\ sale[s].case.status = "completed"
    /\ unit' = [unit EXCEPT !.commercial_status = "available"]
    /\ UNCHANGED <<sale, preparing>>

-----------------------------------------------------------------------------
(* The legal timeline *)

\* _record_withdrawal_progress
WithdrawalProgress(s, e) ==
    LET case == sale[s].case IN
    IF OpenCase(s) /\ case.legal_withdrawal_required
          /\ e \in {"withdrawal_started", "withdrawn"}
    THEN [case EXCEPT !.legal_withdrawal_status =
                         IF e = "withdrawn" THEN "completed" ELSE "pending"]
    ELSE case

record_legal_event(s, e) ==
    LET events == sale[s].events \cup {e} IN
    /\ sale[s].status # "none"
    /\ e \notin sale[s].events
    /\ Prerequisites(e) \subseteq sale[s].events
    /\ e = "title_transferred" /\ TitleNeedsCollection => "collection" \in sale[s].cleared
    /\ sale' = [sale EXCEPT ![s].events = events, ![s].case = WithdrawalProgress(s, e)]
    /\ unit' = [unit EXCEPT !.legal_status = derived_legal_status(events)]
    /\ UNCHANGED preparing

\* Mutant of reverse_legal_event: the unit keeps the status the event gave it.
ReverseKeepsUnitStatus(s, e) ==
    /\ e \in sale[s].events
    /\ \A f \in sale[s].events : Position(f) <= Position(e)
    /\ sale' = [sale EXCEPT ![s].events = @ \ {e}]
    /\ UNCHANGED <<unit, preparing>>

\* Withdraw the last standing milestone by a correction beside it.
reverse_legal_event(s, e) ==
    LET events == sale[s].events \ {e} IN
    /\ e \in sale[s].events
    /\ \A f \in sale[s].events : Position(f) <= Position(e)
    /\ sale' = [sale EXCEPT ![s].events = events]
    /\ unit' = [unit EXCEPT !.legal_status = derived_legal_status(events)]
    /\ UNCHANGED preparing

-----------------------------------------------------------------------------
(* The buyer's cash *)

confirm_receipt(s) ==
    /\ sale[s].status # "none"
    /\ sale[s].cash < MaxCash
    /\ CashMayChange(s)
    /\ sale' = [sale EXCEPT ![s] = Recalculated([sale[s] EXCEPT !.cash = @ + 1])]
    /\ UNCHANGED <<unit, preparing>>

\* Mutants of reverse_receipt: signed terms do not hold the cash; the clearance
\* given on it stands.
ReverseUnderSignedTerms(s) ==
    /\ sale[s].cash > 0
    /\ sale' = [sale EXCEPT ![s] = Recalculated([sale[s] EXCEPT !.cash = @ - 1])]
    /\ UNCHANGED <<unit, preparing>>

ReverseKeepsClearance(s) ==
    /\ sale[s].cash > 0
    /\ CashMayChange(s)
    /\ sale' = [sale EXCEPT ![s].cash = @ - 1]
    /\ UNCHANGED <<unit, preparing>>

reverse_receipt(s) ==
    /\ sale[s].cash > 0
    /\ CashMayChange(s)
    /\ sale' = [sale EXCEPT ![s] = Recalculated([sale[s] EXCEPT !.cash = @ - 1])]
    /\ UNCHANGED <<unit, preparing>>

-----------------------------------------------------------------------------
(* Cancellation *)

start_cancellation(s) ==
    /\ ~OpenCase(s)
    /\ sale[s].status \in {"signature_pending", "active"}
    /\ sale' = [sale EXCEPT
          ![s].status = "termination_pending",
          ![s].case = [NoCase EXCEPT
              !.status = "notice",
              !.legal_withdrawal_required = Engaged(s),
              !.legal_withdrawal_status = IF Engaged(s) THEN "pending" ELSE "not_required",
              !.financial_approval_required = sale[s].cash > 0,
              !.basis = sale[s].cash]]
    /\ UNCHANGED <<unit, preparing>>

\* Whatever the case's status: only that it is not signed yet is asked.
approve_cancellation_terms(s) ==
    /\ sale[s].case.status # "none"
    /\ ~sale[s].case.approved
    /\ sale[s].cash > 0
    /\ sale' = [sale EXCEPT ![s].case.approved = TRUE,
                            ![s].case.financial_approval_required = TRUE,
                            ![s].case.basis = sale[s].cash]
    /\ UNCHANGED <<unit, preparing>>

\* Mutant of advance_cancellation: a case dropped leaves the contract as it is.
AdvanceLeavesContract(s, to) ==
    /\ OpenCase(s)
    /\ to \in CancellationMoves[sale[s].case.status]
    /\ to = "ready_for_unit_return" => WithdrawalSettled(s) /\ TermsSettled(s)
    /\ sale' = [sale EXCEPT ![s].case.status = to]
    /\ UNCHANGED <<unit, preparing>>

advance_cancellation(s, to) ==
    /\ OpenCase(s)
    /\ to \in CancellationMoves[sale[s].case.status]
    /\ to = "ready_for_unit_return" => WithdrawalSettled(s) /\ TermsSettled(s)
    /\ sale' = [sale EXCEPT ![s].case.status = to,
                            ![s].status = IF to # "withdrawn" THEN @
                                          ELSE IF sale[s].activated THEN "active"
                                          ELSE "signature_pending"]
    /\ UNCHANGED <<unit, preparing>>

\* The contract ends, the unit comes back and its handover is called off.
Complete(s) ==
    /\ unit.commercial_status \in {"contract_pending", "contracted"}
    /\ sale' = [sale EXCEPT ![s].status = "cancelled", ![s].case.status = "completed",
                            ![s].handover = IF @ = "none" THEN @ ELSE "cancelled"]
    /\ unit' = [unit EXCEPT !.commercial_status = "returned"]
    /\ UNCHANGED preparing

\* Mutant of complete_cancellation: a unit whose keys were given is taken back.
CompleteOverKeys(s) ==
    /\ sale[s].case.status = "ready_for_unit_return"
    /\ TermsSettled(s) /\ WithdrawalSettled(s)
    /\ Complete(s)

complete_cancellation(s) ==
    /\ sale[s].case.status = "ready_for_unit_return"
    /\ TermsSettled(s) /\ WithdrawalSettled(s)
    /\ sale[s].handover # "handed_over"
    /\ Complete(s)

-----------------------------------------------------------------------------
(* Handover *)

\* A clerk opens a handover: the contract's status is read before the lock ...
read_for_handover(s) ==
    /\ sale[s].status = "active"
    /\ s \notin preparing
    /\ preparing' = preparing \cup {s}
    /\ UNCHANGED <<sale, unit>>

\* ... and only that there is no handover yet is asked under it.
create_handover(s) ==
    /\ s \in preparing
    /\ preparing' = preparing \ {s}
    /\ sale' = [sale EXCEPT ![s].handover = IF @ = "none" THEN "preparation" ELSE @]
    /\ UNCHANGED unit

UnderHandover(s) == sale[s].handover \in {"preparation", "cancelled"}

update_handover(s, to) ==
    /\ UnderHandover(s)
    /\ to \in {"preparation", "cancelled"}
    /\ to # sale[s].handover
    /\ sale' = [sale EXCEPT ![s].handover = to]
    /\ UNCHANGED <<unit, preparing>>

\* Legal and delivery sign for themselves, collections through its ledger.
grant_clearance(s, type) ==
    /\ UnderHandover(s)
    /\ type \in {"legal", "delivery"} \ sale[s].cleared
    /\ sale' = [sale EXCEPT ![s].cleared = @ \cup {type}]
    /\ UNCHANGED <<unit, preparing>>

revoke_clearance(s, type) ==
    /\ UnderHandover(s)
    /\ type \in {"legal", "delivery"} \cap sale[s].cleared
    /\ sale' = [sale EXCEPT ![s].cleared = @ \ {type}]
    /\ UNCHANGED <<unit, preparing>>

grant_collection_clearance(s) ==
    /\ UnderHandover(s)
    /\ "collection" \notin sale[s].cleared
    /\ AccountClear(sale[s])
    /\ sale' = [sale EXCEPT ![s].cleared = @ \cup {"collection"}]
    /\ UNCHANGED <<unit, preparing>>

\* handover_blockers is empty.
HandoverReady(s) ==
    /\ sale[s].status = "active"
    /\ unit.commercial_status = "contracted"
    /\ HandoverNeeds \subseteq sale[s].cleared
    /\ HandoverNeedsTitle => "title_transferred" \in sale[s].events
    /\ ~OpenCase(s)

complete_handover(s) ==
    /\ UnderHandover(s)
    /\ HandoverReady(s)
    /\ sale' = [sale EXCEPT ![s].handover = "handed_over"]
    /\ unit' = [unit EXCEPT !.delivered = TRUE]
    /\ UNCHANGED preparing

-----------------------------------------------------------------------------
Next ==
    \/ return_unit_to_market
    \/ \E s \in Sales :
          \/ submit_sale(s) \/ activate_sale(s)
          \/ \E e \in Milestones : record_legal_event(s, e) \/ reverse_legal_event(s, e)
          \/ confirm_receipt(s) \/ reverse_receipt(s)
          \/ start_cancellation(s) \/ approve_cancellation_terms(s)
          \/ \E to \in CancellationOpen \cup {"withdrawn"} : advance_cancellation(s, to)
          \/ complete_cancellation(s)
          \/ read_for_handover(s) \/ create_handover(s)
          \/ \E to \in HandoverStatuses : update_handover(s, to)
          \/ \E type \in ClearanceTypes : grant_clearance(s, type) \/ revoke_clearance(s, type)
          \/ grant_collection_clearance(s) \/ complete_handover(s)

Spec == Init /\ [][Next]_vars

-----------------------------------------------------------------------------
(* Properties *)

\* Every row has its columns' types.  (models.py)
TypeOK ==
    /\ sale \in [Sales -> SaleRow]
    /\ unit \in [commercial_status : {"available", "contract_pending", "contracted", "returned"},
                 legal_status : {"no_spa"} \cup {LegalStatusOf[e] : e \in LegalEvents},
                 delivered : BOOLEAN]
    /\ preparing \subseteq Sales

\* The terms a checker signed are about the cash the developer holds, for as
\* long as the case runs.  (require_cancellation_cash_change_allowed)
ApprovedTermsMatchCash ==
    \A s \in Sales : OpenCase(s) /\ sale[s].case.approved => sale[s].case.basis = sale[s].cash

\* A contract never ends on money nobody signed for: whatever arrived or was
\* reversed while the case ran, it closes on signed terms derived from the cash
\* now held, or with no cash held.  (complete_cancellation)
SettledAtCurrentCash ==
    [][\A s \in Sales :
          sale[s].case.status # "completed" /\ sale'[s].case.status = "completed"
             => \/ sale[s].case.approved /\ sale[s].case.basis = sale[s].cash
                \/ sale[s].cash = 0]_vars

\* A contract is in termination exactly while a case on it is open, and its unit
\* stays committed until the case closes.  (start_cancellation)
CommittedWhileCaseOpen ==
    \A s \in Sales :
        /\ OpenCase(s) = (sale[s].status = "termination_pending")
        /\ OpenCase(s) => unit.commercial_status =
                             IF sale[s].activated THEN "contracted" ELSE "contract_pending"

\* Keys once given are never taken back: the contract behind them stays live on
\* a contracted unit, cancellation case or not, with the legal and delivery
\* sign-offs the project asked for; and a delivered unit has such a contract.
\* (complete_handover, complete_cancellation, revoke_clearance)
KeysStayGiven ==
    /\ \A s \in Sales : sale[s].handover = "handed_over" =>
          /\ sale[s].status \in {"active", "termination_pending"}
          /\ unit.commercial_status = "contracted"
          /\ HandoverNeeds \ {"collection"} \subseteq sale[s].cleared
    /\ unit.delivered => \E s \in Sales : sale[s].handover = "handed_over"

\* Where the policy asks collections, neither keys nor title go to a buyer who
\* has not paid at that moment, whatever was reversed after the sign-off.
\* (recalculate_collection_status, revoke_collection_clearance)
PaidBeforeKeysAndTitle ==
    [][\A s \in Sales :
          /\ "collection" \in HandoverNeeds /\ sale[s].handover # "handed_over"
                /\ sale'[s].handover = "handed_over"
                => sale[s].cash = MaxCash
          /\ TitleNeedsCollection /\ "title_transferred" \in sale'[s].events \ sale[s].events
                => sale[s].cash = MaxCash]_vars

\* A unit's legal status always has a timeline behind it that establishes it,
\* through every correction.  (_LEGAL_STATUS_OF, _apply_derived_legal_status)
LegalStatusEvidenced ==
    \/ unit.legal_status = "no_spa"
    \/ \E s \in Sales : derived_legal_status(sale[s].events) = unit.legal_status
=============================================================================
