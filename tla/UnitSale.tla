------------------------------ MODULE UnitSale ------------------------------
(***************************************************************************)
(* How one unit is put on the market, held by a reservation, handed to a   *)
(* sale contract and taken back: app/modules/sales/service.py over the     *)
(* contracts app/modules/inventory/service.py exposes to it.               *)
(*                                                                         *)
(* A row of the database is a record and a table is a function from the    *)
(* identifiers that may ever be used to rows; an identifier that is not in *)
(* use has status "none".  Every operation that decides something about a  *)
(* unit locks the project row, then the unit, then its own record, and     *)
(* commits once, so it is one atomic action here.  The one exception is    *)
(* expire_reservation, which reads the expiry date before it takes any     *)
(* lock: it is two actions, with anything the other clerks do in between.  *)
(*                                                                         *)
(* Money, people and wording are abstracted.  A quote is a number that     *)
(* identifies the frozen snapshot; whether it breaches the country's       *)
(* thresholds is chosen when it is frozen.  A unit's pricing basis is one  *)
(* value, its list prices the sequence of the bases they were cut from.    *)
(* Of the status histories only the latest effective date is kept, which   *)
(* is all the services ask of them; day 0 stands for every earlier day.    *)
(***************************************************************************)
EXTENDS Naturals, Sequences, FiniteSets

CONSTANTS
    Units,           \* identifiers of units
    Reservations,    \* identifiers reservations may take
    Sales,           \* identifiers sale contracts may take
    Bases,           \* the values a unit's pricing basis may have
    NoRecord,        \* the null foreign key
    MaxDay,          \* the last business day considered
    MaxPrices,       \* how many list prices a unit may be given
    MaxQuotes,       \* how many times one reservation may be quoted
    DepositGate,     \* policy: reservation_requires_deposit_confirmation
    Thresholds       \* whether the country pack has discount thresholds

ASSUME UnitSaleAssumption ==
    /\ NoRecord \notin Units \cup Reservations
    /\ MaxDay \in Nat /\ MaxPrices \in Nat /\ MaxQuotes \in Nat
    /\ DepositGate \in BOOLEAN /\ Thresholds \in BOOLEAN

VARIABLES
    today,           \* the business day
    unit,            \* units
    reservation,     \* reservations
    sale,            \* sale_contracts
    expiring,        \* reservations a clerk has read as past their date
    dated,           \* of each unit, the last effective date in unit_status_events
    moved            \* of each reservation, the last in reservation_status_events

history == <<dated, moved>>
vars == <<today, unit, reservation, sale, expiring, history>>

-----------------------------------------------------------------------------
(* Rows *)

Days == 0..MaxDay

\* A release date that is unset or later than every day considered.  A
\* commercial block is the same thing to this module: a gate that is shut and
\* that update_release_controls opens.
Never == MaxDay + 1

CommercialStatuses ==
    {"unreleased", "held", "available", "reserved", "contract_pending",
     "contracted", "returned"}

ReservationPreparing == {"draft", "deposit_pending"}
ReservationCommitted == {"active", "extended"}
ReservationStatuses ==
    ReservationPreparing \cup ReservationCommitted
        \cup {"none", "converted", "expired", "cancelled"}

SaleCommitted == {"signature_pending", "active", "termination_pending"}
SaleStatuses == SaleCommitted \cup {"none", "draft", "cancelled"}

Exceptions == {"not_required", "pending", "submitted", "approved", "rejected"}
Gates == {"not_required", "pending", "confirmed", "waived"}
GateSatisfied == {"not_required", "confirmed", "waived"}

UnitRow ==
    [commercial_status : CommercialStatuses,
     standing          : {"active", "inactive", "removed"},
     pricing_approved  : BOOLEAN,
     basis             : Bases,
     prices            : Seq(Bases),
     release_date      : 0..Never]

ReservationRow ==
    [status             : ReservationStatuses,
     unit               : Units \cup {NoRecord},
     expires_on         : Days,
     price_locked_until : Days,
     target             : BOOLEAN,   \* agreed_price_target_ex_tax is set
     version            : Nat,       \* the list price the quote was cut from
     quote              : Nat,       \* which frozen snapshot this is
     exception          : Exceptions,
     sanctioned         : Nat,       \* the quote the approver decided on
     gate               : Gates]

SaleRow ==
    [status      : SaleStatuses,
     reservation : Reservations \cup {NoRecord},
     quote       : Nat,              \* the snapshot copied from the reservation
     gate        : Gates,            \* first_payment_gate_status
     signed      : BOOLEAN,          \* both signature events stand
     activated   : BOOLEAN]          \* activated_at is set

NoReservation ==
    [status |-> "none", unit |-> NoRecord, expires_on |-> 0,
     price_locked_until |-> 0, target |-> FALSE, version |-> 0, quote |-> 0,
     exception |-> "not_required", sanctioned |-> 0, gate |-> "not_required"]

NoSale ==
    [status |-> "none", reservation |-> NoRecord, quote |-> 0,
     gate |-> "not_required", signed |-> FALSE, activated |-> FALSE]

-----------------------------------------------------------------------------
(* What the services read *)

Committed(r) == reservation[r].status \in ReservationCommitted
Contracting(s) == sale[s].status \in SaleCommitted
SaleUnit(s) == reservation[sale[s].reservation].unit

ReservationsOn(u) == {r \in Reservations : Committed(r) /\ reservation[r].unit = u}
ContractsOn(u) == {s \in Sales : Contracting(s) /\ SaleUnit(s) = u}
NoCommitment(u) == ReservationsOn(u) = {} /\ ContractsOn(u) = {}

\* The contract drawn up from a reservation and not yet cancelled.
ContractOf(r) ==
    {s \in Sales : sale[s].reservation = r /\ sale[s].status # "cancelled"}

ActivePrice(u) == Len(unit[u].prices)

\* The pricing basis a list price froze is the one the unit has now.
BasisCurrent(u, version) ==
    /\ version \in 1..Len(unit[u].prices)
    /\ unit[u].prices[version] = unit[u].basis

\* release_blockers is empty, as at some day.
ReleasableOn(u, day) ==
    /\ unit[u].standing = "active"
    /\ unit[u].pricing_approved
    /\ unit[u].release_date <= day

Releasable(u) == ReleasableOn(u, today)

\* The commercial moves inventory owns, and the ones a sale may ask it for.
InventoryMoves ==
    [unreleased |-> {"held", "available"},
     held       |-> {"unreleased", "available"},
     available  |-> {"held", "unreleased"}]

SalesMoves ==
    [available        |-> {"reserved"},
     reserved         |-> {"contract_pending", "available", "held"},
     contract_pending |-> {"contracted", "returned", "available", "held"},
     contracted       |-> {"returned"},
     returned         |-> {"available"}]

\* apply_sales_commercial_status accepts the move: it is on the ladder, and
\* going back on the market passes the release gate as at the move's own date.
MayApply(u, to, day) ==
    /\ unit[u].commercial_status \in DOMAIN SalesMoves
    /\ to \in SalesMoves[unit[u].commercial_status]
    /\ to = "available" => ReleasableOn(u, day)

\* An event is appended to a history, dated no earlier than the one it follows.
\* (_require_forward_effective_date, _record_reservation_event)
UnitEvent(u, day) == day >= dated[u] /\ dated' = [dated EXCEPT ![u] = day]
ReservationEvent(r, day) == day >= moved[r] /\ moved' = [moved EXCEPT ![r] = day]

\* The days a sale may date a move: it takes effect at once.  (_effective)
Past == {day \in Days : day <= today}

SetCommercial(u, to) == unit' = [unit EXCEPT ![u].commercial_status = to]

\* A price may be quoted: the live one, which still describes the unit.
QuoteAvailable(u) ==
    unit[u].pricing_approved /\ BasisCurrent(u, ActivePrice(u))

\* quote_preview reads the price already pinned, not the live one.
PinnedQuote(row, requote) == row.target /\ row.quote > 0 /\ ~requote

CanFreeze(row, u, requote) ==
    /\ row.quote < MaxQuotes
    /\ PinnedQuote(row, requote) \/ QuoteAvailable(u)

\* The row with a new quote frozen into it; any standing approval goes.
FreezeQuote(row, u, requote, breach) ==
    [row EXCEPT !.version    = IF PinnedQuote(row, requote) THEN @ ELSE ActivePrice(u),
                !.quote      = @ + 1,
                !.exception  = IF breach THEN "pending" ELSE "not_required",
                !.sanctioned = 0]

Breaches == IF Thresholds THEN BOOLEAN ELSE {FALSE}

ExceptionSettled(r) == reservation[r].exception \in {"not_required", "approved"}

LockIntact(r) ==
    reservation[r].expires_on >= today /\ reservation[r].price_locked_until >= today

Init ==
    /\ today = 0
    /\ unit \in [Units -> {[commercial_status |-> "unreleased", standing |-> "active",
                            pricing_approved |-> FALSE, basis |-> b, prices |-> <<>>,
                            release_date |-> Never] : b \in Bases}]
    /\ reservation = [r \in Reservations |-> NoReservation]
    /\ sale = [s \in Sales |-> NoSale]
    /\ expiring = {}
    /\ dated = [u \in Units |-> 0]
    /\ moved = [r \in Reservations |-> 0]

-----------------------------------------------------------------------------
(* Pricing and inventory *)

\* A version that was generated, submitted and approved for the unit as it now
\* stands becomes its list price: the only writer of pricing_approved.
activate_price_version(u) ==
    /\ Len(unit[u].prices) < MaxPrices
    /\ unit' = [unit EXCEPT ![u].prices = Append(@, unit[u].basis),
                            ![u].pricing_approved = TRUE]
    /\ UNCHANGED <<today, reservation, sale, expiring, history>>

\* A priced fact of the unit is edited.
update_unit(u, b) ==
    /\ unit[u].standing # "removed"
    /\ unit[u].basis # b
    /\ unit' = [unit EXCEPT ![u].basis = b, ![u].pricing_approved = FALSE]
    /\ UNCHANGED <<today, reservation, sale, expiring, history>>

\* A new measured revision becomes the unit's areas.
approve_area_schedule(u, b) ==
    /\ unit[u].basis # b
    /\ unit' = [unit EXCEPT ![u].basis = b, ![u].pricing_approved = FALSE]
    /\ UNCHANGED <<today, reservation, sale, expiring, history>>

\* update_unit's activity branch.
deactivate_unit(u) ==
    /\ unit[u].standing = "active"
    /\ unit[u].commercial_status = "unreleased"
    /\ unit' = [unit EXCEPT ![u].standing = "inactive", ![u].pricing_approved = FALSE]
    /\ UNCHANGED <<today, reservation, sale, expiring, history>>

reactivate_unit(u) ==
    /\ unit[u].standing = "inactive"
    /\ unit' = [unit EXCEPT ![u].standing = "active", ![u].pricing_approved = FALSE]
    /\ UNCHANGED <<today, reservation, sale, expiring, history>>

\* The owner's retained removal, whatever the commercial commitment.
remove_unit(u) ==
    /\ unit[u].standing # "removed"
    /\ unit' = [unit EXCEPT ![u].standing = "removed"]
    /\ UNCHANGED <<today, reservation, sale, expiring, history>>

restore_unit(u) ==
    /\ unit[u].standing = "removed"
    /\ unit' = [unit EXCEPT ![u].standing = "active"]
    /\ UNCHANGED <<today, reservation, sale, expiring, history>>

\* The caller dates the move, ahead as well, and the gate is asked as at that date.
transition_commercial_status(u, to, day) ==
    /\ unit[u].commercial_status \in DOMAIN InventoryMoves
    /\ to \in InventoryMoves[unit[u].commercial_status]
    /\ UnitEvent(u, day)
    /\ to = "available" => ReleasableOn(u, day)
    /\ SetCommercial(u, to)
    /\ UNCHANGED <<today, reservation, sale, expiring, moved>>

\* release_due dates its event the release date, or the event it follows if that
\* is later.
ReleaseEvent(u, release) ==
    UnitEvent(u, IF release >= dated[u] THEN release ELSE dated[u])

\* Mutant of update_release_controls: the date alone releases the unit.
ReleaseOnDateAlone(u, day) ==
    /\ unit[u].release_date # day
    /\ LET due == unit[u].commercial_status \in {"unreleased", "held"} /\ day <= today
       IN  /\ unit' = [unit EXCEPT ![u].release_date = day,
                                   ![u].commercial_status = IF due THEN "available" ELSE @]
           /\ IF due THEN ReleaseEvent(u, day) ELSE UNCHANGED dated
    /\ UNCHANGED <<today, reservation, sale, expiring, moved>>

\* Setting a release date that has arrived is the release.
update_release_controls(u, day) ==
    /\ unit[u].release_date # day
    /\ LET due == /\ unit[u].commercial_status \in {"unreleased", "held"}
                  /\ unit[u].standing = "active"
                  /\ unit[u].pricing_approved
                  /\ day <= today
       IN  /\ unit' = [unit EXCEPT ![u].release_date = day,
                                   ![u].commercial_status = IF due THEN "available" ELSE @]
           /\ IF due THEN ReleaseEvent(u, day) ELSE UNCHANGED dated
    /\ UNCHANGED <<today, reservation, sale, expiring, moved>>

\* One unit of release_many: due, and every gate passes.
release_due(u) ==
    /\ unit[u].commercial_status \in {"unreleased", "held"}
    /\ Releasable(u)
    /\ SetCommercial(u, "available")
    /\ ReleaseEvent(u, unit[u].release_date)
    /\ UNCHANGED <<today, reservation, sale, expiring, moved>>

NextDay ==
    /\ today < MaxDay
    /\ today' = today + 1
    /\ UNCHANGED <<unit, reservation, sale, expiring, history>>

-----------------------------------------------------------------------------
(* Reservations *)

create_reservation(r, u, expires, lock, target, breach) ==
    /\ reservation[r].status = "none"
    /\ NoCommitment(u)
    /\ LET row == [NoReservation EXCEPT
                     !.status = IF DepositGate THEN "deposit_pending" ELSE "draft",
                     !.unit = u, !.expires_on = expires,
                     !.price_locked_until = lock, !.target = target,
                     !.gate = IF DepositGate THEN "pending" ELSE "not_required"]
       IN  /\ CanFreeze(row, u, FALSE)
           /\ reservation' = [reservation EXCEPT ![r] = FreezeQuote(row, u, FALSE, breach)]
    /\ UNCHANGED <<today, unit, sale, expiring, history>>

update_reservation(r, expires) ==
    /\ reservation[r].status \in ReservationPreparing
    /\ expires <= reservation[r].price_locked_until
    /\ expires # reservation[r].expires_on
    /\ reservation' = [reservation EXCEPT ![r].expires_on = expires]
    /\ UNCHANGED <<today, unit, sale, expiring, history>>

\* Mutant of revise_quote: the status of the reservation is not looked at.
ReviseAnyQuote(r, breach) ==
    /\ reservation[r].status # "none"
    /\ CanFreeze(reservation[r], reservation[r].unit, FALSE)
    /\ reservation' = [reservation EXCEPT
                         ![r] = FreezeQuote(@, @.unit, FALSE, breach)]
    /\ UNCHANGED <<today, unit, sale, expiring, history>>

\* recalculate_reservation, create_adjustment and update_adjustment: a
\* commercial input of the quote moves, and the quote is frozen again.
revise_quote(r, breach) ==
    /\ reservation[r].status \in ReservationPreparing
    /\ CanFreeze(reservation[r], reservation[r].unit, FALSE)
    /\ reservation' = [reservation EXCEPT
                         ![r] = FreezeQuote(@, @.unit, FALSE, breach)]
    /\ UNCHANGED <<today, unit, sale, expiring, history>>

\* An exception may be argued while the deal is prepared, and afterwards only
\* while a re-quote has left one outstanding.
ExceptionOpen(r) ==
    \/ reservation[r].status \in ReservationPreparing
    \/ /\ Committed(r)
       /\ reservation[r].exception \in {"pending", "submitted", "rejected"}

submit_exception(r) ==
    /\ ExceptionOpen(r)
    /\ reservation[r].exception \in {"pending", "rejected"}
    /\ reservation' = [reservation EXCEPT ![r].exception = "submitted"]
    /\ UNCHANGED <<today, unit, sale, expiring, history>>

\* Another person than the submitter decides.
decide_exception(r, approved) ==
    /\ ExceptionOpen(r)
    /\ reservation[r].exception = "submitted"
    /\ reservation' = [reservation EXCEPT
                         ![r].exception = IF approved THEN "approved" ELSE "rejected",
                         ![r].sanctioned = reservation[r].quote]
    /\ UNCHANGED <<today, unit, sale, expiring, history>>

SettleDeposit(r, how) ==
    /\ reservation[r].status \in ReservationPreparing
    /\ reservation[r].gate = "pending"
    /\ reservation' = [reservation EXCEPT ![r].gate = how]
    /\ UNCHANGED <<today, unit, sale, expiring, history>>

confirm_deposit(r) == SettleDeposit(r, "confirmed")
waive_deposit(r) == SettleDeposit(r, "waived")

\* Commit the unit to this buyer.
activate_reservation(r, day) ==
    LET u == reservation[r].unit IN
    /\ reservation[r].status \in ReservationPreparing
    /\ unit[u].commercial_status = "available"
    /\ Releasable(u)
    /\ NoCommitment(u)
    /\ LockIntact(r)
    /\ reservation[r].version = ActivePrice(u)
    /\ ExceptionSettled(r)
    /\ reservation[r].gate \in GateSatisfied
    /\ ReservationEvent(r, day)
    /\ MayApply(u, "reserved", day)
    /\ UnitEvent(u, day)
    /\ reservation' = [reservation EXCEPT ![r].status = "active"]
    /\ SetCommercial(u, "reserved")
    /\ UNCHANGED <<today, sale, expiring>>

\* Only the reservation row is locked.
extend_reservation(r, expires, day) ==
    /\ Committed(r)
    /\ expires > reservation[r].expires_on
    /\ expires <= reservation[r].price_locked_until
    /\ ReservationEvent(r, day)
    /\ reservation' = [reservation EXCEPT ![r].expires_on = expires,
                                          ![r].status = "extended"]
    /\ UNCHANGED <<today, unit, sale, expiring, dated>>

\* Mutant of MayClose: a draft contract stands in the way as a signed one does.
MayCloseWithoutDraft(r, to) ==
    /\ \/ Committed(r)
       \/ to = "cancelled" /\ reservation[r].status \in ReservationPreparing
    /\ ContractOf(r) = {}

\* _close_reservation: a preparation may be cancelled but not expired; a
\* contract past its draft has taken the reservation over; cancelling takes the
\* draft contract with it, expiring leaves it; and the unit of a commitment that
\* fell away goes where the release gates allow.
MayClose(r, to) ==
    /\ \/ Committed(r)
       \/ to = "cancelled" /\ reservation[r].status \in ReservationPreparing
    /\ \A s \in ContractOf(r) : sale[s].status = "draft"

close_reservation(r, to, day) ==
    LET u == reservation[r].unit IN
    /\ MayClose(r, to)
    /\ ReservationEvent(r, day)
    /\ reservation' = [reservation EXCEPT ![r].status = to]
    /\ sale' = [s \in Sales |-> IF to = "cancelled" /\ s \in ContractOf(r)
                                THEN [sale[s] EXCEPT !.status = "cancelled"]
                                ELSE sale[s]]
    /\ IF unit[u].commercial_status = "reserved" /\ Committed(r)
       THEN LET back == IF ReleasableOn(u, day) THEN "available" ELSE "held"
            IN  MayApply(u, back, day) /\ UnitEvent(u, day) /\ SetCommercial(u, back)
       ELSE UNCHANGED <<unit, dated>>
    /\ UNCHANGED today

\* The clerk's request reads the expiry date before any row is locked ...
\* (a reservation already closed is refused whatever the date says)
read_for_expiry(r) ==
    /\ reservation[r].status \in ReservationPreparing \cup ReservationCommitted
    /\ reservation[r].expires_on < today
    /\ r \notin expiring
    /\ expiring' = expiring \cup {r}
    /\ UNCHANGED <<today, unit, reservation, sale, history>>

\* ... and closes the reservation on that answer, or is refused.
expire_reservation(r, day) ==
    /\ r \in expiring
    /\ expiring' = expiring \ {r}
    /\ \/ close_reservation(r, "expired", day)
       \/ ~MayClose(r, "expired") /\ UNCHANGED <<today, unit, reservation, sale, history>>

cancel_reservation(r, day) ==
    /\ close_reservation(r, "cancelled", day)
    /\ UNCHANGED expiring

\* Mutant of requote_reservation: the draft contract keeps the old quote.
RequoteLeavesDraft(r, lock, breach) ==
    LET u == reservation[r].unit IN
    /\ Committed(r)
    /\ reservation[r].expires_on >= today
    /\ unit[u].commercial_status = "reserved"
    /\ CanFreeze(reservation[r], u, TRUE)
    /\ lock >= today
    /\ reservation' = [reservation EXCEPT
          ![r] = [FreezeQuote(@, u, TRUE, breach) EXCEPT !.price_locked_until = lock]]
    /\ UNCHANGED <<today, unit, sale, expiring, history>>

\* Re-price a live reservation against today's list price, and bring the draft
\* contract drawn up from it back into step.
requote_reservation(r, lock, breach) ==
    LET u == reservation[r].unit
        row == FreezeQuote(reservation[r], u, TRUE, breach) IN
    /\ Committed(r)
    /\ reservation[r].expires_on >= today
    /\ unit[u].commercial_status = "reserved"
    /\ ContractsOn(u) = {}
    /\ CanFreeze(reservation[r], u, TRUE)
    /\ lock >= today
    /\ reservation' = [reservation EXCEPT ![r] = [row EXCEPT !.price_locked_until = lock]]
    /\ sale' = [s \in Sales |-> IF s \in ContractOf(r)
                                THEN [sale[s] EXCEPT !.quote = row.quote]
                                ELSE sale[s]]
    /\ UNCHANGED <<today, unit, expiring, history>>

-----------------------------------------------------------------------------
(* Sale contracts *)

\* Mutant of StillSellable: a quote within its lock is taken as still true.
StillLocked(r) == LockIntact(r)

\* The quote is locked, and the unit is still the unit it priced.
StillSellable(r) ==
    LockIntact(r) /\ BasisCurrent(reservation[r].unit, reservation[r].version)

create_sale(s, r, gated) ==
    LET u == reservation[r].unit IN
    /\ sale[s].status = "none"
    /\ Committed(r)
    /\ unit[u].commercial_status = "reserved"
    /\ ContractOf(r) = {}
    /\ ContractsOn(u) = {}
    /\ StillSellable(r)
    /\ ExceptionSettled(r)
    /\ sale' = [sale EXCEPT ![s] =
                  [NoSale EXCEPT !.status = "draft", !.reservation = r,
                                 !.quote = reservation[r].quote,
                                 !.gate = IF gated THEN "pending" ELSE "not_required"]]
    /\ UNCHANGED <<today, unit, reservation, expiring, history>>

\* The first-payment requirement is set again, and its gate with it.
update_sale(s, gated) ==
    /\ sale[s].status = "draft"
    /\ LET gate == IF gated THEN "pending" ELSE "not_required"
       IN  /\ sale[s].gate # gate
           /\ sale' = [sale EXCEPT ![s].gate = gate]
    /\ UNCHANGED <<today, unit, reservation, expiring, history>>

\* Hand the commitment from the reservation to the contract.
submit_sale(s, day) ==
    LET r == sale[s].reservation
        u == SaleUnit(s) IN
    /\ sale[s].status = "draft"
    /\ Committed(r)
    /\ unit[u].commercial_status = "reserved"
    /\ ContractsOn(u) = {}
    /\ StillSellable(r)
    /\ ExceptionSettled(r)
    /\ sale[s].quote = reservation[r].quote
    /\ ReservationEvent(r, day)
    /\ MayApply(u, "contract_pending", day)
    /\ UnitEvent(u, day)
    /\ sale' = [sale EXCEPT ![s].status = "signature_pending"]
    /\ reservation' = [reservation EXCEPT ![r].status = "converted"]
    /\ SetCommercial(u, "contract_pending")
    /\ UNCHANGED <<today, expiring>>

SettleFirstPayment(s, how) ==
    /\ sale[s].status \in {"draft", "signature_pending"}
    /\ sale[s].gate = "pending"
    /\ sale' = [sale EXCEPT ![s].gate = how]
    /\ UNCHANGED <<today, unit, reservation, expiring, history>>

confirm_first_payment(s) == SettleFirstPayment(s, "confirmed")
waive_first_payment(s) == SettleFirstPayment(s, "waived")

\* record_legal_event and reverse_legal_event, for the pair of signatures.
record_signatures(s) ==
    /\ sale[s].status \notin {"none", "draft"}
    /\ ~sale[s].signed
    /\ sale' = [sale EXCEPT ![s].signed = TRUE]
    /\ UNCHANGED <<today, unit, reservation, expiring, history>>

reverse_signature(s) ==
    /\ sale[s].status # "none"
    /\ sale[s].signed
    /\ sale' = [sale EXCEPT ![s].signed = FALSE]
    /\ UNCHANGED <<today, unit, reservation, expiring, history>>

activate_sale(s, day) ==
    LET u == SaleUnit(s) IN
    /\ sale[s].status = "signature_pending"
    /\ unit[u].commercial_status = "contract_pending"
    /\ sale[s].signed
    /\ sale[s].gate \in GateSatisfied
    /\ reservation[sale[s].reservation].status = "converted"
    /\ MayApply(u, "contracted", day)
    /\ UnitEvent(u, day)
    /\ sale' = [sale EXCEPT ![s].status = "active", ![s].activated = TRUE]
    /\ SetCommercial(u, "contracted")
    /\ UNCHANGED <<today, reservation, expiring, moved>>

\* A cancellation case is opened on a live contract ...
start_cancellation(s) ==
    /\ sale[s].status \in {"signature_pending", "active"}
    /\ sale' = [sale EXCEPT ![s].status = "termination_pending"]
    /\ UNCHANGED <<today, unit, reservation, expiring, history>>

\* Mutants of withdraw_cancellation: the case is not checked to be open; the
\* contract always comes back active.
WithdrawClosedCase(s) ==
    /\ sale[s].status \in {"termination_pending", "cancelled"}
    /\ sale' = [sale EXCEPT ![s].status = IF sale[s].activated THEN "active"
                                          ELSE "signature_pending"]
    /\ UNCHANGED <<today, unit, reservation, expiring, history>>

WithdrawToActive(s) ==
    /\ sale[s].status = "termination_pending"
    /\ sale' = [sale EXCEPT ![s].status = "active"]
    /\ UNCHANGED <<today, unit, reservation, expiring, history>>

\* ... and dropped: the contract is put back where it was ...
withdraw_cancellation(s) ==
    /\ sale[s].status = "termination_pending"
    /\ sale' = [sale EXCEPT ![s].status = IF sale[s].activated THEN "active"
                                          ELSE "signature_pending"]
    /\ UNCHANGED <<today, unit, reservation, expiring, history>>

\* ... or completed: the contract ends, the unit comes back, its price goes.
complete_cancellation(s, day) ==
    LET u == SaleUnit(s) IN
    /\ sale[s].status = "termination_pending"
    /\ MayApply(u, "returned", day)
    /\ UnitEvent(u, day)
    /\ sale' = [sale EXCEPT ![s].status = "cancelled"]
    /\ unit' = [unit EXCEPT ![u].commercial_status = "returned",
                            ![u].pricing_approved = FALSE]
    /\ UNCHANGED <<today, reservation, expiring, moved>>

\* A contract a completed case ended; one cancelled as a draft never took its
\* reservation over.
CancelledContract(s) ==
    /\ sale[s].status = "cancelled"
    /\ reservation[sale[s].reservation].status = "converted"

return_unit_to_market(u) ==
    /\ unit[u].commercial_status = "returned"
    /\ \E s \in Sales : CancelledContract(s) /\ SaleUnit(s) = u
    /\ NoCommitment(u)
    /\ Releasable(u)
    /\ QuoteAvailable(u)
    /\ MayApply(u, "available", today)
    /\ UnitEvent(u, today)
    /\ SetCommercial(u, "available")
    /\ UNCHANGED <<today, reservation, sale, expiring, moved>>

-----------------------------------------------------------------------------
InventoryNext ==
    \E u \in Units :
        \/ activate_price_version(u)
        \/ \E b \in Bases : update_unit(u, b) \/ approve_area_schedule(u, b)
        \/ deactivate_unit(u) \/ reactivate_unit(u)
        \/ remove_unit(u) \/ restore_unit(u)
        \/ \E to \in CommercialStatuses, day \in Days :
              transition_commercial_status(u, to, day)
        \/ \E day \in 0..Never : update_release_controls(u, day)
        \/ release_due(u)
        \/ return_unit_to_market(u)

ReservationNext ==
    \E r \in Reservations :
        \/ \E u \in Units, expires, lock \in Days, target \in BOOLEAN, breach \in Breaches :
              create_reservation(r, u, expires, lock, target, breach)
        \/ \E expires \in Days : update_reservation(r, expires)
        \/ \E breach \in Breaches : revise_quote(r, breach)
        \/ submit_exception(r)
        \/ \E approved \in BOOLEAN : decide_exception(r, approved)
        \/ confirm_deposit(r) \/ waive_deposit(r)
        \/ \E day \in Past : activate_reservation(r, day)
        \/ \E expires \in Days, day \in Past : extend_reservation(r, expires, day)
        \/ read_for_expiry(r)
        \/ \E day \in Past : expire_reservation(r, day)
        \/ \E day \in Past : cancel_reservation(r, day)
        \/ \E lock \in Days, breach \in Breaches : requote_reservation(r, lock, breach)

SaleNext ==
    \E s \in Sales :
        \/ \E r \in Reservations, gated \in BOOLEAN : create_sale(s, r, gated)
        \/ \E gated \in BOOLEAN : update_sale(s, gated)
        \/ \E day \in Past : submit_sale(s, day)
        \/ confirm_first_payment(s) \/ waive_first_payment(s)
        \/ record_signatures(s) \/ reverse_signature(s)
        \/ \E day \in Past : activate_sale(s, day)
        \/ start_cancellation(s) \/ withdraw_cancellation(s)
        \/ \E day \in Past : complete_cancellation(s, day)

Next == NextDay \/ InventoryNext \/ ReservationNext \/ SaleNext

Spec == Init /\ [][Next]_vars

-----------------------------------------------------------------------------
(* Properties *)

\* Every row has its columns' types; the bounds hold.  (models.py)
TypeOK ==
    /\ today \in Days
    /\ unit \in [Units -> UnitRow]
    /\ reservation \in [Reservations -> ReservationRow]
    /\ sale \in [Sales -> SaleRow]
    /\ expiring \subseteq Reservations
    /\ dated \in [Units -> Days]
    /\ moved \in [Reservations -> Days]

\* A commitment is exclusive: one live reservation or one live contract holds a
\* unit, never two and never one of each, although they live in two tables.
\* (_require_no_commitment; docs/ARCHITECTURE.md "A commitment is exclusive")
ExclusiveCommitment ==
    \A u \in Units :
        /\ \A r, q \in ReservationsOn(u) : r = q
        /\ \A s, t \in ContractsOn(u) : s = t
        /\ ReservationsOn(u) = {} \/ ContractsOn(u) = {}

\* A live contract that was never activated, under cancellation or not.
Unsigned(s) ==
    \/ sale[s].status = "signature_pending"
    \/ sale[s].status = "termination_pending" /\ ~sale[s].activated

\* The column inventory owns says what the two sales tables say: the unit is
\* reserved, in contract or contracted exactly while such a record holds it.
StatusFollowsHolder ==
    \A u \in Units :
        /\ (unit[u].commercial_status = "reserved") = (ReservationsOn(u) # {})
        /\ (unit[u].commercial_status = "contract_pending")
              = (\E s \in ContractsOn(u) : Unsigned(s))
        /\ (unit[u].commercial_status = "contracted")
              = (\E s \in ContractsOn(u) : ~Unsigned(s))

\* The release gate is never open on a price that does not describe the unit:
\* whatever moves the basis withdraws the approval in the same transaction.
\* (invalidate_pricing; activate_price_version)
ApprovedPriceDescribesUnit ==
    \A u \in Units : unit[u].pricing_approved => BasisCurrent(u, ActivePrice(u))

\* A contract is drawn on the very quote its reservation holds, through every
\* re-quote; an approval covers the quote the approver saw and no later one; and a
\* contract past its draft rests on a quote whose exception is settled.
\* (_refresh_draft_terms, _freeze_quote, submit_sale, _require_open_exception)
ContractMatchesQuote ==
    /\ \A s \in Sales :
          /\ sale[s].status \notin {"none", "cancelled"}
                => sale[s].quote = reservation[sale[s].reservation].quote
          /\ Contracting(s) => /\ reservation[sale[s].reservation].status = "converted"
                               /\ ExceptionSettled(sale[s].reservation)
    /\ \A r \in Reservations :
          reservation[r].exception = "approved"
             => reservation[r].sanctioned = reservation[r].quote

\* No unit is stranded: whoever holds it, an operator has a move that takes it
\* on, so no sequence of legal calls leaves a unit nobody can sell or release.
NoUnitStranded ==
    \A u \in Units :
        /\ unit[u].commercial_status = "reserved"
              => \E r \in ReservationsOn(u), day \in Past : ENABLED cancel_reservation(r, day)
        /\ unit[u].commercial_status \in {"contract_pending", "contracted"}
              => \E s \in ContractsOn(u) : \/ ENABLED start_cancellation(s)
                                           \/ \E day \in Past :
                                                 ENABLED complete_cancellation(s, day)

\* What a buyer agreed is frozen: once a contract is submitted neither its terms
\* nor the quote it rests on ever changes, and no new one is drawn from it.
SubmittedTermsFrozen ==
    [][\A s \in Sales : Contracting(s) =>
          /\ sale'[s].quote = sale[s].quote
          /\ LET r == sale[s].reservation IN
                /\ sale'[s].reservation = r
                /\ reservation'[r].quote = reservation[r].quote
                /\ reservation'[r].version = reservation[r].version]_vars

\* A unit is only taken, by a reservation or by a contract, at a price cut from
\* the unit as it is at that moment, never under geometry since re-measured.
\* (_require_live_quote, _require_locked_quote_still_sellable)
TakenAsPriced ==
    [][/\ \A r \in Reservations :
             ~Committed(r) /\ Committed(r)' =>
                BasisCurrent(reservation[r].unit, reservation[r].version)'
       /\ \A s \in Sales :
             ~Contracting(s) /\ Contracting(s)' =>
                BasisCurrent(SaleUnit(s), reservation[sale[s].reservation].version)']_vars

\* Five doors lead to the market and all of them pass the same gate: a unit that
\* becomes available is in use, its price approved, its release date arrived by
\* the day its own event carries.  That day may lie ahead, so the gate is asked
\* once more of whoever takes the unit: nobody reserves it before its release
\* date, nor before the day its last event takes effect.
\* (release_blockers, behind transition_commercial_status, release_due,
\* update_release_controls, _release_or_hold, return_unit_to_market and
\* activate_reservation)
MarketOnlyThroughGate ==
    [][\A u \in Units :
          /\ unit[u].commercial_status # "available" /\ unit'[u].commercial_status = "available"
                => ReleasableOn(u, dated[u])'
          /\ unit[u].commercial_status # "reserved" /\ unit'[u].commercial_status = "reserved"
                => Releasable(u) /\ dated[u] <= today]_vars

\* "Close a reservation that has run past its expiry date" (expire_reservation):
\* a reservation that becomes expired is past its date when it does.
ExpiredOnlyPastDate ==
    [][\A r \in Reservations :
          reservation[r].status # "expired" /\ reservation'[r].status = "expired"
             => reservation[r].expires_on < today]_vars
=============================================================================
