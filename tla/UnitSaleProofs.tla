--------------------------- MODULE UnitSaleProofs ---------------------------
(***************************************************************************)
(* What UnitSale guarantees for every set of units, reservations and       *)
(* contracts, and for every bound.                                         *)
(***************************************************************************)
EXTENDS UnitSaleRefinement, TLAPS

USE DEF Days, Never, history

-----------------------------------------------------------------------------
(* The operations whose caller dates them, whatever the day they are given *)

Transitions(u, to) == \E day \in Days : transition_commercial_status(u, to, day)
Activates(r) == \E day \in Past : activate_reservation(r, day)
Extends(r, expires) == \E day \in Past : extend_reservation(r, expires, day)
Closes(r, to) == \E day \in Past : close_reservation(r, to, day)
Expires(r) == \E day \in Past : expire_reservation(r, day)
Cancels(r) == \E day \in Past : cancel_reservation(r, day)
Submits(s) == \E day \in Past : submit_sale(s, day)
Signs(s) == \E day \in Past : activate_sale(s, day)
Completes(s) == \E day \in Past : complete_cancellation(s, day)

-----------------------------------------------------------------------------
(* The inductive invariant: which record holds which unit *)

\* A row in use refers to rows in use, and activated_at is set by activation.
Links ==
    /\ \A r \in Reservations :
          reservation[r].status # "none" => reservation[r].unit \in Units
    /\ \A s \in Sales :
          /\ sale[s].status # "none" =>
                /\ sale[s].reservation \in Reservations
                /\ reservation[sale[s].reservation].status # "none"
          /\ sale[s].status = "active" => sale[s].activated
          /\ sale[s].status \in {"none", "draft", "signature_pending"} => ~sale[s].activated

\* The two commitment tables and the unit's column, read one against the other.
Holding ==
    /\ \A r, q \in Reservations :
          Committed(r) /\ Committed(q) /\ reservation[r].unit = reservation[q].unit => r = q
    /\ \A s, t \in Sales :
          Contracting(s) /\ Contracting(t) /\ SaleUnit(s) = SaleUnit(t) => s = t
    /\ \A r \in Reservations :
          Committed(r) => unit[reservation[r].unit].commercial_status = "reserved"
    /\ \A s \in Sales :
          Contracting(s) => unit[SaleUnit(s)].commercial_status =
                               IF Unsigned(s) THEN "contract_pending" ELSE "contracted"
    /\ \A u \in Units :
          unit[u].commercial_status = "reserved"
             => \E r \in Reservations : Committed(r) /\ reservation[r].unit = u
    /\ \A u \in Units :
          unit[u].commercial_status \in {"contract_pending", "contracted"}
             => \E s \in Sales : Contracting(s) /\ SaleUnit(s) = u

Inv == TypeOK /\ Links /\ Holding

-----------------------------------------------------------------------------
(* Type correctness *)

\* TypeOK, without the dates the status histories end on.
Rows ==
    /\ today \in Days
    /\ unit \in [Units -> UnitRow]
    /\ reservation \in [Reservations -> ReservationRow]
    /\ sale \in [Sales -> SaleRow]
    /\ expiring \subseteq Reservations

\* A quote frozen into a well-typed row leaves a well-typed row.
LEMMA FreezeQuoteType ==
    ASSUME NEW row \in ReservationRow, NEW u \in Units, NEW requote \in BOOLEAN,
           NEW breach \in BOOLEAN, unit \in [Units -> UnitRow]
    PROVE  FreezeQuote(row, u, requote, breach) \in ReservationRow
<1>1. unit[u].prices \in Seq(Bases)
  BY DEF UnitRow
<1>2. ActivePrice(u) \in Nat
  BY <1>1 DEF ActivePrice
<1> DEFINE v == IF PinnedQuote(row, requote) THEN row.version ELSE ActivePrice(u)
           x == IF breach THEN "pending" ELSE "not_required"
<1>3. v \in Nat
  BY <1>2 DEF ReservationRow
<1>4. x \in Exceptions
  BY DEF Exceptions
<1>5. row.quote + 1 \in Nat
  BY DEF ReservationRow
<1> HIDE DEF v, x
<1>6. [row EXCEPT !.version = v, !.quote = row.quote + 1,
                  !.exception = x, !.sanctioned = 0] \in ReservationRow
  BY <1>3, <1>4, <1>5 DEF ReservationRow
<1> QED
  BY <1>6 DEF FreezeQuote, v, x

LEMMA BreachesType == Breaches \subseteq BOOLEAN
BY DEF Breaches

LEMMA InitType == Init => TypeOK
<1> SUFFICES ASSUME Init PROVE TypeOK
  OBVIOUS
<1>1. today \in Days
  BY UnitSaleAssumption DEF Init
<1>2. unit \in [Units -> UnitRow]
  <2>1. SUFFICES ASSUME NEW u \in Units PROVE unit[u] \in UnitRow
    BY <2>1 DEF Init
  <2>2. PICK b \in Bases :
          unit[u] = [commercial_status |-> "unreleased", standing |-> "active",
                     pricing_approved |-> FALSE, basis |-> b, prices |-> <<>>,
                     release_date |-> Never]
    BY DEF Init
  <2>3. <<>> \in Seq(Bases)
    OBVIOUS
  <2> QED
    BY <2>2, <2>3, UnitSaleAssumption DEF UnitRow, CommercialStatuses
<1>3. reservation \in [Reservations -> ReservationRow]
  BY UnitSaleAssumption DEF Init, NoReservation, ReservationRow, ReservationStatuses,
     Exceptions, Gates
<1>4. sale \in [Sales -> SaleRow]
  BY DEF Init, NoSale, SaleRow, SaleStatuses, Gates
<1> QED
  BY <1>1, <1>2, <1>3, <1>4 DEF Init, TypeOK

LEMMA SetCommercialType ==
    ASSUME unit \in [Units -> UnitRow], NEW u, NEW to \in CommercialStatuses,
           SetCommercial(u, to)
    PROVE  unit' \in [Units -> UnitRow]
BY DEF SetCommercial, UnitRow

LEMMA InventoryType == TypeOK /\ InventoryNext => Rows'
<1> SUFFICES ASSUME TypeOK, InventoryNext PROVE Rows'
  OBVIOUS
<1> USE DEF TypeOK, Rows
<1>u. PICK u \in Units :
        \/ activate_price_version(u)
        \/ \E b \in Bases : update_unit(u, b) \/ approve_area_schedule(u, b)
        \/ deactivate_unit(u) \/ reactivate_unit(u)
        \/ remove_unit(u) \/ restore_unit(u)
        \/ \E to \in CommercialStatuses : Transitions(u, to)
        \/ \E day \in 0..Never : update_release_controls(u, day)
        \/ release_due(u)
        \/ return_unit_to_market(u)
  BY DEF InventoryNext, Transitions
<1>1. CASE activate_price_version(u)
  <2>1. Append(unit[u].prices, unit[u].basis) \in Seq(Bases)
    BY DEF UnitRow
  <2> QED
    BY ZenonT(40), <1>1, <2>1 DEF activate_price_version, UnitRow
<1>2. CASE \E b \in Bases : update_unit(u, b) \/ approve_area_schedule(u, b)
  <2>1. ASSUME NEW b \in Bases, update_unit(u, b) PROVE Rows'
    BY ZenonT(40), <2>1 DEF update_unit, UnitRow
  <2>2. ASSUME NEW b \in Bases, approve_area_schedule(u, b) PROVE Rows'
    BY ZenonT(40), <2>2 DEF approve_area_schedule, UnitRow
  <2> QED
    BY <1>2, <2>1, <2>2
<1>3. CASE deactivate_unit(u) \/ reactivate_unit(u)
  <2>1. CASE deactivate_unit(u)
    BY ZenonT(40), <2>1 DEF deactivate_unit, UnitRow
  <2>2. CASE reactivate_unit(u)
    BY ZenonT(40), <2>2 DEF reactivate_unit, UnitRow
  <2> QED
    BY <1>3, <2>1, <2>2
<1>4. CASE remove_unit(u) \/ restore_unit(u)
  <2>1. CASE remove_unit(u)
    BY <2>1 DEF remove_unit, UnitRow
  <2>2. CASE restore_unit(u)
    BY <2>2 DEF restore_unit, UnitRow
  <2> QED
    BY <1>4, <2>1, <2>2
<1>5. CASE \E to \in CommercialStatuses : Transitions(u, to)
  BY <1>5, SetCommercialType DEF Transitions, transition_commercial_status
<1>6. CASE \E day \in 0..Never : update_release_controls(u, day)
  <2>1. PICK day \in 0..Never : update_release_controls(u, day)
    BY <1>6
  <2>2. PICK to \in CommercialStatuses :
          unit' = [unit EXCEPT ![u].release_date = day, ![u].commercial_status = to]
    <3>1. unit[u].commercial_status \in CommercialStatuses
      BY DEF UnitRow
    <3> QED
      BY <2>1, <3>1 DEF update_release_controls, CommercialStatuses
  <2>3. unit' \in [Units -> UnitRow]
    BY ZenonT(40), <2>2 DEF UnitRow
  <2> QED
    BY <2>1, <2>3 DEF update_release_controls
<1>7. CASE release_due(u) \/ return_unit_to_market(u)
  BY <1>7, SetCommercialType DEF release_due, return_unit_to_market, CommercialStatuses
<1> QED
  BY <1>u, <1>1, <1>2, <1>3, <1>4, <1>5, <1>6, <1>7

LEMMA ReservationType == TypeOK /\ Links /\ ReservationNext => Rows'
<1> SUFFICES ASSUME TypeOK, Links, ReservationNext PROVE Rows'
  OBVIOUS
<1> USE DEF TypeOK, Rows
<1>r. PICK r \in Reservations :
        \/ \E u \in Units, expires, lock \in Days, target \in BOOLEAN, breach \in Breaches :
              create_reservation(r, u, expires, lock, target, breach)
        \/ \E expires \in Days : update_reservation(r, expires)
        \/ \E breach \in Breaches : revise_quote(r, breach)
        \/ submit_exception(r)
        \/ \E approved \in BOOLEAN : decide_exception(r, approved)
        \/ confirm_deposit(r) \/ waive_deposit(r)
        \/ Activates(r)
        \/ \E expires \in Days : Extends(r, expires)
        \/ read_for_expiry(r) \/ Expires(r)
        \/ Cancels(r)
        \/ \E lock \in Days, breach \in Breaches : requote_reservation(r, lock, breach)
  BY DEF ReservationNext, Activates, Extends, Expires, Cancels
<1>1. ASSUME NEW u \in Units, NEW expires \in Days, NEW lock \in Days,
             NEW target \in BOOLEAN, NEW breach \in Breaches,
             create_reservation(r, u, expires, lock, target, breach)
      PROVE  Rows'
  <2> DEFINE row == [NoReservation EXCEPT
                     !.status = IF DepositGate THEN "deposit_pending" ELSE "draft",
                     !.unit = u, !.expires_on = expires,
                     !.price_locked_until = lock, !.target = target,
                     !.gate = IF DepositGate THEN "pending" ELSE "not_required"]
  <2>1. row \in ReservationRow
    BY UnitSaleAssumption DEF NoReservation, ReservationRow, ReservationStatuses,
       ReservationPreparing, Exceptions, Gates
  <2> HIDE DEF row
  <2>2. FreezeQuote(row, u, FALSE, breach) \in ReservationRow
    BY <2>1, BreachesType, FreezeQuoteType
  <2>3. reservation' = [reservation EXCEPT ![r] = FreezeQuote(row, u, FALSE, breach)]
    BY <1>1 DEF create_reservation, row
  <2> QED
    BY <1>1, <2>2, <2>3 DEF create_reservation
<1>2. CASE \E expires \in Days : update_reservation(r, expires)
  BY <1>2 DEF update_reservation, ReservationRow
<1>3. ASSUME NEW breach \in Breaches, revise_quote(r, breach)
      PROVE  Rows'
  <2>1. reservation[r].unit \in Units
    BY <1>3 DEF revise_quote, ReservationPreparing, Links
  <2> QED
    BY <1>3, <2>1, FreezeQuoteType, BreachesType DEF revise_quote
<1>4. CASE submit_exception(r) \/ \E approved \in BOOLEAN : decide_exception(r, approved)
  <2>1. CASE submit_exception(r)
    BY <2>1 DEF submit_exception, ReservationRow, Exceptions
  <2>2. ASSUME NEW approved \in BOOLEAN, decide_exception(r, approved)
        PROVE  Rows'
    <3>1. PICK x \in Exceptions :
            reservation' = [reservation EXCEPT ![r].exception = x,
                                               ![r].sanctioned = reservation[r].quote]
      BY <2>2 DEF decide_exception, Exceptions
    <3>2. reservation' \in [Reservations -> ReservationRow]
      BY ZenonT(40), <3>1 DEF ReservationRow
    <3> QED
      BY <2>2, <3>2 DEF decide_exception
  <2> QED
    BY <1>4, <2>1, <2>2
<1>5. CASE confirm_deposit(r) \/ waive_deposit(r)
  <2>1. PICK how \in Gates : SettleDeposit(r, how)
    BY <1>5 DEF confirm_deposit, waive_deposit, Gates
  <2> QED
    BY <2>1 DEF SettleDeposit, ReservationRow
<1>6. CASE Activates(r)
  <2>1. SetCommercial(reservation[r].unit, "reserved")
    BY <1>6 DEF Activates, activate_reservation
  <2>2. unit' \in [Units -> UnitRow]
    BY <2>1, SetCommercialType DEF CommercialStatuses
  <2> QED
    BY <1>6, <2>2 DEF Activates, activate_reservation, ReservationRow, ReservationStatuses,
       ReservationCommitted
<1>7. CASE \E expires \in Days : Extends(r, expires)
  <2>1. PICK expires \in Days : Extends(r, expires)
    BY <1>7
  <2>2. "extended" \in ReservationStatuses
    BY DEF ReservationStatuses, ReservationCommitted
  <2>3. reservation' \in [Reservations -> ReservationRow]
    <3>1. reservation' = [reservation EXCEPT ![r].expires_on = expires,
                                             ![r].status = "extended"]
      BY <2>1 DEF Extends, extend_reservation
    <3> QED
      <4>1. [reservation[r] EXCEPT !.expires_on = expires, !.status = "extended"]
               \in ReservationRow
        BY <2>2 DEF ReservationRow
      <4> QED
        BY <3>1, <4>1
  <2> QED
    BY <2>1, <2>3 DEF Extends, extend_reservation
<1>8. ASSUME NEW to \in {"expired", "cancelled"}, Closes(r, to)
      PROVE  /\ today' \in Days
             /\ unit' \in [Units -> UnitRow]
             /\ reservation' \in [Reservations -> ReservationRow]
             /\ sale' \in [Sales -> SaleRow]
  <2>1. today' \in Days
    BY <1>8 DEF Closes, close_reservation
  <2>2. unit' \in [Units -> UnitRow]
    BY <1>8, SetCommercialType DEF Closes, close_reservation, CommercialStatuses
  <2>3. reservation' \in [Reservations -> ReservationRow]
    BY <1>8 DEF Closes, close_reservation, ReservationRow, ReservationStatuses
  <2>4. sale' \in [Sales -> SaleRow]
    BY <1>8 DEF Closes, close_reservation, SaleRow, SaleStatuses
  <2> QED
    BY <2>1, <2>2, <2>3, <2>4
<1>9. CASE read_for_expiry(r) \/ Expires(r) \/ Cancels(r)
  <2>1. CASE read_for_expiry(r)
    BY <2>1 DEF read_for_expiry
  <2>2. CASE Expires(r)
    BY <1>8, <2>2 DEF Expires, Closes, expire_reservation
  <2>3. CASE Cancels(r)
    BY <1>8, <2>3 DEF Cancels, Closes, cancel_reservation
  <2> QED
    BY <1>9, <2>1, <2>2, <2>3
<1>10. ASSUME NEW lock \in Days, NEW breach \in Breaches,
              requote_reservation(r, lock, breach)
       PROVE  Rows'
  <2> DEFINE u == reservation[r].unit
             row == FreezeQuote(reservation[r], u, TRUE, breach)
  <2>1. row \in ReservationRow
    <3>1. u \in Units
      BY <1>10 DEF requote_reservation, Committed, ReservationCommitted, Links
    <3> HIDE DEF u
    <3>2. reservation[r] \in ReservationRow
      OBVIOUS
    <3> QED
      BY <3>1, <3>2, FreezeQuoteType, BreachesType
  <2>2. reservation' = [reservation EXCEPT ![r] = [row EXCEPT !.price_locked_until = lock]]
    BY <1>10 DEF requote_reservation
  <2>3. sale' = [s \in Sales |-> IF s \in ContractOf(r)
                                 THEN [sale[s] EXCEPT !.quote = row.quote]
                                 ELSE sale[s]]
    BY <1>10 DEF requote_reservation
  <2> HIDE DEF row
  <2>4. reservation' \in [Reservations -> ReservationRow]
    BY <2>1, <2>2 DEF ReservationRow
  <2>5. sale' \in [Sales -> SaleRow]
    <3>1. row.quote \in Nat
      BY <2>1 DEF ReservationRow
    <3>2. ASSUME NEW s \in Sales PROVE [sale[s] EXCEPT !.quote = row.quote] \in SaleRow
      BY <3>1 DEF SaleRow
    <3> QED
      BY <2>3, <3>2
  <2> QED
    BY <1>10, <2>4, <2>5 DEF requote_reservation
<1> QED
  BY <1>r, <1>1, <1>2, <1>3, <1>4, <1>5, <1>6, <1>7, <1>9, <1>10

LEMMA SaleType == TypeOK /\ SaleNext => Rows'
<1> SUFFICES ASSUME TypeOK, SaleNext PROVE Rows'
  OBVIOUS
<1> USE DEF TypeOK, Rows
<1>s. PICK s \in Sales :
        \/ \E r \in Reservations, gated \in BOOLEAN : create_sale(s, r, gated)
        \/ \E gated \in BOOLEAN : update_sale(s, gated)
        \/ Submits(s)
        \/ confirm_first_payment(s) \/ waive_first_payment(s)
        \/ record_signatures(s) \/ reverse_signature(s)
        \/ Signs(s)
        \/ start_cancellation(s) \/ withdraw_cancellation(s)
        \/ Completes(s)
  BY DEF SaleNext, Submits, Signs, Completes
<1>1. CASE \E r \in Reservations, gated \in BOOLEAN : create_sale(s, r, gated)
  <2>1. PICK r \in Reservations, gated \in BOOLEAN : create_sale(s, r, gated)
    BY <1>1
  <2> DEFINE gate == IF gated THEN "pending" ELSE "not_required"
             row == [NoSale EXCEPT !.status = "draft", !.reservation = r,
                                   !.quote = reservation[r].quote, !.gate = gate]
  <2>2. gate \in Gates /\ reservation[r].quote \in Nat /\ "draft" \in SaleStatuses
    BY DEF Gates, ReservationRow, SaleStatuses
  <2>3. row \in SaleRow
    <3> HIDE DEF gate
    <3> QED
      BY <2>2 DEF NoSale, SaleRow
  <2> QED
    BY <2>1, <2>3 DEF create_sale
<1>2. CASE \E gated \in BOOLEAN : update_sale(s, gated)
  BY <1>2 DEF update_sale, SaleRow, Gates
<1>3. CASE Submits(s)
  <2>1. unit' \in [Units -> UnitRow]
    BY <1>3, SetCommercialType DEF Submits, submit_sale, CommercialStatuses
  <2>2. reservation' \in [Reservations -> ReservationRow]
    <3>1. "converted" \in ReservationStatuses
      BY DEF ReservationStatuses
    <3>2. reservation' = [reservation EXCEPT ![sale[s].reservation].status = "converted"]
      BY <1>3 DEF Submits, submit_sale
    <3>3. \A q \in Reservations : [reservation[q] EXCEPT !.status = "converted"] \in ReservationRow
      BY <3>1 DEF ReservationRow
    <3> QED
      BY <3>1, <3>2, <3>3 DEF ReservationRow
  <2>3. sale' \in [Sales -> SaleRow]
    <3>1. "signature_pending" \in SaleStatuses
      BY DEF SaleStatuses, SaleCommitted
    <3> QED
      BY <1>3, <3>1 DEF Submits, submit_sale, SaleRow
  <2> QED
    BY <1>3, <2>1, <2>2, <2>3 DEF Submits, submit_sale
<1>4. CASE confirm_first_payment(s) \/ waive_first_payment(s)
  BY <1>4 DEF confirm_first_payment, waive_first_payment, SettleFirstPayment, SaleRow, Gates
<1>5. CASE record_signatures(s) \/ reverse_signature(s)
  <2>1. CASE record_signatures(s)
    BY <2>1 DEF record_signatures, SaleRow
  <2>2. CASE reverse_signature(s)
    BY <2>2 DEF reverse_signature, SaleRow
  <2> QED
    BY <1>5, <2>1, <2>2
<1>6. CASE Signs(s)
  <2>1. unit' \in [Units -> UnitRow]
    BY <1>6, SetCommercialType DEF Signs, activate_sale, CommercialStatuses
  <2>2. sale' \in [Sales -> SaleRow]
    <3>1. "active" \in SaleStatuses
      BY DEF SaleStatuses, SaleCommitted
    <3>2. sale' = [sale EXCEPT ![s].status = "active", ![s].activated = TRUE]
      BY <1>6 DEF Signs, activate_sale
    <3> QED
      BY <3>1, <3>2 DEF SaleRow
  <2> QED
    BY <1>6, <2>1, <2>2 DEF Signs, activate_sale
<1>7. CASE start_cancellation(s) \/ withdraw_cancellation(s)
  BY <1>7 DEF start_cancellation, withdraw_cancellation, SaleRow, SaleStatuses, SaleCommitted
<1>8. CASE Completes(s)
  <2>1. unit' \in [Units -> UnitRow]
    <3>1. unit' = [unit EXCEPT ![SaleUnit(s)].commercial_status = "returned",
                               ![SaleUnit(s)].pricing_approved = FALSE]
      BY <1>8 DEF Completes, complete_cancellation
    <3>2. \A v \in Units : [unit[v] EXCEPT !.commercial_status = "returned",
                                           !.pricing_approved = FALSE] \in UnitRow
      BY DEF UnitRow, CommercialStatuses
    <3> QED
      BY <3>1, <3>2
  <2>2. sale' \in [Sales -> SaleRow]
    BY <1>8 DEF Completes, complete_cancellation, SaleRow, SaleStatuses
  <2> QED
    BY <1>8, <2>1, <2>2 DEF Completes, complete_cancellation
<1> QED
  BY <1>s, <1>1, <1>2, <1>3, <1>4, <1>5, <1>6, <1>7, <1>8

-----------------------------------------------------------------------------
(* The status histories *)

\* What an operation writes into the two histories: nothing, one unit's event
\* while the unit is nobody's, or what it dates today or earlier.
HistoryStep ==
    \/ UNCHANGED <<dated, moved>>
    \/ \E u \in Units, day \in Days :
          /\ dated' = [dated EXCEPT ![u] = day] /\ UNCHANGED moved
          /\ unit'[u].commercial_status \in {"unreleased", "held", "available"}
    \/ \E day \in Past :
          /\ dated' = dated \/ \E u \in Units : dated' = [dated EXCEPT ![u] = day]
          /\ moved' = moved \/ \E r \in Reservations : moved' = [moved EXCEPT ![r] = day]

LEMMA InventoryHistory ==
    ASSUME TypeOK, InventoryNext
    PROVE  HistoryStep
<1> USE DEF TypeOK, HistoryStep, Past
<1>u. PICK u \in Units :
        \/ activate_price_version(u)
        \/ \E b \in Bases : update_unit(u, b) \/ approve_area_schedule(u, b)
        \/ deactivate_unit(u) \/ reactivate_unit(u)
        \/ remove_unit(u) \/ restore_unit(u)
        \/ \E to \in CommercialStatuses, day \in Days :
              transition_commercial_status(u, to, day)
        \/ \E day \in 0..Never : update_release_controls(u, day)
        \/ release_due(u)
        \/ return_unit_to_market(u)
  BY DEF InventoryNext
<1>1. CASE \/ activate_price_version(u)
           \/ \E b \in Bases : update_unit(u, b) \/ approve_area_schedule(u, b)
           \/ deactivate_unit(u) \/ reactivate_unit(u)
           \/ remove_unit(u) \/ restore_unit(u)
  BY <1>1 DEF activate_price_version, update_unit, approve_area_schedule,
     deactivate_unit, reactivate_unit, remove_unit, restore_unit
<1>2. ASSUME NEW to \in CommercialStatuses, NEW day \in Days,
             transition_commercial_status(u, to, day)
      PROVE  HistoryStep
  <2>1. dated' = [dated EXCEPT ![u] = day] /\ UNCHANGED moved
    BY <1>2 DEF transition_commercial_status, UnitEvent
  <2>2. to \in {"unreleased", "held", "available"} /\ unit'[u].commercial_status = to
    BY <1>2 DEF transition_commercial_status, InventoryMoves, SetCommercial, UnitRow
  <2> QED
    BY <2>1, <2>2
<1>3. ASSUME NEW release \in Days, release <= today, ReleaseEvent(u, release), UNCHANGED moved,
             unit'[u].commercial_status = "available"
      PROVE  HistoryStep
  <2>1. dated[u] \in Days
    OBVIOUS
  <2>2. PICK day \in Days : dated' = [dated EXCEPT ![u] = day]
    BY <1>3, <2>1 DEF ReleaseEvent, UnitEvent
  <2> QED
    BY <1>3, <2>2
<1>4. ASSUME NEW day \in 0..Never, update_release_controls(u, day)
      PROVE  HistoryStep
  <2> DEFINE due == /\ unit[u].commercial_status \in {"unreleased", "held"}
                    /\ unit[u].standing = "active"
                    /\ unit[u].pricing_approved
                    /\ day <= today
  <2>1. CASE ~due
    BY <1>4, <2>1 DEF update_release_controls
  <2>2. CASE due
    <3>1. day \in Days
      BY <2>2, UnitSaleAssumption
    <3>2. ReleaseEvent(u, day) /\ UNCHANGED moved
      BY <1>4, <2>2 DEF update_release_controls
    <3>3. unit' = [unit EXCEPT ![u].release_date = day, ![u].commercial_status = "available"]
      BY <1>4, <2>2 DEF update_release_controls
    <3>4. unit'[u].commercial_status = "available"
      BY <3>3 DEF UnitRow
    <3> QED
      BY <1>3, <2>2, <3>1, <3>2, <3>4
  <2> QED
    BY <2>1, <2>2
<1>5. CASE release_due(u)
  <2>1. unit[u].release_date \in Days /\ unit[u].release_date <= today
    BY <1>5, UnitSaleAssumption DEF release_due, Releasable, ReleasableOn, UnitRow
  <2>2. unit'[u].commercial_status = "available"
    BY <1>5 DEF release_due, SetCommercial, UnitRow
  <2>3. ReleaseEvent(u, unit[u].release_date) /\ UNCHANGED moved
    BY <1>5 DEF release_due
  <2> QED
    BY <1>3, <2>1, <2>2, <2>3
<1>6. CASE return_unit_to_market(u)
  <2>1. UnitEvent(u, today) /\ UNCHANGED moved
    BY <1>6 DEF return_unit_to_market
  <2>2. dated' = [dated EXCEPT ![u] = today] /\ moved' = moved
    BY <2>1 DEF UnitEvent
  <2>3. today \in Past
    BY UnitSaleAssumption DEF Past, Days
  <2> QED
    BY <2>2, <2>3
<1> QED
  BY <1>u, <1>1, <1>2, <1>4, <1>5, <1>6

LEMMA ReservationHistory ==
    ASSUME TypeOK, Links, ReservationNext
    PROVE  HistoryStep
<1> USE DEF HistoryStep
<1>r. PICK r \in Reservations :
        \/ \E u \in Units, expires, lock \in Days, target \in BOOLEAN, breach \in Breaches :
              create_reservation(r, u, expires, lock, target, breach)
        \/ \E expires \in Days : update_reservation(r, expires)
        \/ \E breach \in Breaches : revise_quote(r, breach)
        \/ submit_exception(r)
        \/ \E approved \in BOOLEAN : decide_exception(r, approved)
        \/ confirm_deposit(r) \/ waive_deposit(r)
        \/ \E day \in Past : activate_reservation(r, day)
        \/ \E expires \in Days, day \in Past : extend_reservation(r, expires, day)
        \/ read_for_expiry(r)
        \/ \E day \in Past : expire_reservation(r, day)
        \/ \E day \in Past : cancel_reservation(r, day)
        \/ \E lock \in Days, breach \in Breaches : requote_reservation(r, lock, breach)
  BY DEF ReservationNext
<1>0. reservation[r].status # "none" => reservation[r].unit \in Units
  BY DEF Links
<1>1. ASSUME NEW to, NEW day \in Past, close_reservation(r, to, day)
      PROVE  HistoryStep
  <2>1. reservation[r].unit \in Units
    BY <1>0, <1>1 DEF close_reservation, MayClose, Committed, ReservationCommitted,
       ReservationPreparing
  <2>2. moved' = [moved EXCEPT ![r] = day]
    BY <1>1 DEF close_reservation, ReservationEvent
  <2>3. dated' = dated \/ dated' = [dated EXCEPT ![reservation[r].unit] = day]
    BY <1>1 DEF close_reservation, UnitEvent
  <2> QED
    BY <2>1, <2>2, <2>3
<1>2. ASSUME NEW day \in Past, activate_reservation(r, day)
      PROVE  HistoryStep
  <2>1. reservation[r].unit \in Units
    BY <1>0, <1>2 DEF activate_reservation, ReservationPreparing
  <2> QED
    BY <1>2, <2>1 DEF activate_reservation, ReservationEvent, UnitEvent
<1>3. CASE \E expires \in Days, day \in Past : extend_reservation(r, expires, day)
  BY <1>3 DEF extend_reservation, ReservationEvent
<1>4. CASE \E day \in Past : expire_reservation(r, day)
  BY <1>1, <1>4 DEF expire_reservation
<1>5. CASE \E day \in Past : cancel_reservation(r, day)
  BY <1>1, <1>5 DEF cancel_reservation
<1>6. CASE \/ \E u \in Units, expires, lock \in Days, target \in BOOLEAN, breach \in Breaches :
                 create_reservation(r, u, expires, lock, target, breach)
           \/ \E expires \in Days : update_reservation(r, expires)
           \/ \E breach \in Breaches : revise_quote(r, breach)
           \/ submit_exception(r)
           \/ \E approved \in BOOLEAN : decide_exception(r, approved)
           \/ confirm_deposit(r) \/ waive_deposit(r) \/ read_for_expiry(r)
           \/ \E lock \in Days, breach \in Breaches : requote_reservation(r, lock, breach)
  BY <1>6 DEF create_reservation, update_reservation, revise_quote, submit_exception,
     decide_exception, confirm_deposit, waive_deposit, SettleDeposit, read_for_expiry,
     requote_reservation
<1> QED
  BY <1>r, <1>2, <1>3, <1>4, <1>5, <1>6

LEMMA SaleHistory ==
    ASSUME TypeOK, Links, SaleNext
    PROVE  HistoryStep
<1> USE DEF HistoryStep
<1>s. PICK s \in Sales :
        \/ \E r \in Reservations, gated \in BOOLEAN : create_sale(s, r, gated)
        \/ \E gated \in BOOLEAN : update_sale(s, gated)
        \/ \E day \in Past : submit_sale(s, day)
        \/ confirm_first_payment(s) \/ waive_first_payment(s)
        \/ record_signatures(s) \/ reverse_signature(s)
        \/ \E day \in Past : activate_sale(s, day)
        \/ start_cancellation(s) \/ withdraw_cancellation(s)
        \/ \E day \in Past : complete_cancellation(s, day)
  BY DEF SaleNext
<1>0. sale[s].status # "none" =>
         sale[s].reservation \in Reservations /\ SaleUnit(s) \in Units
  BY DEF Links, SaleUnit
<1>1. ASSUME NEW day \in Past, submit_sale(s, day)
      PROVE  HistoryStep
  BY <1>0, <1>1 DEF submit_sale, ReservationEvent, UnitEvent
<1>2. ASSUME NEW day \in Past, activate_sale(s, day) \/ complete_cancellation(s, day)
      PROVE  HistoryStep
  BY <1>0, <1>2 DEF activate_sale, complete_cancellation, UnitEvent
<1>3. CASE \/ \E r \in Reservations, gated \in BOOLEAN : create_sale(s, r, gated)
           \/ \E gated \in BOOLEAN : update_sale(s, gated)
           \/ confirm_first_payment(s) \/ waive_first_payment(s)
           \/ record_signatures(s) \/ reverse_signature(s)
           \/ start_cancellation(s) \/ withdraw_cancellation(s)
  BY <1>3 DEF create_sale, update_sale, confirm_first_payment, waive_first_payment,
     SettleFirstPayment, record_signatures, reverse_signature, start_cancellation,
     withdraw_cancellation
<1> QED
  BY <1>s, <1>1, <1>2, <1>3

LEMMA HistorySteps ==
    ASSUME TypeOK, Links, [Next]_vars
    PROVE  HistoryStep
<1>1. CASE NextDay \/ UNCHANGED vars
  BY <1>1 DEF NextDay, vars, HistoryStep
<1> QED
  BY <1>1, InventoryHistory, ReservationHistory, SaleHistory DEF Next

\* The dates stay within the days considered.
LEMMA HistoryType ==
    ASSUME TypeOK, Links, [Next]_vars
    PROVE  dated' \in [Units -> Days] /\ moved' \in [Reservations -> Days]
<1>1. dated \in [Units -> Days] /\ moved \in [Reservations -> Days] /\ Past \subseteq Days
  BY DEF TypeOK, Past
<1> QED
  BY <1>1, HistorySteps DEF HistoryStep

-----------------------------------------------------------------------------
(* One holder for every unit *)

LEMMA CommittedUnit ==
    ASSUME Links, NEW r \in Reservations, Committed(r)
    PROVE  reservation[r].unit \in Units
BY DEF Links, Committed, ReservationCommitted

LEMMA ContractingUnit ==
    ASSUME Links, NEW s \in Sales, Contracting(s)
    PROVE  sale[s].reservation \in Reservations /\ SaleUnit(s) \in Units
BY DEF Links, Contracting, SaleCommitted, SaleUnit

\* Exclusiveness and agreement, as the component states them.
LEMMA HoldingImplies == Links /\ Holding => ExclusiveCommitment /\ StatusFollowsHolder
<1> SUFFICES ASSUME Links, Holding PROVE ExclusiveCommitment /\ StatusFollowsHolder
  OBVIOUS
<1>1. ASSUME NEW u \in Units, NEW s \in ContractsOn(u)
      PROVE  unit[u].commercial_status = IF Unsigned(s) THEN "contract_pending" ELSE "contracted"
  BY <1>1 DEF ContractsOn, Holding
<1>2. ASSUME NEW u \in Units, NEW r \in ReservationsOn(u)
      PROVE  unit[u].commercial_status = "reserved"
  BY <1>2 DEF ReservationsOn, Holding
<1>3. ExclusiveCommitment
  <2> SUFFICES ASSUME NEW u \in Units
               PROVE  /\ \A r, q \in ReservationsOn(u) : r = q
                      /\ \A s, t \in ContractsOn(u) : s = t
                      /\ ReservationsOn(u) = {} \/ ContractsOn(u) = {}
    BY DEF ExclusiveCommitment
  <2>1. \A r, q \in ReservationsOn(u) : r = q
    BY DEF ReservationsOn, Holding
  <2>2. \A s, t \in ContractsOn(u) : s = t
    BY DEF ContractsOn, Holding
  <2>3. ReservationsOn(u) = {} \/ ContractsOn(u) = {}
    BY <1>1, <1>2
  <2> QED
    BY <2>1, <2>2, <2>3
<1>4. StatusFollowsHolder
  <2> SUFFICES ASSUME NEW u \in Units
               PROVE  /\ (unit[u].commercial_status = "reserved") = (ReservationsOn(u) # {})
                      /\ (unit[u].commercial_status = "contract_pending")
                            = (\E s \in ContractsOn(u) : Unsigned(s))
                      /\ (unit[u].commercial_status = "contracted")
                            = (\E s \in ContractsOn(u) : ~Unsigned(s))
    BY DEF StatusFollowsHolder
  <2>1. unit[u].commercial_status = "reserved" => ReservationsOn(u) # {}
    BY DEF Holding, ReservationsOn
  <2>2. unit[u].commercial_status \in {"contract_pending", "contracted"}
           => \E s \in ContractsOn(u) : TRUE
    BY DEF Holding, ContractsOn
  <2>3. (unit[u].commercial_status = "reserved") = (ReservationsOn(u) # {})
    BY <1>2, <2>1
  <2>4. (unit[u].commercial_status = "contract_pending")
           = (\E s \in ContractsOn(u) : Unsigned(s))
    BY <1>1, <2>2
  <2>5. (unit[u].commercial_status = "contracted")
           = (\E s \in ContractsOn(u) : ~Unsigned(s))
    BY <1>1, <2>2
  <2> QED
    BY <2>3, <2>4, <2>5
<1> QED
  BY <1>3, <1>4

HeldStatuses == {"reserved", "contract_pending", "contracted"}

\* A step that commits nobody, releases nobody and moves units only among the
\* statuses nobody holds keeps the two sides in agreement.
LEMMA HoldingFrame ==
    ASSUME Links, Holding,
           \A r \in Reservations :
              /\ Committed(r)' = Committed(r)
              /\ Committed(r) => reservation'[r].unit = reservation[r].unit,
           \A s \in Sales :
              /\ Contracting(s)' = Contracting(s)
              /\ Contracting(s) => SaleUnit(s)' = SaleUnit(s) /\ Unsigned(s)' = Unsigned(s),
           \A u \in Units :
              \/ unit'[u].commercial_status = unit[u].commercial_status
              \/ /\ unit[u].commercial_status \notin HeldStatuses
                 /\ unit'[u].commercial_status \notin HeldStatuses
    PROVE  Holding'
<1>1. (\A r, q \in Reservations :
          Committed(r) /\ Committed(q) /\ reservation[r].unit = reservation[q].unit => r = q)'
  BY DEF Holding
<1>2. (\A s, t \in Sales :
          Contracting(s) /\ Contracting(t) /\ SaleUnit(s) = SaleUnit(t) => s = t)'
  BY DEF Holding
<1>3. ASSUME NEW r \in Reservations, Committed(r)'
      PROVE  unit'[reservation'[r].unit].commercial_status = "reserved"
  <2>1. Committed(r) /\ reservation'[r].unit = reservation[r].unit /\ reservation[r].unit \in Units
    BY <1>3, CommittedUnit
  <2> QED
    BY <2>1 DEF Holding, HeldStatuses
<1>4. ASSUME NEW s \in Sales, Contracting(s)'
      PROVE  (unit[SaleUnit(s)].commercial_status =
                 IF Unsigned(s) THEN "contract_pending" ELSE "contracted")'
  <2>1. Contracting(s) /\ SaleUnit(s)' = SaleUnit(s) /\ Unsigned(s)' = Unsigned(s)
        /\ SaleUnit(s) \in Units
    BY <1>4, ContractingUnit
  <2>2. unit[SaleUnit(s)].commercial_status =
           IF Unsigned(s) THEN "contract_pending" ELSE "contracted"
    BY <2>1 DEF Holding
  <2>3. unit'[SaleUnit(s)].commercial_status = unit[SaleUnit(s)].commercial_status
    BY <2>1, <2>2 DEF HeldStatuses
  <2> QED
    BY <2>1, <2>2, <2>3
<1>5. (\A u \in Units :
          unit[u].commercial_status = "reserved"
             => \E r \in Reservations : Committed(r) /\ reservation[r].unit = u)'
  BY DEF Holding, HeldStatuses
<1>6. (\A u \in Units :
          unit[u].commercial_status \in {"contract_pending", "contracted"}
             => \E s \in Sales : Contracting(s) /\ SaleUnit(s) = u)'
  BY DEF Holding, HeldStatuses
<1> QED
  BY <1>1, <1>2, <1>3, <1>4, <1>5, <1>6 DEF Holding

LEMMA InitInv == Init => Inv
<1> SUFFICES ASSUME Init PROVE Inv
  OBVIOUS
<1>1. \A r \in Reservations : reservation[r].status = "none"
  BY DEF Init, NoReservation
<1>2. \A s \in Sales : sale[s].status = "none" /\ ~sale[s].activated
  BY DEF Init, NoSale
<1>3. \A u \in Units : unit[u].commercial_status = "unreleased"
  BY DEF Init
<1>4. Links
  BY <1>1, <1>2 DEF Links
<1>5. Holding
  BY <1>1, <1>2, <1>3 DEF Holding, Committed, ReservationCommitted, Contracting, SaleCommitted
<1> QED
  BY <1>4, <1>5, InitType DEF Inv

\* Inventory's own operations never touch a held status.
LEMMA InventoryInv == Inv /\ InventoryNext => Links' /\ Holding'
<1> SUFFICES ASSUME Inv, InventoryNext PROVE Links' /\ Holding'
  OBVIOUS
<1>1. UNCHANGED <<today, reservation, sale, expiring>>
  BY DEF InventoryNext, activate_price_version, update_unit, approve_area_schedule,
     deactivate_unit, reactivate_unit, remove_unit, restore_unit,
     Transitions, transition_commercial_status, update_release_controls, release_due,
     return_unit_to_market
<1>2. Links'
  BY <1>1 DEF Inv, Links
<1>3. ASSUME NEW v \in Units
      PROVE  \/ unit'[v].commercial_status = unit[v].commercial_status
             \/ /\ unit[v].commercial_status \notin HeldStatuses
                /\ unit'[v].commercial_status \notin HeldStatuses
  <2> USE DEF Inv, TypeOK, UnitRow, HeldStatuses
  <2>u. PICK u \in Units :
          \/ activate_price_version(u)
          \/ \E b \in Bases : update_unit(u, b) \/ approve_area_schedule(u, b)
          \/ deactivate_unit(u) \/ reactivate_unit(u)
          \/ remove_unit(u) \/ restore_unit(u)
          \/ \E to \in CommercialStatuses : Transitions(u, to)
          \/ \E day \in 0..Never : update_release_controls(u, day)
          \/ release_due(u)
          \/ return_unit_to_market(u)
    BY DEF InventoryNext, Transitions
  <2>1. CASE activate_price_version(u)
    BY <2>1 DEF activate_price_version
  <2>2. CASE \E b \in Bases : update_unit(u, b) \/ approve_area_schedule(u, b)
    <3>1. CASE \E b \in Bases : update_unit(u, b)
      BY <3>1 DEF update_unit
    <3>2. CASE \E b \in Bases : approve_area_schedule(u, b)
      BY <3>2 DEF approve_area_schedule
    <3> QED
      BY <2>2, <3>1, <3>2
  <2>3. CASE deactivate_unit(u) \/ reactivate_unit(u)
    <3>1. PICK standing, approved :
            unit' = [unit EXCEPT ![u].standing = standing, ![u].pricing_approved = approved]
      BY <2>3 DEF deactivate_unit, reactivate_unit
    <3> QED
      BY <3>1
  <2>4. CASE remove_unit(u) \/ restore_unit(u)
    <3>1. PICK standing : unit' = [unit EXCEPT ![u].standing = standing]
      BY <2>4 DEF remove_unit, restore_unit
    <3> QED
      BY <3>1
  <2>5. CASE \E to \in CommercialStatuses : Transitions(u, to)
    BY <2>5 DEF Transitions, transition_commercial_status, SetCommercial, InventoryMoves
  <2>6. CASE \E day \in 0..Never : update_release_controls(u, day)
    BY <2>6 DEF update_release_controls
  <2>7. CASE release_due(u)
    BY <2>7 DEF release_due, SetCommercial
  <2>8. CASE return_unit_to_market(u)
    BY <2>8 DEF return_unit_to_market, SetCommercial
  <2> QED
    BY <2>u, <2>1, <2>2, <2>3, <2>4, <2>5, <2>6, <2>7, <2>8
<1>4. Holding'
  <2>1. \A r \in Reservations : Committed(r)' = Committed(r)
    BY <1>1 DEF Committed
  <2>2. \A s \in Sales : /\ Contracting(s)' = Contracting(s)
                         /\ SaleUnit(s)' = SaleUnit(s)
                         /\ Unsigned(s)' = Unsigned(s)
    BY <1>1 DEF Contracting, SaleUnit, Unsigned
  <2> QED
    BY <1>1, <1>3, <2>1, <2>2, HoldingFrame DEF Inv
<1> QED
  BY <1>2, <1>4

\* A reservation's own preparation: the row may change, its unit stays, and it
\* neither enters nor leaves the committed statuses.
LEMMA PreparationInv ==
    ASSUME Inv, NEW r \in Reservations,
           \A q \in Reservations : q # r => reservation'[q] = reservation[q],
           reservation[r].status # "none",
           \/ reservation'[r].status = reservation[r].status
           \/ Committed(r) /\ reservation'[r].status \in ReservationCommitted,
           reservation'[r].unit = reservation[r].unit,
           UNCHANGED unit,
           \A s \in Sales : /\ sale'[s].status = sale[s].status
                            /\ sale'[s].reservation = sale[s].reservation
                            /\ sale'[s].activated = sale[s].activated
    PROVE  Links' /\ Holding'
<1>1. \A q \in Reservations :
         /\ reservation'[q].unit = reservation[q].unit
         /\ Committed(q)' = Committed(q)
         /\ (reservation'[q].status = "none") = (reservation[q].status = "none")
  BY DEF Inv, TypeOK, Committed, ReservationCommitted
<1>2. Links'
  BY <1>1 DEF Inv, Links
<1>3. \A s \in Sales : Contracting(s)' = Contracting(s) /\ Unsigned(s)' = Unsigned(s)
  BY DEF Contracting, Unsigned
<1>4. \A s \in Sales : Contracting(s) => SaleUnit(s)' = SaleUnit(s)
  BY <1>1, ContractingUnit DEF SaleUnit, Inv
<1> QED
  BY <1>1, <1>2, <1>3, <1>4, HoldingFrame DEF Inv

LEMMA FreezeQuoteKeeps ==
    ASSUME NEW row \in ReservationRow, NEW u, NEW requote \in BOOLEAN, NEW breach \in BOOLEAN
    PROVE  /\ FreezeQuote(row, u, requote, breach).status = row.status
           /\ FreezeQuote(row, u, requote, breach).unit = row.unit
BY DEF FreezeQuote, ReservationRow

LEMMA CreateReservationInv ==
    ASSUME Inv, NEW r \in Reservations, NEW u \in Units, NEW expires \in Days,
           NEW lock \in Days, NEW target \in BOOLEAN, NEW breach \in Breaches,
           create_reservation(r, u, expires, lock, target, breach)
    PROVE  Links' /\ Holding'
<1> DEFINE row == [NoReservation EXCEPT
                   !.status = IF DepositGate THEN "deposit_pending" ELSE "draft",
                   !.unit = u, !.expires_on = expires,
                   !.price_locked_until = lock, !.target = target,
                   !.gate = IF DepositGate THEN "pending" ELSE "not_required"]
           new == FreezeQuote(row, u, FALSE, breach)
<1>1. row \in ReservationRow
  BY UnitSaleAssumption DEF NoReservation, ReservationRow, ReservationStatuses,
     ReservationPreparing, Exceptions, Gates
<1>2. row.unit = u /\ row.status \in ReservationPreparing
  BY DEF NoReservation, ReservationPreparing
<1>3. reservation' = [reservation EXCEPT ![r] = new] /\ reservation[r].status = "none"
      /\ UNCHANGED <<today, unit, sale, expiring>>
  BY DEF create_reservation
<1>4. new.unit = u /\ new.status \in ReservationPreparing
  <2> HIDE DEF row
  <2>1. /\ FreezeQuote(row, u, FALSE, breach).status = row.status
        /\ FreezeQuote(row, u, FALSE, breach).unit = row.unit
    BY <1>1, BreachesType, FreezeQuoteKeeps
  <2> QED
    BY <1>2, <2>1
<1> HIDE DEF new
<1>5. \A q \in Reservations : q # r => reservation'[q] = reservation[q]
  BY <1>3
<1>6. reservation'[r] = new
  BY <1>3 DEF Inv, TypeOK
<1>7. Links'
  BY <1>3, <1>4, <1>5, <1>6 DEF Inv, Links, ReservationPreparing
<1>8. \A q \in Reservations :
         /\ Committed(q)' = Committed(q)
         /\ Committed(q) => reservation'[q].unit = reservation[q].unit
  BY <1>3, <1>4, <1>5, <1>6 DEF Committed, ReservationCommitted, ReservationPreparing
<1>9. \A s \in Sales : Contracting(s)' = Contracting(s) /\ Unsigned(s)' = Unsigned(s)
  BY <1>3 DEF Contracting, Unsigned
<1>10. \A s \in Sales : Contracting(s) => SaleUnit(s)' = SaleUnit(s)
  <2> SUFFICES ASSUME NEW s \in Sales, Contracting(s) PROVE SaleUnit(s)' = SaleUnit(s)
    OBVIOUS
  <2>1. sale[s].reservation \in Reservations /\ sale[s].reservation # r
    BY <1>3 DEF Inv, Links, Contracting, SaleCommitted
  <2> QED
    BY <1>3, <1>5, <2>1 DEF SaleUnit
<1> QED
  BY <1>3, <1>7, <1>8, <1>9, <1>10, HoldingFrame DEF Inv

\* The unit goes from the market to the reservation.
LEMMA ActivateReservationInv ==
    ASSUME Inv, NEW r \in Reservations, Activates(r)
    PROVE  Links' /\ Holding'
<1> DEFINE u == reservation[r].unit
<1>1. /\ reservation' = [reservation EXCEPT ![r].status = "active"]
      /\ unit' = [unit EXCEPT ![u].commercial_status = "reserved"]
      /\ sale' = sale
      /\ unit[u].commercial_status = "available"
      /\ ~Committed(r) /\ reservation[r].status # "none"
  BY DEF Activates, activate_reservation, SetCommercial, ReservationPreparing, Committed,
     ReservationCommitted
<1>2. u \in Units
  BY <1>1 DEF Inv, Links
<1>3. /\ reservation'[r].status = "active" /\ Committed(r)'
      /\ \A q \in Reservations : reservation'[q].unit = reservation[q].unit
      /\ \A q \in Reservations : q # r => reservation'[q] = reservation[q]
      /\ \A q \in Reservations : q # r => Committed(q)' = Committed(q)
  BY <1>1 DEF Inv, TypeOK, Committed, ReservationCommitted, ReservationRow
<1>4. Links'
  BY <1>1, <1>3 DEF Inv, Links
<1>5. /\ unit'[u].commercial_status = "reserved"
      /\ \A v \in Units : v # u => unit'[v] = unit[v]
  BY <1>1, <1>2 DEF Inv, TypeOK, UnitRow
<1>6. \A s \in Sales : /\ Contracting(s)' = Contracting(s)
                       /\ Unsigned(s)' = Unsigned(s)
                       /\ Contracting(s) => SaleUnit(s)' = SaleUnit(s) /\ SaleUnit(s) # u
                                            /\ SaleUnit(s) \in Units
  <2>1. \A s \in Sales : Contracting(s)' = Contracting(s) /\ Unsigned(s)' = Unsigned(s)
    BY <1>1 DEF Contracting, Unsigned
  <2>2. ASSUME NEW s \in Sales, Contracting(s)
        PROVE  SaleUnit(s)' = SaleUnit(s) /\ SaleUnit(s) # u /\ SaleUnit(s) \in Units
    <3>1. sale[s].reservation \in Reservations /\ SaleUnit(s) \in Units
      BY <2>2, ContractingUnit DEF Inv
    <3>2. SaleUnit(s)' = SaleUnit(s)
      BY <1>1, <1>3, <3>1 DEF SaleUnit
    <3>3. SaleUnit(s) # u
      BY <1>1, <2>2 DEF Inv, Holding
    <3> QED
      BY <3>1, <3>2, <3>3
  <2> QED
    BY <2>1, <2>2
<1>7. \A q \in Reservations : Committed(q) => reservation[q].unit # u /\ reservation[q].unit \in Units
  BY <1>1, CommittedUnit DEF Inv, Holding
<1> HIDE DEF u
<1>8. u = reservation[r].unit
  BY DEF u
<1>9. Holding'
  <2>1. (\A q, p \in Reservations :
          Committed(q) /\ Committed(p) /\ reservation[q].unit = reservation[p].unit => q = p)'
    BY <1>3, <1>7, <1>8 DEF Inv, Holding
  <2>2. (\A s, t \in Sales :
          Contracting(s) /\ Contracting(t) /\ SaleUnit(s) = SaleUnit(t) => s = t)'
    BY <1>6 DEF Inv, Holding
  <2>3. (\A q \in Reservations :
          Committed(q) => unit[reservation[q].unit].commercial_status = "reserved")'
    BY <1>3, <1>5, <1>7, <1>8 DEF Inv, Holding
  <2>4. (\A s \in Sales :
          Contracting(s) => unit[SaleUnit(s)].commercial_status =
                               IF Unsigned(s) THEN "contract_pending" ELSE "contracted")'
    BY <1>5, <1>6 DEF Inv, Holding
  <2>5. (\A v \in Units :
          unit[v].commercial_status = "reserved"
             => \E q \in Reservations : Committed(q) /\ reservation[q].unit = v)'
    BY <1>3, <1>5, <1>8, <1>1 DEF Inv, Holding
  <2>6. (\A v \in Units :
          unit[v].commercial_status \in {"contract_pending", "contracted"}
             => \E s \in Sales : Contracting(s) /\ SaleUnit(s) = v)'
    BY <1>5, <1>6 DEF Inv, Holding
  <2> QED
    BY <2>1, <2>2, <2>3, <2>4, <2>5, <2>6 DEF Holding
<1> QED
  BY <1>4, <1>9

\* A commitment that falls away gives its unit back; nothing else is touched.
LEMMA CloseReservationInv ==
    ASSUME Inv, NEW r \in Reservations, NEW to \in {"expired", "cancelled"},
           Closes(r, to)
    PROVE  Links' /\ Holding'
<1> DEFINE u == reservation[r].unit
<1>1. /\ reservation' = [reservation EXCEPT ![r].status = to]
      /\ Committed(r) \/ reservation[r].status \in ReservationPreparing
      /\ \A s \in Sales : s \in ContractOf(r) => sale[s].status = "draft"
      /\ \A s \in Sales :
            \/ sale'[s] = sale[s]
            \/ s \in ContractOf(r) /\ sale'[s] = [sale[s] EXCEPT !.status = "cancelled"]
  BY DEF Closes, close_reservation, MayClose
<1>2. u \in Units
  BY <1>1 DEF Inv, Links, Committed, ReservationCommitted, ReservationPreparing
<1>3. /\ reservation'[r].status = to /\ ~Committed(r)'
      /\ \A q \in Reservations : reservation'[q].unit = reservation[q].unit
      /\ \A q \in Reservations : q # r => reservation'[q] = reservation[q]
      /\ \A q \in Reservations : q # r => Committed(q)' = Committed(q)
  BY <1>1 DEF Inv, TypeOK, Committed, ReservationCommitted, ReservationRow
<1>4. \A s \in Sales :
         /\ sale'[s].reservation = sale[s].reservation
         /\ sale'[s].activated = sale[s].activated
         /\ \/ sale'[s].status = sale[s].status
            \/ sale[s].status = "draft" /\ sale'[s].status = "cancelled"
  <2> SUFFICES ASSUME NEW s \in Sales
               PROVE  /\ sale'[s].reservation = sale[s].reservation
                      /\ sale'[s].activated = sale[s].activated
                      /\ \/ sale'[s].status = sale[s].status
                         \/ sale[s].status = "draft" /\ sale'[s].status = "cancelled"
    OBVIOUS
  <2>1. CASE sale'[s] = sale[s]
    BY <2>1
  <2>2. CASE s \in ContractOf(r) /\ sale'[s] = [sale[s] EXCEPT !.status = "cancelled"]
    <3>1. sale[s] \in SaleRow /\ sale[s].status = "draft"
      BY <1>1, <2>2 DEF Inv, TypeOK
    <3> QED
      BY <2>2, <3>1 DEF SaleRow
  <2> QED
    BY <1>1, <2>1, <2>2
<1>5. Links'
  <2>1. \A q \in Reservations : (reservation'[q].status = "none") = (reservation[q].status = "none")
    BY <1>1, <1>3 DEF Committed, ReservationCommitted, ReservationPreparing
  <2> QED
    BY <1>3, <1>4, <2>1 DEF Inv, Links
<1>6. \A s \in Sales : Contracting(s)' = Contracting(s) /\ Unsigned(s)' = Unsigned(s)
  BY <1>4 DEF Contracting, SaleCommitted, Unsigned
<1>7. \A s \in Sales : Contracting(s) => SaleUnit(s)' = SaleUnit(s) /\ SaleUnit(s) \in Units
  BY <1>3, <1>4, ContractingUnit DEF Inv, SaleUnit
<1>8. CASE ~Committed(r)
  <2>1. unit' = unit
    BY <1>8 DEF Closes, close_reservation
  <2>2. \A q \in Reservations : Committed(q)' = Committed(q)
    BY <1>3, <1>8 DEF Committed
  <2> QED
    BY <1>3, <1>5, <1>6, <1>7, <2>1, <2>2, HoldingFrame DEF Inv
<1>9. CASE Committed(r)
  <2>1. unit[u].commercial_status = "reserved"
    BY <1>9 DEF Inv, Holding
  <2>2. PICK back \in {"available", "held"} : unit' = [unit EXCEPT ![u].commercial_status = back]
    BY <1>9, <2>1 DEF Closes, close_reservation, SetCommercial
  <2>3. /\ unit'[u].commercial_status \in {"available", "held"}
        /\ \A v \in Units : v # u => unit'[v] = unit[v]
    BY <1>2, <2>2 DEF Inv, TypeOK, UnitRow
  <2>4. \A s \in Sales : Contracting(s) => SaleUnit(s) # u
    BY <2>1 DEF Inv, Holding
  <2>5. \A q \in Reservations : q # r /\ Committed(q) =>
           reservation[q].unit # u /\ reservation[q].unit \in Units
    BY <1>9, CommittedUnit DEF Inv, Holding
  <2> HIDE DEF u
  <2>6. u = reservation[r].unit
    BY DEF u
  <2>7. (\A q, p \in Reservations :
          Committed(q) /\ Committed(p) /\ reservation[q].unit = reservation[p].unit => q = p)'
    BY <1>3 DEF Inv, Holding
  <2>8. (\A s, t \in Sales :
          Contracting(s) /\ Contracting(t) /\ SaleUnit(s) = SaleUnit(t) => s = t)'
    BY <1>6, <1>7 DEF Inv, Holding
  <2>9. (\A q \in Reservations :
          Committed(q) => unit[reservation[q].unit].commercial_status = "reserved")'
    BY <1>3, <2>3, <2>5 DEF Inv, Holding
  <2>10. (\A s \in Sales :
          Contracting(s) => unit[SaleUnit(s)].commercial_status =
                               IF Unsigned(s) THEN "contract_pending" ELSE "contracted")'
    BY <1>6, <1>7, <2>3, <2>4 DEF Inv, Holding
  <2>11. (\A v \in Units :
          unit[v].commercial_status = "reserved"
             => \E q \in Reservations : Committed(q) /\ reservation[q].unit = v)'
    <3> SUFFICES ASSUME NEW v \in Units, unit'[v].commercial_status = "reserved"
                 PROVE  \E q \in Reservations : Committed(q)' /\ reservation'[q].unit = v
      OBVIOUS
    <3>1. v # u /\ unit[v].commercial_status = "reserved"
      BY <2>3
    <3>2. PICK q \in Reservations : Committed(q) /\ reservation[q].unit = v
      BY <3>1 DEF Inv, Holding
    <3> QED
      BY <1>3, <2>6, <3>1, <3>2
  <2>12. (\A v \in Units :
          unit[v].commercial_status \in {"contract_pending", "contracted"}
             => \E s \in Sales : Contracting(s) /\ SaleUnit(s) = v)'
    BY <1>6, <1>7, <2>3 DEF Inv, Holding
  <2> QED
    BY <1>5, <2>7, <2>8, <2>9, <2>10, <2>11, <2>12 DEF Holding
<1> QED
  BY <1>8, <1>9

LEMMA ReservationInv == Inv /\ ReservationNext => Links' /\ Holding'
<1> SUFFICES ASSUME Inv, ReservationNext PROVE Links' /\ Holding'
  OBVIOUS
<1>r. PICK r \in Reservations :
        \/ \E u \in Units, expires, lock \in Days, target \in BOOLEAN, breach \in Breaches :
              create_reservation(r, u, expires, lock, target, breach)
        \/ \E expires \in Days : update_reservation(r, expires)
        \/ \E breach \in Breaches : revise_quote(r, breach)
        \/ submit_exception(r)
        \/ \E approved \in BOOLEAN : decide_exception(r, approved)
        \/ confirm_deposit(r) \/ waive_deposit(r)
        \/ Activates(r)
        \/ \E expires \in Days : Extends(r, expires)
        \/ read_for_expiry(r) \/ Expires(r)
        \/ Cancels(r)
        \/ \E lock \in Days, breach \in Breaches : requote_reservation(r, lock, breach)
  BY DEF ReservationNext, Activates, Extends, Expires, Cancels
<1>t. reservation[r] \in ReservationRow
  BY DEF Inv, TypeOK
<1>1. CASE \E u \in Units, expires, lock \in Days, target \in BOOLEAN, breach \in Breaches :
              create_reservation(r, u, expires, lock, target, breach)
  BY <1>1, CreateReservationInv
\* The preparation steps, each by what it leaves of the row.
<1>p. ASSUME \A q \in Reservations : q # r => reservation'[q] = reservation[q],
             reservation[r].status # "none",
             \/ reservation'[r].status = reservation[r].status
             \/ Committed(r) /\ reservation'[r].status \in ReservationCommitted,
             reservation'[r].unit = reservation[r].unit,
             UNCHANGED <<unit, sale>>
      PROVE  Links' /\ Holding'
  BY <1>p, PreparationInv
<1>2. CASE \E expires \in Days : update_reservation(r, expires)
  <2>1. PICK expires \in Days : update_reservation(r, expires)
    BY <1>2
  <2>2. /\ \A q \in Reservations : q # r => reservation'[q] = reservation[q]
        /\ reservation'[r].status = reservation[r].status
        /\ reservation'[r].unit = reservation[r].unit
    BY <1>t, <2>1 DEF update_reservation, Inv, TypeOK, ReservationRow
  <2>3. reservation[r].status # "none" /\ UNCHANGED <<unit, sale>>
    BY <2>1 DEF update_reservation, ExceptionOpen, ReservationPreparing, Committed, ReservationCommitted
  <2> QED
    BY <2>2, <2>3, <1>p
<1>3. CASE \E breach \in Breaches : revise_quote(r, breach)
  <2>1. PICK breach \in Breaches : revise_quote(r, breach)
    BY <1>3
  <2> DEFINE row == FreezeQuote(reservation[r], reservation[r].unit, FALSE, breach)
  <2>2. row.status = reservation[r].status /\ row.unit = reservation[r].unit
    BY <1>t, FreezeQuoteKeeps, BreachesType
  <2>3. reservation' = [reservation EXCEPT ![r] = row]
    BY <2>1 DEF revise_quote
  <2>4. reservation[r].status # "none" /\ UNCHANGED <<unit, sale>>
    BY <2>1 DEF revise_quote, ReservationPreparing
  <2> HIDE DEF row
  <2>5. reservation'[r] = row /\ \A q \in Reservations : q # r => reservation'[q] = reservation[q]
    BY <2>3 DEF Inv, TypeOK
  <2> QED
    BY <2>2, <2>4, <2>5, <1>p
<1>4. CASE submit_exception(r)
  <2>1. submit_exception(r)
    BY <1>4
  <2>2. /\ \A q \in Reservations : q # r => reservation'[q] = reservation[q]
        /\ reservation'[r].status = reservation[r].status
        /\ reservation'[r].unit = reservation[r].unit
    BY <1>t, <2>1 DEF submit_exception, Inv, TypeOK, ReservationRow
  <2>3. reservation[r].status # "none" /\ UNCHANGED <<unit, sale>>
    BY <2>1 DEF submit_exception, ExceptionOpen, ReservationPreparing, Committed, ReservationCommitted
  <2> QED
    BY <2>2, <2>3, <1>p
<1>5. CASE \E approved \in BOOLEAN : decide_exception(r, approved)
  <2>1. PICK approved \in BOOLEAN : decide_exception(r, approved)
    BY <1>5
  <2>2. /\ \A q \in Reservations : q # r => reservation'[q] = reservation[q]
        /\ reservation'[r].status = reservation[r].status
        /\ reservation'[r].unit = reservation[r].unit
    BY <1>t, <2>1 DEF decide_exception, Inv, TypeOK, ReservationRow
  <2>3. reservation[r].status # "none" /\ UNCHANGED <<unit, sale>>
    BY <2>1 DEF decide_exception, ExceptionOpen, ReservationPreparing, Committed, ReservationCommitted
  <2> QED
    BY <2>2, <2>3, <1>p
<1>6. CASE confirm_deposit(r) \/ waive_deposit(r)
  <2>1. PICK how \in Gates : SettleDeposit(r, how)
    BY <1>6 DEF confirm_deposit, waive_deposit, Gates
  <2>2. /\ \A q \in Reservations : q # r => reservation'[q] = reservation[q]
        /\ reservation'[r].status = reservation[r].status
        /\ reservation'[r].unit = reservation[r].unit
    BY <1>t, <2>1 DEF SettleDeposit, Inv, TypeOK, ReservationRow
  <2>3. reservation[r].status # "none" /\ UNCHANGED <<unit, sale>>
    BY <2>1 DEF SettleDeposit, ReservationPreparing
  <2> QED
    BY <2>2, <2>3, <1>p
<1>7. CASE Activates(r)
  BY <1>7, ActivateReservationInv
<1>8. CASE \E expires \in Days : Extends(r, expires)
  <2>1. PICK expires \in Days : Extends(r, expires)
    BY <1>8
  <2>2. /\ \A q \in Reservations : q # r => reservation'[q] = reservation[q]
        /\ reservation'[r].status = "extended"
        /\ reservation'[r].unit = reservation[r].unit
    BY <1>t, <2>1 DEF Extends, extend_reservation, Inv, TypeOK, ReservationRow
  <2>3. Committed(r) /\ reservation[r].status # "none" /\ UNCHANGED <<unit, sale>>
    BY <2>1 DEF Extends, extend_reservation, Committed, ReservationCommitted
  <2>4. reservation'[r].status \in ReservationCommitted
    BY <2>2 DEF ReservationCommitted
  <2> QED
    BY <2>2, <2>3, <2>4, <1>p
<1>9. CASE read_for_expiry(r) \/ Expires(r) \/ Cancels(r)
  <2>1. CASE UNCHANGED <<today, unit, reservation, sale>>
    <3>1. Links'
      BY <2>1 DEF Inv, Links
    <3>2. \A q \in Reservations : Committed(q)' = Committed(q)
      BY <2>1 DEF Committed
    <3>3. \A s \in Sales : /\ Contracting(s)' = Contracting(s)
                           /\ SaleUnit(s)' = SaleUnit(s)
                           /\ Unsigned(s)' = Unsigned(s)
      BY <2>1 DEF Contracting, SaleUnit, Unsigned
    <3> QED
      BY <2>1, <3>1, <3>2, <3>3, HoldingFrame DEF Inv
  <2> QED
    BY <1>9, <2>1, CloseReservationInv DEF read_for_expiry, Expires, Cancels, Closes,
       expire_reservation, cancel_reservation
<1>10. CASE \E lock \in Days, breach \in Breaches : requote_reservation(r, lock, breach)
  <2>1. PICK lock \in Days, breach \in Breaches : requote_reservation(r, lock, breach)
    BY <1>10
  <2> DEFINE new == FreezeQuote(reservation[r], reservation[r].unit, TRUE, breach)
             row == [new EXCEPT !.price_locked_until = lock]
  <2>2. new.status = reservation[r].status /\ new.unit = reservation[r].unit
    BY <1>t, FreezeQuoteKeeps, BreachesType
  <2>3. reservation' = [reservation EXCEPT ![r] = row]
    BY <2>1 DEF requote_reservation
  <2>4. Committed(r) /\ reservation[r].status # "none" /\ UNCHANGED unit
    BY <2>1 DEF requote_reservation, Committed, ReservationCommitted
  <2>5. \A s \in Sales : /\ sale'[s].status = sale[s].status
                         /\ sale'[s].reservation = sale[s].reservation
                         /\ sale'[s].activated = sale[s].activated
    <3>1. PICK k : sale' = [s \in Sales |-> IF s \in ContractOf(r)
                                            THEN [sale[s] EXCEPT !.quote = k]
                                            ELSE sale[s]]
      BY <2>1 DEF requote_reservation
    <3> QED
      BY <3>1 DEF Inv, TypeOK, SaleRow
  <2>6. new \in ReservationRow
    <3>1. reservation[r].unit \in Units
      BY <2>4, CommittedUnit DEF Inv
    <3> QED
      BY <1>t, <3>1, FreezeQuoteType, BreachesType DEF Inv, TypeOK
  <2> HIDE DEF new
  <2>7. row.status = reservation[r].status /\ row.unit = reservation[r].unit
    BY <2>2, <2>6 DEF ReservationRow
  <2> HIDE DEF row
  <2>8. reservation'[r] = row /\ \A q \in Reservations : q # r => reservation'[q] = reservation[q]
    BY <2>3 DEF Inv, TypeOK
  <2> QED
    BY <2>4, <2>5, <2>7, <2>8, PreparationInv
<1> QED
  BY <1>r, <1>1, <1>2, <1>3, <1>4, <1>5, <1>6, <1>7, <1>8, <1>9, <1>10

\* A contract's own paperwork: its row may change, but whether and how it holds
\* its unit does not.
LEMMA PaperworkInv ==
    ASSUME Inv, NEW s \in Sales,
           \A t \in Sales : t # s => sale'[t] = sale[t],
           UNCHANGED <<unit, reservation>>,
           Contracting(s)' = Contracting(s),
           Contracting(s) => /\ sale'[s].reservation = sale[s].reservation
                             /\ Unsigned(s)' = Unsigned(s),
           sale'[s].reservation \in Reservations
              /\ reservation[sale'[s].reservation].status # "none",
           sale'[s].status = "active" => sale'[s].activated,
           sale'[s].status \in {"none", "draft", "signature_pending"} => ~sale'[s].activated
    PROVE  Links' /\ Holding'
<1>1. Links'
  <2>1. (\A r \in Reservations :
          reservation[r].status # "none" => reservation[r].unit \in Units)'
    BY DEF Inv, Links
  <2>2. ASSUME NEW t \in Sales
        PROVE  (/\ sale[t].status # "none" =>
                      /\ sale[t].reservation \in Reservations
                      /\ reservation[sale[t].reservation].status # "none"
                /\ sale[t].status = "active" => sale[t].activated
                /\ sale[t].status \in {"none", "draft", "signature_pending"} => ~sale[t].activated)'
    <3>1. CASE t = s
      BY <3>1
    <3>2. CASE t # s
      BY <3>2 DEF Inv, Links
    <3> QED
      BY <3>1, <3>2
  <2> QED
    BY <2>1, <2>2 DEF Links
<1>2. \A r \in Reservations : Committed(r)' = Committed(r)
  BY DEF Committed
<1>3. ASSUME NEW t \in Sales
      PROVE  /\ Contracting(t)' = Contracting(t)
             /\ Contracting(t) => SaleUnit(t)' = SaleUnit(t) /\ Unsigned(t)' = Unsigned(t)
  <2>1. CASE t = s
    BY <2>1 DEF SaleUnit
  <2>2. CASE t # s
    BY <2>2 DEF SaleUnit, Contracting, Unsigned
  <2> QED
    BY <2>1, <2>2
<1> QED
  BY <1>1, <1>2, <1>3, HoldingFrame DEF Inv

\* The unit goes from the reservation to the contract.
LEMMA SubmitSaleInv ==
    ASSUME Inv, NEW s \in Sales, Submits(s)
    PROVE  Links' /\ Holding'
<1>r. PICK r \in Reservations : r = sale[s].reservation /\ reservation[r].status # "none"
  BY DEF Submits, submit_sale, Inv, Links
<1>u. PICK u \in Units : u = reservation[r].unit
  BY <1>r DEF Inv, Links
<1>1. /\ sale' = [sale EXCEPT ![s].status = "signature_pending"]
      /\ reservation' = [reservation EXCEPT ![r].status = "converted"]
      /\ unit' = [unit EXCEPT ![u].commercial_status = "contract_pending"]
      /\ sale[s].status = "draft" /\ Committed(r)
  BY <1>r, <1>u DEF Submits, submit_sale, SetCommercial, SaleUnit
<1>2. ~sale[s].activated
  BY <1>1 DEF Inv, Links
<1>3. /\ reservation'[r].status = "converted" /\ ~Committed(r)'
      /\ \A q \in Reservations : reservation'[q].unit = reservation[q].unit
      /\ \A q \in Reservations : q # r => reservation'[q] = reservation[q]
      /\ \A q \in Reservations : q # r => Committed(q)' = Committed(q)
  BY <1>1 DEF Inv, TypeOK, Committed, ReservationCommitted, ReservationRow
<1>4. /\ sale'[s].status = "signature_pending" /\ ~sale'[s].activated
      /\ \A t \in Sales : sale'[t].reservation = sale[t].reservation
      /\ \A t \in Sales : t # s => sale'[t] = sale[t]
  BY <1>1, <1>2 DEF Inv, TypeOK, SaleRow
<1>5. /\ unit'[u].commercial_status = "contract_pending"
      /\ \A v \in Units : v # u => unit'[v] = unit[v]
  BY <1>1 DEF Inv, TypeOK, UnitRow
<1>6. unit[u].commercial_status = "reserved"
  BY <1>1, <1>u DEF Inv, Holding
<1>7. Links'
  <2>1. \A q \in Reservations : reservation[q].status # "none" => reservation'[q].status # "none"
    BY <1>3
  <2>2. ASSUME NEW t \in Sales
        PROVE  (/\ sale[t].status # "none" =>
                      /\ sale[t].reservation \in Reservations
                      /\ reservation[sale[t].reservation].status # "none"
                /\ sale[t].status = "active" => sale[t].activated
                /\ sale[t].status \in {"none", "draft", "signature_pending"} => ~sale[t].activated)'
    <3>1. CASE t = s
      BY <1>r, <1>3, <1>4, <3>1
    <3>2. CASE t # s
      BY <1>4, <2>1, <3>2 DEF Inv, Links
    <3> QED
      BY <3>1, <3>2
  <2>3. \A q \in Reservations :
           reservation'[q].status # "none" => reservation'[q].unit \in Units
    BY <1>3, <1>r DEF Inv, Links
  <2> QED
    BY <2>2, <2>3 DEF Links
<1>8. /\ Contracting(s)' /\ Unsigned(s)' /\ SaleUnit(s)' = u /\ ~Contracting(s)
  BY <1>r, <1>u, <1>1, <1>3, <1>4 DEF Contracting, SaleCommitted, Unsigned, SaleUnit
<1>9. ASSUME NEW t \in Sales, t # s
      PROVE  /\ Contracting(t)' = Contracting(t)
             /\ Unsigned(t)' = Unsigned(t)
             /\ Contracting(t) => SaleUnit(t)' = SaleUnit(t) /\ SaleUnit(t) \in Units
                                  /\ SaleUnit(t) # u
  <2>1. Contracting(t)' = Contracting(t) /\ Unsigned(t)' = Unsigned(t)
    BY <1>4, <1>9 DEF Contracting, Unsigned
  <2>2. ASSUME Contracting(t)
        PROVE  SaleUnit(t)' = SaleUnit(t) /\ SaleUnit(t) \in Units /\ SaleUnit(t) # u
    <3>1. sale[t].reservation \in Reservations /\ SaleUnit(t) \in Units
      BY <2>2, ContractingUnit DEF Inv
    <3>2. SaleUnit(t)' = SaleUnit(t)
      BY <1>3, <1>4, <3>1 DEF SaleUnit
    <3>3. SaleUnit(t) # u
      BY <1>6, <2>2 DEF Inv, Holding
    <3> QED
      BY <3>1, <3>2, <3>3
  <2> QED
    BY <2>1, <2>2
<1>10. \A q \in Reservations : q # r /\ Committed(q) =>
          reservation[q].unit # u /\ reservation[q].unit \in Units
  BY <1>1, <1>u, CommittedUnit DEF Inv, Holding
<1>11. Holding'
  <2>1. (\A q, p \in Reservations :
          Committed(q) /\ Committed(p) /\ reservation[q].unit = reservation[p].unit => q = p)'
    BY <1>3 DEF Inv, Holding
  <2>2. (\A t, w \in Sales :
          Contracting(t) /\ Contracting(w) /\ SaleUnit(t) = SaleUnit(w) => t = w)'
    BY <1>8, <1>9 DEF Inv, Holding
  <2>3. (\A q \in Reservations :
          Committed(q) => unit[reservation[q].unit].commercial_status = "reserved")'
    BY <1>3, <1>5, <1>10 DEF Inv, Holding
  <2>4. (\A t \in Sales :
          Contracting(t) => unit[SaleUnit(t)].commercial_status =
                               IF Unsigned(t) THEN "contract_pending" ELSE "contracted")'
    BY <1>5, <1>8, <1>9 DEF Inv, Holding
  <2>5. (\A v \in Units :
          unit[v].commercial_status = "reserved"
             => \E q \in Reservations : Committed(q) /\ reservation[q].unit = v)'
    <3> SUFFICES ASSUME NEW v \in Units, unit'[v].commercial_status = "reserved"
                 PROVE  \E q \in Reservations : Committed(q)' /\ reservation'[q].unit = v
      OBVIOUS
    <3>1. v # u /\ unit[v].commercial_status = "reserved"
      BY <1>5
    <3>2. PICK q \in Reservations : Committed(q) /\ reservation[q].unit = v
      BY <3>1 DEF Inv, Holding
    <3>3. q # r
      BY <1>u, <3>1, <3>2
    <3> QED
      BY <1>3, <3>2, <3>3
  <2>6. (\A v \in Units :
          unit[v].commercial_status \in {"contract_pending", "contracted"}
             => \E t \in Sales : Contracting(t) /\ SaleUnit(t) = v)'
    <3> SUFFICES ASSUME NEW v \in Units,
                        unit'[v].commercial_status \in {"contract_pending", "contracted"}
                 PROVE  \E t \in Sales : Contracting(t)' /\ SaleUnit(t)' = v
      OBVIOUS
    <3>1. CASE v = u
      BY <1>8, <3>1
    <3>2. CASE v # u
      <4>1. PICK t \in Sales : Contracting(t) /\ SaleUnit(t) = v
        BY <1>5, <3>2 DEF Inv, Holding
      <4>2. t # s
        BY <1>8, <4>1
      <4> QED
        BY <1>9, <4>1, <4>2
    <3> QED
      BY <3>1, <3>2
  <2> QED
    BY <2>1, <2>2, <2>3, <2>4, <2>5, <2>6 DEF Holding
<1> QED
  BY <1>7, <1>11

\* One contract's status moves and its unit moves with it: the others, and the
\* reservations, hold other units.
LEMMA OtherContracts ==
    ASSUME Inv, NEW s \in Sales, Contracting(s), NEW u \in Units, u = SaleUnit(s),
           \A t \in Sales : t # s => sale'[t] = sale[t],
           UNCHANGED reservation
    PROVE  /\ \A t \in Sales : t # s =>
                 /\ Contracting(t)' = Contracting(t)
                 /\ Unsigned(t)' = Unsigned(t)
                 /\ Contracting(t) => SaleUnit(t)' = SaleUnit(t) /\ SaleUnit(t) \in Units
                                      /\ SaleUnit(t) # u
           /\ \A r \in Reservations :
                 /\ Committed(r)' = Committed(r)
                 /\ Committed(r) => reservation[r].unit # u /\ reservation[r].unit \in Units
<1>1. ASSUME NEW t \in Sales, t # s
      PROVE  /\ Contracting(t)' = Contracting(t)
             /\ Unsigned(t)' = Unsigned(t)
             /\ Contracting(t) => SaleUnit(t)' = SaleUnit(t) /\ SaleUnit(t) \in Units
                                  /\ SaleUnit(t) # u
  <2>1. Contracting(t)' = Contracting(t) /\ Unsigned(t)' = Unsigned(t) /\ SaleUnit(t)' = SaleUnit(t)
    BY <1>1 DEF Contracting, Unsigned, SaleUnit
  <2>2. Contracting(t) => SaleUnit(t) \in Units /\ SaleUnit(t) # u
    BY <1>1, ContractingUnit DEF Inv, Holding
  <2> QED
    BY <2>1, <2>2
<1>2. unit[u].commercial_status # "reserved"
  BY DEF Inv, Holding
<1>3. \A r \in Reservations : Committed(r)' = Committed(r)
  BY DEF Committed
<1>4. \A r \in Reservations :
         Committed(r) => reservation[r].unit # u /\ reservation[r].unit \in Units
  BY <1>2, CommittedUnit DEF Inv, Holding
<1> QED
  BY <1>1, <1>3, <1>4

LEMMA ActivateSaleInv ==
    ASSUME Inv, NEW s \in Sales, Signs(s)
    PROVE  Links' /\ Holding'
<1>1. sale[s].status = "signature_pending" /\ Contracting(s) /\ Unsigned(s)
  BY DEF Signs, activate_sale, Contracting, SaleCommitted, Unsigned
<1>u. PICK u \in Units : u = SaleUnit(s)
  BY <1>1, ContractingUnit DEF Inv
<1>2. /\ sale' = [sale EXCEPT ![s].status = "active", ![s].activated = TRUE]
      /\ unit' = [unit EXCEPT ![u].commercial_status = "contracted"]
      /\ UNCHANGED reservation
  BY <1>u DEF Signs, activate_sale, SetCommercial
<1>3. /\ sale'[s].status = "active" /\ sale'[s].activated
      /\ sale'[s].reservation = sale[s].reservation
      /\ \A t \in Sales : t # s => sale'[t] = sale[t]
  BY <1>2 DEF Inv, TypeOK, SaleRow
<1>4. /\ unit'[u].commercial_status = "contracted"
      /\ \A v \in Units : v # u => unit'[v] = unit[v]
  BY <1>2 DEF Inv, TypeOK, UnitRow
<1>5. Links'
  BY ZenonT(40), <1>1, <1>2, <1>3 DEF Inv, Links
<1>6. Contracting(s)' /\ ~Unsigned(s)' /\ SaleUnit(s)' = u
  BY <1>2, <1>3, <1>u DEF Contracting, SaleCommitted, Unsigned, SaleUnit
<1>7. /\ \A t \in Sales : t # s =>
            /\ Contracting(t)' = Contracting(t)
            /\ Unsigned(t)' = Unsigned(t)
            /\ Contracting(t) => SaleUnit(t)' = SaleUnit(t) /\ SaleUnit(t) \in Units
                                 /\ SaleUnit(t) # u
      /\ \A r \in Reservations :
            /\ Committed(r)' = Committed(r)
            /\ Committed(r) => reservation[r].unit # u /\ reservation[r].unit \in Units
  BY <1>1, <1>2, <1>3, <1>u, OtherContracts
<1>8. Holding'
  <2>1. (\A q, p \in Reservations :
          Committed(q) /\ Committed(p) /\ reservation[q].unit = reservation[p].unit => q = p)'
    BY <1>2, <1>7 DEF Inv, Holding
  <2>2. (\A t, w \in Sales :
          Contracting(t) /\ Contracting(w) /\ SaleUnit(t) = SaleUnit(w) => t = w)'
    BY <1>6, <1>7 DEF Inv, Holding
  <2>3. (\A q \in Reservations :
          Committed(q) => unit[reservation[q].unit].commercial_status = "reserved")'
    BY <1>2, <1>4, <1>7 DEF Inv, Holding
  <2>4. (\A t \in Sales :
          Contracting(t) => unit[SaleUnit(t)].commercial_status =
                               IF Unsigned(t) THEN "contract_pending" ELSE "contracted")'
    BY <1>4, <1>6, <1>7 DEF Inv, Holding
  <2>5. (\A v \in Units :
          unit[v].commercial_status = "reserved"
             => \E q \in Reservations : Committed(q) /\ reservation[q].unit = v)'
    BY <1>2, <1>4, <1>7 DEF Inv, Holding
  <2>6. (\A v \in Units :
          unit[v].commercial_status \in {"contract_pending", "contracted"}
             => \E t \in Sales : Contracting(t) /\ SaleUnit(t) = v)'
    <3> SUFFICES ASSUME NEW v \in Units,
                        unit'[v].commercial_status \in {"contract_pending", "contracted"}
                 PROVE  \E t \in Sales : Contracting(t)' /\ SaleUnit(t)' = v
      OBVIOUS
    <3>1. CASE v = u
      BY <1>6, <3>1
    <3>2. CASE v # u
      <4>1. PICK t \in Sales : Contracting(t) /\ SaleUnit(t) = v
        BY <1>4, <3>2 DEF Inv, Holding
      <4> QED
        BY <1>7, <1>u, <3>2, <4>1
    <3> QED
      BY <3>1, <3>2
  <2> QED
    BY <2>1, <2>2, <2>3, <2>4, <2>5, <2>6 DEF Holding
<1> QED
  BY <1>5, <1>8

LEMMA CompleteCancellationInv ==
    ASSUME Inv, NEW s \in Sales, Completes(s)
    PROVE  Links' /\ Holding'
<1>1. sale[s].status = "termination_pending" /\ Contracting(s)
  BY DEF Completes, complete_cancellation, Contracting, SaleCommitted
<1>u. PICK u \in Units : u = SaleUnit(s)
  BY <1>1, ContractingUnit DEF Inv
<1>2. /\ sale' = [sale EXCEPT ![s].status = "cancelled"]
      /\ unit' = [unit EXCEPT ![u].commercial_status = "returned",
                              ![u].pricing_approved = FALSE]
      /\ UNCHANGED reservation
  BY <1>u DEF Completes, complete_cancellation
<1>3. /\ sale'[s].status = "cancelled"
      /\ sale'[s].reservation = sale[s].reservation
      /\ \A t \in Sales : t # s => sale'[t] = sale[t]
  BY <1>2 DEF Inv, TypeOK, SaleRow
<1>4. /\ unit'[u].commercial_status = "returned"
      /\ \A v \in Units : v # u => unit'[v] = unit[v]
  BY <1>2 DEF Inv, TypeOK, UnitRow
<1>5. Links'
  BY <1>1, <1>2, <1>3 DEF Inv, Links
<1>6. ~Contracting(s)'
  BY <1>3 DEF Contracting, SaleCommitted
<1>7. /\ \A t \in Sales : t # s =>
            /\ Contracting(t)' = Contracting(t)
            /\ Unsigned(t)' = Unsigned(t)
            /\ Contracting(t) => SaleUnit(t)' = SaleUnit(t) /\ SaleUnit(t) \in Units
                                 /\ SaleUnit(t) # u
      /\ \A r \in Reservations :
            /\ Committed(r)' = Committed(r)
            /\ Committed(r) => reservation[r].unit # u /\ reservation[r].unit \in Units
  BY <1>1, <1>2, <1>3, <1>u, OtherContracts
<1>8. Holding'
  <2>1. (\A q, p \in Reservations :
          Committed(q) /\ Committed(p) /\ reservation[q].unit = reservation[p].unit => q = p)'
    BY <1>2, <1>7 DEF Inv, Holding
  <2>2. (\A t, w \in Sales :
          Contracting(t) /\ Contracting(w) /\ SaleUnit(t) = SaleUnit(w) => t = w)'
    <3> SUFFICES ASSUME NEW t \in Sales, NEW w \in Sales, Contracting(t)', Contracting(w)',
                        SaleUnit(t)' = SaleUnit(w)'
                 PROVE  t = w
      OBVIOUS
    <3>1. t # s /\ w # s
      BY <1>6
    <3>2. Contracting(t) /\ Contracting(w)
      BY <1>7, <3>1
    <3>3. SaleUnit(t) = SaleUnit(w)
      BY <1>7, <3>1, <3>2
    <3>4. \A x, y \in Sales :
             Contracting(x) /\ Contracting(y) /\ SaleUnit(x) = SaleUnit(y) => x = y
      BY DEF Inv, Holding
    <3> QED
      BY <3>2, <3>3, <3>4
  <2>3. (\A q \in Reservations :
          Committed(q) => unit[reservation[q].unit].commercial_status = "reserved")'
    <3> SUFFICES ASSUME NEW q \in Reservations, Committed(q)'
                 PROVE  unit'[reservation'[q].unit].commercial_status = "reserved"
      OBVIOUS
    <3>1. Committed(q) /\ reservation[q].unit # u /\ reservation[q].unit \in Units
      BY <1>7
    <3>2. unit[reservation[q].unit].commercial_status = "reserved"
      BY <3>1 DEF Inv, Holding
    <3> QED
      BY <1>2, <1>4, <3>1, <3>2
  <2>4. (\A t \in Sales :
          Contracting(t) => unit[SaleUnit(t)].commercial_status =
                               IF Unsigned(t) THEN "contract_pending" ELSE "contracted")'
    BY <1>4, <1>6, <1>7 DEF Inv, Holding
  <2>5. (\A v \in Units :
          unit[v].commercial_status = "reserved"
             => \E q \in Reservations : Committed(q) /\ reservation[q].unit = v)'
    BY <1>2, <1>4, <1>7 DEF Inv, Holding
  <2>6. (\A v \in Units :
          unit[v].commercial_status \in {"contract_pending", "contracted"}
             => \E t \in Sales : Contracting(t) /\ SaleUnit(t) = v)'
    <3> SUFFICES ASSUME NEW v \in Units,
                        unit'[v].commercial_status \in {"contract_pending", "contracted"}
                 PROVE  \E t \in Sales : Contracting(t)' /\ SaleUnit(t)' = v
      OBVIOUS
    <3>1. v # u
      BY <1>4
    <3>2. PICK t \in Sales : Contracting(t) /\ SaleUnit(t) = v
      BY <1>4, <3>1 DEF Inv, Holding
    <3> QED
      BY <1>7, <1>u, <3>1, <3>2
  <2> QED
    BY <2>1, <2>2, <2>3, <2>4, <2>5, <2>6 DEF Holding
<1> QED
  BY <1>5, <1>8

LEMMA SaleInv == Inv /\ SaleNext => Links' /\ Holding'
<1> SUFFICES ASSUME Inv, SaleNext PROVE Links' /\ Holding'
  OBVIOUS
<1>s. PICK s \in Sales :
        \/ \E r \in Reservations, gated \in BOOLEAN : create_sale(s, r, gated)
        \/ \E gated \in BOOLEAN : update_sale(s, gated)
        \/ Submits(s)
        \/ confirm_first_payment(s) \/ waive_first_payment(s)
        \/ record_signatures(s) \/ reverse_signature(s)
        \/ Signs(s)
        \/ start_cancellation(s) \/ withdraw_cancellation(s)
        \/ Completes(s)
  BY DEF SaleNext, Submits, Signs, Completes
\* A row whose status, reservation and activation stay.
<1>p. ASSUME \A t \in Sales : t # s => sale'[t] = sale[t],
             sale[s].status # "none",
             sale'[s].status = sale[s].status,
             sale'[s].reservation = sale[s].reservation,
             sale'[s].activated = sale[s].activated,
             UNCHANGED <<unit, reservation>>
      PROVE  Links' /\ Holding'
  <2>1. Contracting(s)' = Contracting(s) /\ Unsigned(s)' = Unsigned(s)
    BY <1>p DEF Contracting, Unsigned
  <2> QED
    BY <1>p, <2>1, PaperworkInv DEF Inv, Links
<1>1. CASE \E r \in Reservations, gated \in BOOLEAN : create_sale(s, r, gated)
  <2>1. PICK r \in Reservations, gated \in BOOLEAN : create_sale(s, r, gated)
    BY <1>1
  <2>2. /\ \A t \in Sales : t # s => sale'[t] = sale[t]
        /\ sale'[s].status = "draft" /\ sale'[s].reservation = r /\ ~sale'[s].activated
        /\ sale[s].status = "none"
        /\ UNCHANGED <<unit, reservation>>
    BY <2>1 DEF create_sale, NoSale, Inv, TypeOK
  <2>3. reservation[r].status # "none"
    BY <2>1 DEF create_sale, Committed, ReservationCommitted
  <2>4. Contracting(s)' = Contracting(s) /\ ~Contracting(s)
    BY <2>2 DEF Contracting, SaleCommitted
  <2> QED
    BY <2>2, <2>3, <2>4, PaperworkInv
<1>2. CASE \E gated \in BOOLEAN : update_sale(s, gated)
  <2>1. PICK gate : sale' = [sale EXCEPT ![s].gate = gate]
    BY <1>2 DEF update_sale
  <2>2. sale[s].status # "none" /\ UNCHANGED <<unit, reservation>>
    BY <1>2 DEF update_sale
  <2> QED
    BY <1>p, <2>1, <2>2 DEF Inv, TypeOK, SaleRow
<1>3. CASE Submits(s)
  BY <1>3, SubmitSaleInv
<1>4. CASE confirm_first_payment(s) \/ waive_first_payment(s)
  <2>1. PICK gate : sale' = [sale EXCEPT ![s].gate = gate]
    BY <1>4 DEF confirm_first_payment, waive_first_payment, SettleFirstPayment
  <2>2. sale[s].status # "none" /\ UNCHANGED <<unit, reservation>>
    BY <1>4 DEF confirm_first_payment, waive_first_payment, SettleFirstPayment
  <2> QED
    BY <1>p, <2>1, <2>2 DEF Inv, TypeOK, SaleRow
<1>5. CASE record_signatures(s) \/ reverse_signature(s)
  <2>1. PICK signed : sale' = [sale EXCEPT ![s].signed = signed]
    BY <1>5 DEF record_signatures, reverse_signature
  <2>2. sale[s].status # "none" /\ UNCHANGED <<unit, reservation>>
    BY <1>5 DEF record_signatures, reverse_signature
  <2> QED
    BY <1>p, <2>1, <2>2 DEF Inv, TypeOK, SaleRow
<1>6. CASE Signs(s)
  BY <1>6, ActivateSaleInv
<1>7. CASE start_cancellation(s) \/ withdraw_cancellation(s)
  <2>1. /\ \A t \in Sales : t # s => sale'[t] = sale[t]
        /\ sale'[s].reservation = sale[s].reservation
        /\ sale'[s].activated = sale[s].activated
        /\ sale[s].status \in SaleCommitted
        /\ sale'[s].status \in {"signature_pending", "active", "termination_pending"}
        /\ Unsigned(s)' = Unsigned(s)
        /\ sale'[s].status = "active" => sale'[s].activated
        /\ sale'[s].status = "signature_pending" => ~sale'[s].activated
        /\ UNCHANGED <<unit, reservation>>
    <3>1. CASE start_cancellation(s)
      BY <3>1 DEF start_cancellation, SaleCommitted, Unsigned, Inv, TypeOK, SaleRow, Links
    <3>2. CASE withdraw_cancellation(s)
      BY <3>2 DEF withdraw_cancellation, SaleCommitted, Unsigned, Inv, TypeOK, SaleRow
    <3> QED
      BY <1>7, <3>1, <3>2
  <2>2. Contracting(s)' = Contracting(s)
    BY <2>1 DEF Contracting, SaleCommitted
  <2>3. sale[s].reservation \in Reservations /\ reservation[sale[s].reservation].status # "none"
    BY <2>1 DEF Inv, Links, SaleCommitted
  <2> QED
    BY <2>1, <2>2, <2>3, PaperworkInv
<1>8. CASE Completes(s)
  BY <1>8, CompleteCancellationInv
<1> QED
  BY <1>s, <1>1, <1>2, <1>3, <1>4, <1>5, <1>6, <1>7, <1>8

LEMMA NextInv == Inv /\ [Next]_vars => Inv'
<1> SUFFICES ASSUME Inv, [Next]_vars PROVE Inv'
  OBVIOUS
<1>1. TypeOK'
  <2>1. NextDay => Rows'
    BY UnitSaleAssumption DEF NextDay, TypeOK, Rows, Inv
  <2>2. UNCHANGED vars => Rows'
    BY DEF vars, TypeOK, Rows, Inv
  <2>3. TypeOK /\ Links
    BY DEF Inv
  <2>4. Rows'
    BY <2>1, <2>2, <2>3, InventoryType, ReservationType, SaleType DEF Next
  <2> QED
    BY <2>4, HistoryType DEF TypeOK, Rows, Inv
<1>2. CASE NextDay \/ UNCHANGED vars
  <2>1. UNCHANGED <<unit, reservation, sale>>
    BY <1>2 DEF NextDay, vars
  <2>2. Links'
    BY <2>1 DEF Inv, Links
  <2>3. \A r \in Reservations : Committed(r)' = Committed(r)
    BY <2>1 DEF Committed
  <2>4. \A s \in Sales : /\ Contracting(s)' = Contracting(s)
                         /\ SaleUnit(s)' = SaleUnit(s)
                         /\ Unsigned(s)' = Unsigned(s)
    BY <2>1 DEF Contracting, SaleUnit, Unsigned
  <2>5. Holding'
    BY <2>1, <2>3, <2>4, HoldingFrame DEF Inv
  <2> QED
    BY <1>1, <2>2, <2>5 DEF Inv
<1> QED
  BY <1>1, <1>2, InventoryInv, ReservationInv, SaleInv DEF Next, Inv

\* Every row of every table keeps its columns' types, and the bounds hold.
THEOREM TypeCorrect == Spec => []TypeOK
<1>1. Inv => TypeOK
  BY DEF Inv
<1> QED
  BY <1>1, InitInv, NextInv, PTL DEF Spec

\* A unit has at most one holder, for any number of units, reservations and
\* contracts, in every reachable state.
THEOREM Exclusive == Spec => []ExclusiveCommitment
<1>1. Inv => ExclusiveCommitment
  BY HoldingImplies DEF Inv
<1> QED
  BY <1>1, InitInv, NextInv, PTL DEF Spec

\* Inventory's column and the two sales tables never disagree about who holds a
\* unit.
THEOREM StatusAgrees == Spec => []StatusFollowsHolder
<1>1. Inv => StatusFollowsHolder
  BY HoldingImplies DEF Inv
<1> QED
  BY <1>1, InitInv, NextInv, PTL DEF Spec

-----------------------------------------------------------------------------
(* The price on the release gate *)

\* Whatever a step does to a unit, it keeps its price as it was, withdraws the
\* approval, or cuts a new price from the unit as it stands.
PriceStep(u) ==
    \/ ~unit'[u].pricing_approved
    \/ /\ unit[u].pricing_approved
       /\ unit'[u].prices = unit[u].prices
       /\ unit'[u].basis = unit[u].basis
    \/ unit'[u].prices = Append(unit[u].prices, unit[u].basis)
          /\ unit'[u].basis = unit[u].basis

LEMMA CommercialMovesKeepPrice ==
    ASSUME TypeOK, NEW u, NEW to, SetCommercial(u, to), NEW v \in Units
    PROVE  PriceStep(v)
BY DEF SetCommercial, PriceStep, TypeOK, UnitRow

LEMMA InventoryPriceStep ==
    ASSUME TypeOK, NEW v \in Units, InventoryNext
    PROVE  PriceStep(v)
<1> USE DEF TypeOK, UnitRow
<1>u. PICK u \in Units :
        \/ activate_price_version(u)
        \/ \E b \in Bases : update_unit(u, b) \/ approve_area_schedule(u, b)
        \/ deactivate_unit(u) \/ reactivate_unit(u)
        \/ remove_unit(u) \/ restore_unit(u)
        \/ \E to \in CommercialStatuses : Transitions(u, to)
        \/ \E day \in 0..Never : update_release_controls(u, day)
        \/ release_due(u)
        \/ return_unit_to_market(u)
  BY DEF InventoryNext, Transitions
<1>1. CASE activate_price_version(u)
  BY <1>1 DEF activate_price_version, PriceStep
<1>2. ASSUME NEW b \in Bases, update_unit(u, b) PROVE PriceStep(v)
  BY <1>2 DEF update_unit, PriceStep
<1>3. ASSUME NEW b \in Bases, approve_area_schedule(u, b) PROVE PriceStep(v)
  BY <1>3 DEF approve_area_schedule, PriceStep
<1>4. CASE deactivate_unit(u)
  BY <1>4 DEF deactivate_unit, PriceStep
<1>5. CASE reactivate_unit(u)
  BY <1>5 DEF reactivate_unit, PriceStep
<1>6. CASE remove_unit(u)
  BY <1>6 DEF remove_unit, PriceStep
<1>7. CASE restore_unit(u)
  BY <1>7 DEF restore_unit, PriceStep
<1>8. CASE \E to \in CommercialStatuses : Transitions(u, to)
  BY <1>8, CommercialMovesKeepPrice DEF Transitions, transition_commercial_status
<1>9. ASSUME NEW day \in 0..Never, update_release_controls(u, day) PROVE PriceStep(v)
  BY <1>9 DEF update_release_controls, PriceStep
<1>10. CASE release_due(u) \/ return_unit_to_market(u)
  BY <1>10, CommercialMovesKeepPrice DEF release_due, return_unit_to_market
<1> QED
  BY <1>u, <1>1, <1>2, <1>3, <1>4, <1>5, <1>6, <1>7, <1>8, <1>9, <1>10

LEMMA SalesPriceStep ==
    ASSUME TypeOK, NEW v \in Units, ReservationNext \/ SaleNext
    PROVE  PriceStep(v)
<1>1. \/ UNCHANGED unit
      \/ \E u, to : SetCommercial(u, to)
      \/ \E s \in Sales : Completes(s)
  <2>1. CASE ReservationNext
    <3>1. ASSUME NEW r \in Reservations, NEW to, Closes(r, to)
          PROVE  UNCHANGED unit \/ \E u, w : SetCommercial(u, w)
      BY <3>1 DEF Closes, close_reservation
    <3>2. ASSUME NEW r \in Reservations, Expires(r) \/ Cancels(r)
          PROVE  UNCHANGED unit \/ \E u, w : SetCommercial(u, w)
      BY <3>1, <3>2 DEF Expires, Cancels, Closes, expire_reservation, cancel_reservation
    <3>3. ASSUME NEW r \in Reservations, Activates(r)
          PROVE  \E u, w : SetCommercial(u, w)
      BY <3>3 DEF Activates, activate_reservation
    <3>4. ASSUME NEW r \in Reservations, confirm_deposit(r) \/ waive_deposit(r)
          PROVE  UNCHANGED unit
      BY <3>4 DEF confirm_deposit, waive_deposit, SettleDeposit
    <3>5. ASSUME NEW r \in Reservations,
                 \/ \E expires \in Days : update_reservation(r, expires)
                 \/ \E breach \in Breaches : revise_quote(r, breach)
                 \/ submit_exception(r)
                 \/ \E approved \in BOOLEAN : decide_exception(r, approved)
                 \/ \E expires \in Days : Extends(r, expires)
                 \/ read_for_expiry(r)
          PROVE  UNCHANGED unit
      BY <3>5 DEF update_reservation, revise_quote, submit_exception, decide_exception,
         Extends, extend_reservation, read_for_expiry
    <3>6. ASSUME NEW r \in Reservations, NEW u, NEW expires, NEW lock, NEW target, NEW breach,
                 create_reservation(r, u, expires, lock, target, breach)
          PROVE  UNCHANGED unit
      BY <3>6 DEF create_reservation
    <3>7. ASSUME NEW r \in Reservations, NEW lock, NEW breach, requote_reservation(r, lock, breach)
          PROVE  UNCHANGED unit
      BY <3>7 DEF requote_reservation
    <3> QED
      <4>1. PICK r \in Reservations :
              \/ Expires(r) \/ Cancels(r)
              \/ Activates(r)
              \/ confirm_deposit(r) \/ waive_deposit(r)
              \/ \E expires \in Days : update_reservation(r, expires)
              \/ \E breach \in Breaches : revise_quote(r, breach)
              \/ submit_exception(r)
              \/ \E approved \in BOOLEAN : decide_exception(r, approved)
              \/ \E expires \in Days : Extends(r, expires)
              \/ read_for_expiry(r)
              \/ \E u, expires, lock, target, breach :
                    create_reservation(r, u, expires, lock, target, breach)
              \/ \E lock, breach : requote_reservation(r, lock, breach)
        BY <2>1 DEF ReservationNext, Expires, Cancels, Activates, Extends
      <4> QED
        BY <3>2, <3>3, <3>4, <3>5, <3>6, <3>7, <4>1
  <2>2. CASE SaleNext
    <3>1. ASSUME NEW s \in Sales, Submits(s) \/ Signs(s)
          PROVE  \E u, to : SetCommercial(u, to)
      BY <3>1 DEF Submits, submit_sale, Signs, activate_sale
    <3>2. ASSUME NEW s \in Sales,
                 \/ \E r \in Reservations, gated \in BOOLEAN : create_sale(s, r, gated)
                 \/ \E gated \in BOOLEAN : update_sale(s, gated)
                 \/ confirm_first_payment(s) \/ waive_first_payment(s)
                 \/ record_signatures(s) \/ reverse_signature(s)
                 \/ start_cancellation(s) \/ withdraw_cancellation(s)
          PROVE  UNCHANGED unit
      BY <3>2 DEF create_sale, update_sale, confirm_first_payment, waive_first_payment,
         SettleFirstPayment, record_signatures, reverse_signature, start_cancellation,
         withdraw_cancellation
    <3>3. PICK s \in Sales :
            \/ Submits(s) \/ Signs(s)
            \/ \E r \in Reservations, gated \in BOOLEAN : create_sale(s, r, gated)
            \/ \E gated \in BOOLEAN : update_sale(s, gated)
            \/ confirm_first_payment(s) \/ waive_first_payment(s)
            \/ record_signatures(s) \/ reverse_signature(s)
            \/ start_cancellation(s) \/ withdraw_cancellation(s)
            \/ Completes(s)
      BY <2>2 DEF SaleNext, Submits, Signs, Completes
    <3> QED
      BY <3>1, <3>2, <3>3
  <2> QED
    BY <2>1, <2>2
<1>2. CASE UNCHANGED unit
  BY <1>2 DEF PriceStep, TypeOK, UnitRow
<1>3. CASE \E u, to : SetCommercial(u, to)
  BY <1>3, CommercialMovesKeepPrice
<1>4. CASE \E s \in Sales : Completes(s)
  BY <1>4 DEF Completes, complete_cancellation, PriceStep, TypeOK, UnitRow
<1> QED
  BY <1>1, <1>2, <1>3, <1>4

\* The release gate is never open on a price cut from an older revision of the
\* unit, however measurements, prices and sales interleave.
THEOREM GatePriceCurrent == Spec => []ApprovedPriceDescribesUnit
<1>1. Init => ApprovedPriceDescribesUnit
  BY DEF Init, ApprovedPriceDescribesUnit
<1>2. TypeOK /\ ApprovedPriceDescribesUnit /\ [Next]_vars => ApprovedPriceDescribesUnit'
  <2> SUFFICES ASSUME TypeOK, ApprovedPriceDescribesUnit, [Next]_vars,
                      NEW v \in Units, unit'[v].pricing_approved
               PROVE  BasisCurrent(v, ActivePrice(v))'
    BY DEF ApprovedPriceDescribesUnit
  <2>1. PriceStep(v)
    <3>1. CASE NextDay \/ UNCHANGED vars
      BY <3>1 DEF NextDay, vars, PriceStep, TypeOK, UnitRow
    <3> QED
      BY <3>1, InventoryPriceStep, SalesPriceStep DEF Next
  <2>2. unit[v].prices \in Seq(Bases)
    BY DEF TypeOK, UnitRow
  <2>3. CASE /\ unit[v].pricing_approved
             /\ unit'[v].prices = unit[v].prices
             /\ unit'[v].basis = unit[v].basis
    BY <2>3 DEF ApprovedPriceDescribesUnit, BasisCurrent, ActivePrice
  <2>4. CASE unit'[v].prices = Append(unit[v].prices, unit[v].basis)
             /\ unit'[v].basis = unit[v].basis
    <3>1. unit[v].basis \in Bases
      BY DEF TypeOK, UnitRow
    <3>2. LET p == Append(unit[v].prices, unit[v].basis)
          IN  Len(p) \in 1..Len(p) /\ p[Len(p)] = unit[v].basis
      BY <2>2, <3>1
    <3> QED
      BY <2>4, <3>2 DEF BasisCurrent, ActivePrice
  <2> QED
    BY <2>1, <2>3, <2>4 DEF PriceStep
<1> QED
  BY <1>1, <1>2, TypeCorrect, PTL DEF Spec

-----------------------------------------------------------------------------
(* The quote a contract rests on *)

\* Which reservations a contract may rest on, and on which of their quotes.
RestsOn(contract) ==
    /\ contract.status = "none" => contract.reservation = NoRecord
    /\ contract.status \notin {"none", "cancelled"} =>
          /\ reservation[contract.reservation].status
                \notin ReservationPreparing \cup {"none"}
          /\ contract.quote = reservation[contract.reservation].quote
    /\ contract.status \in SaleCommitted =>
          /\ reservation[contract.reservation].status = "converted"
          /\ ExceptionSettled(contract.reservation)

Sanctioned(row) == row.exception = "approved" => row.sanctioned = row.quote

Quotes ==
    /\ \A s \in Sales : RestsOn(sale[s])
    /\ \A r \in Reservations : Sanctioned(reservation[r])

LEMMA QuotesImply == Quotes => ContractMatchesQuote
  BY DEF Quotes, RestsOn, Sanctioned, ContractMatchesQuote, Contracting

\* One reservation's row changes: no contract rests on it yet, or it keeps the quote
\* its draft was drawn on.
LEMMA ReservationKeepsQuotes ==
    ASSUME Inv, Quotes, NEW r \in Reservations, NEW row,
           reservation' = [reservation EXCEPT ![r] = row],
           \A s \in Sales : sale'[s] = sale[s] \/ sale'[s].status = "cancelled",
           Sanctioned(row),
           \/ reservation[r].status \in ReservationPreparing \cup {"none"}
           \/ /\ Committed(r)
              /\ row.quote = reservation[r].quote
              /\ row.status \notin ReservationPreparing \cup {"none"}
    PROVE  Quotes'
<1>1. reservation'[r] = row /\ \A q \in Reservations : q # r => reservation'[q] = reservation[q]
  BY DEF Inv, TypeOK
<1>2. \A q \in Reservations : Sanctioned(reservation'[q])
  BY <1>1 DEF Quotes
<1>3. ASSUME NEW s \in Sales
      PROVE  RestsOn(sale[s])'
  <2>1. CASE sale'[s].status = "cancelled"
    BY <2>1 DEF RestsOn, SaleCommitted
  <2>2. CASE sale'[s] = sale[s]
    <3>1. CASE sale[s].status = "none"
      BY <2>2, <3>1 DEF Quotes, RestsOn, SaleCommitted
    <3>2. CASE sale[s].status # "none" /\ sale[s].reservation # r
      <4>1. reservation'[sale[s].reservation] = reservation[sale[s].reservation]
        BY <1>1, <3>2 DEF Inv, Links
      <4>2. RestsOn(sale[s])
        BY DEF Quotes
      <4>3. QED
        BY <2>2, <4>1, <4>2 DEF RestsOn, ExceptionSettled
    <3>3. CASE sale[s].status # "none" /\ sale[s].reservation = r
      <4>1. RestsOn(sale[s])
        BY DEF Quotes
      <4>2. sale[s].status \notin SaleCommitted
        BY <3>3, <4>1 DEF RestsOn, Committed, ReservationCommitted, ReservationPreparing
      <4>3. QED
        BY <1>1, <2>2, <3>3, <4>1, <4>2 DEF RestsOn
    <3>4. QED
      BY <3>1, <3>2, <3>3
  <2>3. QED
    BY <2>1, <2>2
<1>4. QED
  BY <1>2, <1>3 DEF Quotes

\* One contract's row changes and keeps what it rests on.
LEMMA SaleKeepsQuotes ==
    ASSUME Inv, Quotes, NEW s \in Sales, UNCHANGED reservation,
           \A t \in Sales : t # s => sale'[t] = sale[t],
           sale'[s].reservation = sale[s].reservation,
           sale'[s].quote = sale[s].quote,
           \/ sale'[s].status = sale[s].status
           \/ sale'[s].status = "cancelled"
           \/ Contracting(s) /\ sale'[s].status \in SaleCommitted
    PROVE  Quotes'
<1>1. ASSUME NEW t \in Sales
      PROVE  RestsOn(sale[t])'
  <2>1. RestsOn(sale[t])
    BY DEF Quotes
  <2>2. CASE t # s
    <3>1. sale'[t] = sale[t]
      BY <2>2
    <3>2. QED
      BY <2>1, <3>1 DEF RestsOn, ExceptionSettled
  <2>3. CASE t = s
    <3>1. CASE sale'[s].status = "cancelled"
      BY <2>3, <3>1 DEF RestsOn, SaleCommitted
    <3>2. CASE sale'[s].status = sale[s].status
      BY <2>1, <2>3, <3>2 DEF RestsOn, ExceptionSettled
    <3>3. CASE Contracting(s) /\ sale'[s].status \in SaleCommitted
      BY <2>1, <2>3, <3>3 DEF RestsOn, ExceptionSettled, Contracting, SaleCommitted
    <3>4. QED
      BY <3>1, <3>2, <3>3
  <2>4. QED
    BY <2>2, <2>3
<1>2. QED
  BY <1>1 DEF Quotes

\* A new quote takes the approval of the old one with it.
LEMMA FreezeQuoteSanctioned ==
    ASSUME NEW row \in ReservationRow, NEW u, NEW requote \in BOOLEAN, NEW breach \in BOOLEAN
    PROVE  FreezeQuote(row, u, requote, breach).exception # "approved"
BY DEF FreezeQuote, ReservationRow

LEMMA CloseKeepsQuotes ==
    ASSUME Inv, Quotes, NEW r \in Reservations, NEW to \in {"expired", "cancelled"},
           Closes(r, to)
    PROVE  Quotes'
<1> DEFINE row == [reservation[r] EXCEPT !.status = to]
<1>1. reservation' = [reservation EXCEPT ![r] = row]
  BY DEF Closes, close_reservation
<1>2. \A s \in Sales : sale'[s] = sale[s] \/ sale'[s].status = "cancelled"
  <2>1. sale' = [s \in Sales |-> IF to = "cancelled" /\ s \in ContractOf(r)
                                 THEN [sale[s] EXCEPT !.status = "cancelled"]
                                 ELSE sale[s]]
    BY DEF Closes, close_reservation
  <2>2. QED
    BY <2>1 DEF Inv, TypeOK, SaleRow
<1>3. row.quote = reservation[r].quote /\ row.status = to /\ Sanctioned(row)
  BY DEF Inv, TypeOK, ReservationRow, Quotes, Sanctioned
<1>4. \/ reservation[r].status \in ReservationPreparing
      \/ Committed(r)
  BY DEF Closes, close_reservation, MayClose
<1> HIDE DEF row
<1>5. QED
  BY <1>1, <1>2, <1>3, <1>4, ReservationKeepsQuotes DEF ReservationPreparing

LEMMA RequoteKeepsQuotes ==
    ASSUME Inv, Quotes, NEW r \in Reservations, NEW lock \in Days, NEW breach \in Breaches,
           requote_reservation(r, lock, breach)
    PROVE  Quotes'
<1> DEFINE new == FreezeQuote(reservation[r], reservation[r].unit, TRUE, breach)
           row == [new EXCEPT !.price_locked_until = lock]
<1>1. /\ reservation' = [reservation EXCEPT ![r] = row]
      /\ sale' = [s \in Sales |-> IF s \in ContractOf(r)
                                  THEN [sale[s] EXCEPT !.quote = new.quote]
                                  ELSE sale[s]]
      /\ Committed(r)
  BY DEF requote_reservation
<1>2. reservation[r] \in ReservationRow /\ reservation[r].unit \in Units
  BY <1>1, CommittedUnit DEF Inv, TypeOK
<1>3. new \in ReservationRow
  BY <1>2, BreachesType, FreezeQuoteType DEF Inv, TypeOK
<1>4. new.status = reservation[r].status /\ new.exception # "approved"
  BY <1>2, BreachesType, FreezeQuoteKeeps, FreezeQuoteSanctioned
<1> HIDE DEF new
<1>5. row.status = reservation[r].status /\ row.exception # "approved" /\ row.quote = new.quote
  BY <1>3, <1>4 DEF ReservationRow
<1> HIDE DEF row
<1>6. reservation'[r] = row /\ \A q \in Reservations : q # r => reservation'[q] = reservation[q]
  BY <1>1 DEF Inv, TypeOK
<1>7. \A q \in Reservations : Sanctioned(reservation'[q])
  BY <1>5, <1>6 DEF Quotes, Sanctioned
<1>8. ASSUME NEW s \in Sales
      PROVE  RestsOn(sale[s])'
  <2>1. RestsOn(sale[s]) /\ sale[s] \in SaleRow
    BY DEF Quotes, Inv, TypeOK
  <2>2. CASE sale[s].status = "none"
    <3>1. sale[s].reservation = NoRecord /\ sale[s].reservation # r
      BY <2>1, <2>2, UnitSaleAssumption DEF RestsOn
    <3>2. sale'[s] = sale[s]
      BY <1>1, <3>1 DEF ContractOf
    <3>3. QED
      BY <2>2, <3>1, <3>2 DEF RestsOn, SaleCommitted
  <2>3. CASE sale[s].status = "cancelled"
    <3>1. sale'[s] = sale[s]
      BY <1>1, <2>3 DEF ContractOf
    <3>2. QED
      BY <2>3, <3>1 DEF RestsOn, SaleCommitted
  <2>4. CASE sale[s].status \notin {"none", "cancelled"} /\ sale[s].reservation = r
    <3>1. sale[s].status \notin SaleCommitted
      BY <1>1, <2>1, <2>4 DEF RestsOn, Committed, ReservationCommitted
    <3>2. /\ sale'[s].status = sale[s].status
          /\ sale'[s].reservation = r
          /\ sale'[s].quote = new.quote
      BY <1>1, <2>1, <2>4 DEF ContractOf, SaleRow
    <3>3. row.status \notin ReservationPreparing \cup {"none"}
      BY <1>1, <1>5 DEF Committed, ReservationCommitted, ReservationPreparing
    <3>4. QED
      BY <1>5, <1>6, <2>4, <3>1, <3>2, <3>3 DEF RestsOn
  <2>5. CASE sale[s].status \notin {"none", "cancelled"} /\ sale[s].reservation # r
    <3>1. sale'[s] = sale[s]
      BY <1>1, <2>5 DEF ContractOf
    <3>2. reservation'[sale[s].reservation] = reservation[sale[s].reservation]
      BY <1>6, <2>5 DEF Inv, Links
    <3>3. QED
      BY <2>1, <3>1, <3>2 DEF RestsOn, ExceptionSettled
  <2>6. QED
    BY <2>2, <2>3, <2>4, <2>5
<1>9. QED
  BY <1>7, <1>8 DEF Quotes

LEMMA InitQuotes == Init => Quotes
BY DEF Init, Quotes, RestsOn, Sanctioned, NoReservation, NoSale, SaleCommitted

\* Nothing a contract rests on moves.
LEMMA NothingKeepsQuotes ==
    ASSUME Quotes, UNCHANGED <<reservation, sale>>
    PROVE  Quotes'
BY DEF Quotes, RestsOn, Sanctioned, ExceptionSettled

LEMMA CreateReservationKeepsQuotes ==
    ASSUME Inv, Quotes, NEW r \in Reservations, NEW u \in Units, NEW expires \in Days,
           NEW lock \in Days, NEW target \in BOOLEAN, NEW breach \in Breaches,
           create_reservation(r, u, expires, lock, target, breach)
    PROVE  Quotes'
<1> DEFINE row == [NoReservation EXCEPT
                   !.status = IF DepositGate THEN "deposit_pending" ELSE "draft",
                   !.unit = u, !.expires_on = expires,
                   !.price_locked_until = lock, !.target = target,
                   !.gate = IF DepositGate THEN "pending" ELSE "not_required"]
           new == FreezeQuote(row, u, FALSE, breach)
<1>1. row \in ReservationRow
  BY UnitSaleAssumption DEF NoReservation, ReservationRow, ReservationStatuses,
     ReservationPreparing, Exceptions, Gates
<1>2. reservation' = [reservation EXCEPT ![r] = new] /\ reservation[r].status = "none"
      /\ UNCHANGED sale
  BY DEF create_reservation
<1> HIDE DEF row
<1>3. new.exception # "approved"
  BY <1>1, BreachesType, FreezeQuoteSanctioned
<1> HIDE DEF new
<1>4. Sanctioned(new)
  BY <1>3 DEF Sanctioned
<1> QED
  BY <1>2, <1>4, ReservationKeepsQuotes

\* An operation on a reservation still in preparation.
LEMMA ReviseKeepsQuotes ==
    ASSUME Inv, Quotes, NEW r \in Reservations, NEW breach \in Breaches,
           revise_quote(r, breach)
    PROVE  Quotes'
<1> DEFINE new == FreezeQuote(reservation[r], reservation[r].unit, FALSE, breach)
<1>1. /\ reservation' = [reservation EXCEPT ![r] = new]
      /\ reservation[r].status \in ReservationPreparing
      /\ UNCHANGED sale
  BY DEF revise_quote
<1>2. reservation[r] \in ReservationRow
  BY DEF Inv, TypeOK
<1>3. new.exception # "approved"
  BY <1>2, BreachesType, FreezeQuoteSanctioned
<1> HIDE DEF new
<1>4. Sanctioned(new)
  BY <1>3 DEF Sanctioned
<1> QED
  BY <1>1, <1>4, ReservationKeepsQuotes

LEMMA DecideKeepsQuotes ==
    ASSUME Inv, Quotes, NEW r \in Reservations, NEW approved \in BOOLEAN,
           decide_exception(r, approved)
    PROVE  Quotes'
<1> DEFINE x == IF approved THEN "approved" ELSE "rejected"
           new == [reservation[r] EXCEPT !.exception = x, !.sanctioned = reservation[r].quote]
<1>0. reservation[r] \in ReservationRow
  BY DEF Inv, TypeOK
<1>1. /\ reservation' = [reservation EXCEPT ![r] = new]
      /\ ExceptionOpen(r)
      /\ UNCHANGED sale
  <2>1. reservation' = [reservation EXCEPT ![r].exception = x,
                                           ![r].sanctioned = reservation[r].quote]
    BY DEF decide_exception
  <2>2. reservation \in [Reservations -> ReservationRow]
    BY DEF Inv, TypeOK
  <2> HIDE DEF x
  <2>3. reservation' = [reservation EXCEPT ![r] = new]
    BY <2>1, <2>2 DEF ReservationRow
  <2> QED
    BY <2>3 DEF decide_exception
<1>2. /\ new.status = reservation[r].status
      /\ new.quote = reservation[r].quote
      /\ Sanctioned(new)
  BY <1>0 DEF ReservationRow, Sanctioned
<1> HIDE DEF new
<1>3. \/ reservation[r].status \in ReservationPreparing
      \/ Committed(r) /\ new.status \notin ReservationPreparing \cup {"none"}
  BY <1>1, <1>2 DEF ExceptionOpen, Committed, ReservationCommitted, ReservationPreparing
<1> QED
  BY <1>1, <1>2, <1>3, ReservationKeepsQuotes

\* The other operations on a live reservation: dates, gates and statuses.
LEMMA RowKeepsQuotes ==
    ASSUME Inv, Quotes, NEW r \in Reservations, NEW row \in ReservationRow,
           reservation' = [reservation EXCEPT ![r] = row],
           UNCHANGED sale,
           row.quote = reservation[r].quote,
           \/ row.exception # "approved"
           \/ row.exception = reservation[r].exception /\ row.sanctioned = reservation[r].sanctioned,
           \/ reservation[r].status \in ReservationPreparing
           \/ Committed(r) /\ row.status \in ReservationCommitted
    PROVE  Quotes'
<1>1. Sanctioned(row)
  BY DEF Quotes, Sanctioned
<1>2. \/ reservation[r].status \in ReservationPreparing
      \/ Committed(r) /\ row.status \notin ReservationPreparing \cup {"none"}
  BY DEF ReservationCommitted, ReservationPreparing
<1> QED
  BY <1>1, <1>2, ReservationKeepsQuotes

LEMMA ReservationQuotes == Inv /\ Quotes /\ ReservationNext => Quotes'
<1> SUFFICES ASSUME Inv, Quotes, ReservationNext PROVE Quotes'
  OBVIOUS
<1>r. PICK r \in Reservations :
        \/ \E u \in Units, expires, lock \in Days, target \in BOOLEAN, breach \in Breaches :
              create_reservation(r, u, expires, lock, target, breach)
        \/ \E expires \in Days : update_reservation(r, expires)
        \/ \E breach \in Breaches : revise_quote(r, breach)
        \/ submit_exception(r)
        \/ \E approved \in BOOLEAN : decide_exception(r, approved)
        \/ confirm_deposit(r) \/ waive_deposit(r)
        \/ Activates(r)
        \/ \E expires \in Days : Extends(r, expires)
        \/ read_for_expiry(r) \/ Expires(r)
        \/ Cancels(r)
        \/ \E lock \in Days, breach \in Breaches : requote_reservation(r, lock, breach)
  BY DEF ReservationNext, Activates, Extends, Expires, Cancels
<1>0. reservation \in [Reservations -> ReservationRow] /\ reservation[r] \in ReservationRow
  BY DEF Inv, TypeOK
<1>1. ASSUME NEW expires \in Days, update_reservation(r, expires)
      PROVE  Quotes'
  <2> DEFINE row == [reservation[r] EXCEPT !.expires_on = expires]
  <2>1. /\ reservation' = [reservation EXCEPT ![r] = row] /\ UNCHANGED sale
        /\ reservation[r].status \in ReservationPreparing
    BY <1>1 DEF update_reservation
  <2>2. /\ row \in ReservationRow /\ row.quote = reservation[r].quote
        /\ row.exception = reservation[r].exception /\ row.sanctioned = reservation[r].sanctioned
    BY <1>0 DEF ReservationRow
  <2> HIDE DEF row
  <2> QED
    BY <2>1, <2>2, RowKeepsQuotes
<1>2. CASE submit_exception(r)
  <2> DEFINE row == [reservation[r] EXCEPT !.exception = "submitted"]
  <2>1. /\ reservation' = [reservation EXCEPT ![r] = row] /\ UNCHANGED sale
        /\ reservation[r].status \in ReservationPreparing \/ Committed(r)
    BY <1>2 DEF submit_exception, ExceptionOpen
  <2>2. /\ row \in ReservationRow /\ row.quote = reservation[r].quote
        /\ row.exception # "approved" /\ row.status = reservation[r].status
    BY <1>0 DEF ReservationRow, Exceptions
  <2> HIDE DEF row
  <2> QED
    BY <2>1, <2>2, RowKeepsQuotes DEF Committed
<1>3. ASSUME NEW how \in Gates, SettleDeposit(r, how)
      PROVE  Quotes'
  <2> DEFINE row == [reservation[r] EXCEPT !.gate = how]
  <2>1. /\ reservation' = [reservation EXCEPT ![r] = row] /\ UNCHANGED sale
        /\ reservation[r].status \in ReservationPreparing
    BY <1>3 DEF SettleDeposit
  <2>2. /\ row \in ReservationRow /\ row.quote = reservation[r].quote
        /\ row.exception = reservation[r].exception /\ row.sanctioned = reservation[r].sanctioned
    BY <1>0 DEF ReservationRow
  <2> HIDE DEF row
  <2> QED
    BY <2>1, <2>2, RowKeepsQuotes
<1>4. CASE Activates(r)
  <2> DEFINE row == [reservation[r] EXCEPT !.status = "active"]
  <2>1. /\ reservation' = [reservation EXCEPT ![r] = row] /\ UNCHANGED sale
        /\ reservation[r].status \in ReservationPreparing
    BY <1>4 DEF Activates, activate_reservation
  <2>2. /\ row \in ReservationRow /\ row.quote = reservation[r].quote
        /\ row.exception = reservation[r].exception /\ row.sanctioned = reservation[r].sanctioned
    BY <1>0 DEF ReservationRow, ReservationStatuses, ReservationCommitted
  <2> HIDE DEF row
  <2> QED
    BY <2>1, <2>2, RowKeepsQuotes
<1>5. ASSUME NEW expires \in Days, Extends(r, expires)
      PROVE  Quotes'
  <2> DEFINE row == [reservation[r] EXCEPT !.expires_on = expires, !.status = "extended"]
  <2>1. reservation' = [reservation EXCEPT ![r] = row] /\ UNCHANGED sale /\ Committed(r)
    <3>1. reservation' = [reservation EXCEPT ![r].expires_on = expires, ![r].status = "extended"]
      BY <1>5 DEF Extends, extend_reservation
    <3>2. reservation' = [reservation EXCEPT ![r] = row]
      BY <1>0, <3>1 DEF ReservationRow
    <3> QED
      BY <1>5, <3>2 DEF Extends, extend_reservation
  <2>2. /\ row \in ReservationRow /\ row.quote = reservation[r].quote
        /\ row.exception = reservation[r].exception /\ row.sanctioned = reservation[r].sanctioned
        /\ row.status \in ReservationCommitted
    BY <1>0 DEF ReservationRow, ReservationStatuses, ReservationCommitted
  <2> HIDE DEF row
  <2> QED
    BY <2>1, <2>2, RowKeepsQuotes
<1>6. CASE read_for_expiry(r)
  BY <1>6, NothingKeepsQuotes DEF read_for_expiry
<1>7. CASE Expires(r)
  BY <1>7, CloseKeepsQuotes, NothingKeepsQuotes DEF Expires, Closes, expire_reservation
<1>8. CASE Cancels(r)
  BY <1>8, CloseKeepsQuotes DEF Cancels, Closes, cancel_reservation
<1>9. CASE confirm_deposit(r) \/ waive_deposit(r)
  BY <1>3, <1>9 DEF confirm_deposit, waive_deposit, Gates
<1> QED
  BY <1>r, <1>1, <1>2, <1>4, <1>5, <1>6, <1>7, <1>8, <1>9, CreateReservationKeepsQuotes,
     ReviseKeepsQuotes, DecideKeepsQuotes, RequoteKeepsQuotes

LEMMA CreateSaleKeepsQuotes ==
    ASSUME Inv, Quotes, NEW s \in Sales, NEW r \in Reservations, NEW gated \in BOOLEAN,
           create_sale(s, r, gated)
    PROVE  Quotes'
<1>1. /\ \A t \in Sales : t # s => sale'[t] = sale[t]
      /\ sale'[s].status = "draft" /\ sale'[s].reservation = r
      /\ sale'[s].quote = reservation[r].quote
      /\ UNCHANGED reservation /\ Committed(r)
  BY DEF create_sale, NoSale, Inv, TypeOK
<1>2. RestsOn(sale[s])'
  BY <1>1 DEF RestsOn, Committed, ReservationCommitted, ReservationPreparing, SaleCommitted
<1>3. ASSUME NEW t \in Sales, t # s
      PROVE  RestsOn(sale[t])'
  <2>1. sale'[t] = sale[t] /\ RestsOn(sale[t])
    BY <1>1, <1>3 DEF Quotes
  <2> QED
    BY <1>1, <2>1 DEF RestsOn, ExceptionSettled
<1> QED
  BY <1>1, <1>2, <1>3 DEF Quotes

LEMMA SubmitSaleKeepsQuotes ==
    ASSUME Inv, Quotes, NEW s \in Sales, Submits(s)
    PROVE  Quotes'
<1> DEFINE r == sale[s].reservation
<1>1. /\ sale' = [sale EXCEPT ![s].status = "signature_pending"]
      /\ reservation' = [reservation EXCEPT ![r].status = "converted"]
      /\ sale[s].status = "draft"
      /\ Committed(r)
      /\ ExceptionSettled(r)
      /\ sale[s].quote = reservation[r].quote
  BY DEF Submits, submit_sale
<1>2. r \in Reservations
  BY <1>1 DEF Inv, Links
<1>3. /\ sale'[s].status = "signature_pending" /\ sale'[s].reservation = r
      /\ sale'[s].quote = sale[s].quote
      /\ \A t \in Sales : t # s => sale'[t] = sale[t]
  BY <1>1 DEF Inv, TypeOK, SaleRow
<1>4. /\ reservation'[r].status = "converted"
      /\ \A q \in Reservations : /\ reservation'[q].quote = reservation[q].quote
                                 /\ reservation'[q].exception = reservation[q].exception
                                 /\ reservation'[q].sanctioned = reservation[q].sanctioned
                                 /\ q # r => reservation'[q] = reservation[q]
  BY <1>1, <1>2 DEF Inv, TypeOK, ReservationRow
<1> HIDE DEF r
<1>5. RestsOn(sale[s])'
  BY <1>1, <1>2, <1>3, <1>4 DEF RestsOn, SaleCommitted, ExceptionSettled, ReservationPreparing
<1>6. ASSUME NEW t \in Sales, t # s
      PROVE  RestsOn(sale[t])'
  <2>1. sale'[t] = sale[t] /\ RestsOn(sale[t])
    BY <1>3, <1>6 DEF Quotes
  <2>2. CASE sale[t].status = "none"
    BY <2>1, <2>2 DEF RestsOn, SaleCommitted
  <2>3. CASE sale[t].status # "none" /\ sale[t].reservation # r
    <3>1. reservation'[sale[t].reservation] = reservation[sale[t].reservation]
      BY <1>4, <2>3 DEF Inv, Links
    <3> QED
      BY <2>1, <3>1 DEF RestsOn, ExceptionSettled
  <2>4. CASE sale[t].status # "none" /\ sale[t].reservation = r
    <3>1. sale[t].status \notin SaleCommitted
      BY <1>1, <2>1, <2>4 DEF RestsOn, Committed, ReservationCommitted
    <3> QED
      BY <1>2, <1>4, <2>1, <2>4, <3>1 DEF RestsOn, ReservationPreparing
  <2> QED
    BY <2>2, <2>3, <2>4
<1> QED
  BY <1>4, <1>5, <1>6 DEF Quotes, Sanctioned

LEMMA SaleQuotes == Inv /\ Quotes /\ SaleNext => Quotes'
<1> SUFFICES ASSUME Inv, Quotes, SaleNext PROVE Quotes'
  OBVIOUS
<1>s. PICK s \in Sales :
        \/ \E r \in Reservations, gated \in BOOLEAN : create_sale(s, r, gated)
        \/ \E gated \in BOOLEAN : update_sale(s, gated)
        \/ Submits(s)
        \/ confirm_first_payment(s) \/ waive_first_payment(s)
        \/ record_signatures(s) \/ reverse_signature(s)
        \/ Signs(s)
        \/ start_cancellation(s) \/ withdraw_cancellation(s)
        \/ Completes(s)
  BY DEF SaleNext, Submits, Signs, Completes
<1> USE DEF Inv, TypeOK, SaleRow
<1>1. CASE \E gated \in BOOLEAN : update_sale(s, gated)
  <2>1. PICK gate : sale' = [sale EXCEPT ![s].gate = gate] /\ UNCHANGED reservation
    BY <1>1 DEF update_sale
  <2> QED
    BY <2>1, SaleKeepsQuotes
<1>2. CASE confirm_first_payment(s) \/ waive_first_payment(s)
  <2>1. PICK gate : sale' = [sale EXCEPT ![s].gate = gate] /\ UNCHANGED reservation
    BY <1>2 DEF confirm_first_payment, waive_first_payment, SettleFirstPayment
  <2> QED
    BY <2>1, SaleKeepsQuotes
<1>3. CASE record_signatures(s) \/ reverse_signature(s)
  <2>1. PICK signed : sale' = [sale EXCEPT ![s].signed = signed] /\ UNCHANGED reservation
    BY <1>3 DEF record_signatures, reverse_signature
  <2> QED
    BY <2>1, SaleKeepsQuotes
<1>4. CASE Signs(s) \/ start_cancellation(s) \/ withdraw_cancellation(s)
           \/ Completes(s)
  <2>1. /\ \A t \in Sales : t # s => sale'[t] = sale[t]
        /\ sale'[s].reservation = sale[s].reservation
        /\ sale'[s].quote = sale[s].quote
        /\ UNCHANGED reservation
        /\ sale'[s].status \in SaleCommitted \cup {"cancelled"}
        /\ Contracting(s)
    <3>1. CASE Signs(s)
      BY <3>1 DEF Signs, activate_sale, SaleCommitted, Contracting
    <3>2. CASE start_cancellation(s)
      BY <3>2 DEF start_cancellation, SaleCommitted, Contracting
    <3>3. CASE withdraw_cancellation(s)
      BY <3>3 DEF withdraw_cancellation, SaleCommitted, Contracting
    <3>4. CASE Completes(s)
      BY <3>4 DEF Completes, complete_cancellation, SaleCommitted, Contracting
    <3> QED
      BY <1>4, <3>1, <3>2, <3>3, <3>4
  <2> QED
    BY <2>1, SaleKeepsQuotes
<1> QED
  BY <1>s, <1>1, <1>2, <1>3, <1>4, CreateSaleKeepsQuotes, SubmitSaleKeepsQuotes

LEMMA InventoryOnly ==
    ASSUME InventoryNext PROVE UNCHANGED <<today, reservation, sale, expiring>>
BY DEF InventoryNext, activate_price_version, update_unit, approve_area_schedule,
   deactivate_unit, reactivate_unit, remove_unit, restore_unit,
   Transitions, transition_commercial_status, update_release_controls, release_due,
   return_unit_to_market

LEMMA NextQuotes == Inv /\ Quotes /\ [Next]_vars => Quotes'
<1>1. ASSUME Quotes, NextDay \/ InventoryNext \/ UNCHANGED vars PROVE Quotes'
  BY <1>1, NothingKeepsQuotes, InventoryOnly DEF NextDay, vars
<1> QED
  BY <1>1, ReservationQuotes, SaleQuotes DEF Next

\* A contract rests on its reservation's quote, and a decision on the quote it was
\* taken on, whatever the clerks, the approvers and the calendar do in between.
THEOREM QuoteMatches == Spec => []ContractMatchesQuote
<1>1. Init => Inv /\ Quotes
  BY InitInv, InitQuotes
<1>2. (Inv /\ Quotes) /\ [Next]_vars => (Inv /\ Quotes)'
  BY NextInv, NextQuotes
<1> QED
  BY <1>1, <1>2, QuotesImply, PTL DEF Spec

-----------------------------------------------------------------------------
(* The shapes a step can have *)

\* A reservation is drawn up or worked on: nobody is committed to anything.
Prepares(r) ==
    /\ reservation[r].status \in ReservationPreparing \cup {"none"}
    /\ reservation'[r].status \in ReservationPreparing
    /\ reservation[r].status # "none" => reservation'[r].unit = reservation[r].unit
    /\ \A q \in Reservations : q # r => reservation'[q] = reservation[q]
    /\ UNCHANGED <<today, unit, sale>>

\* A commitment is worked on and stays one; its draft contract may follow it.
Keeps(r) ==
    /\ Committed(r) /\ Committed(r)'
    /\ reservation'[r].unit = reservation[r].unit
    /\ \A q \in Reservations : q # r => reservation'[q] = reservation[q]
    /\ \A s \in Sales :
          /\ sale'[s].status = sale[s].status
          /\ sale'[s].reservation = sale[s].reservation
          /\ sale'[s].activated = sale[s].activated
          /\ sale[s].reservation # r => sale'[s] = sale[s]
    /\ UNCHANGED <<today, unit>>

\* A contract's paperwork: it holds after the step what it held before.
Paperwork(s) ==
    /\ \A t \in Sales : t # s => sale'[t] = sale[t]
    /\ sale[s].status # "none" /\ sale'[s].status # "none"
    /\ sale'[s].reservation = sale[s].reservation
    /\ sale'[s].quote = sale[s].quote
    /\ Contracting(s)' = Contracting(s)
    /\ Unsigned(s)' = Unsigned(s)
    /\ (sale'[s].status = "cancelled") = (sale[s].status = "cancelled")
    /\ UNCHANGED <<today, unit, reservation>>

\* A unit moves among the statuses nobody holds, through the release gate.
Moves(u) ==
    /\ \A v \in Units : v # u => unit'[v] = unit[v]
    /\ \/ unit'[u].commercial_status = unit[u].commercial_status
       \/ /\ unit[u].commercial_status \in {"unreleased", "held"}
          /\ unit'[u].commercial_status \in {"unreleased", "held"}
       \/ /\ unit[u].commercial_status = "available"
          /\ unit'[u].commercial_status \in {"unreleased", "held"}
       \/ /\ unit[u].commercial_status \in {"unreleased", "held", "returned"}
          /\ unit'[u].commercial_status = "available"
          /\ ReleasableOn(u, dated[u])'
    /\ UNCHANGED <<today, reservation, sale>>

\* A release is dated its release date or later.
LEMMA EventDay ==
    ASSUME TypeOK, NEW u \in Units, NEW release \in Days, ReleaseEvent(u, release)
    PROVE  dated'[u] \in Days /\ release <= dated'[u]
<1>1. dated \in [Units -> Days]
  BY DEF TypeOK
<1>2. dated'[u] = IF release >= dated[u] THEN release ELSE dated[u]
  BY <1>1 DEF ReleaseEvent, UnitEvent
<1> QED
  BY <1>1, <1>2

LEMMA InventoryMovesShape ==
    ASSUME TypeOK, InventoryNext
    PROVE  \E u \in Units : Moves(u)
<1> USE DEF TypeOK, UnitRow
<1>u. PICK u \in Units :
        \/ activate_price_version(u)
        \/ \E b \in Bases : update_unit(u, b) \/ approve_area_schedule(u, b)
        \/ deactivate_unit(u) \/ reactivate_unit(u)
        \/ remove_unit(u) \/ restore_unit(u)
        \/ \E to \in CommercialStatuses : Transitions(u, to)
        \/ \E day \in 0..Never : update_release_controls(u, day)
        \/ release_due(u)
        \/ return_unit_to_market(u)
  BY DEF InventoryNext, Transitions
<1>0. UNCHANGED <<today, reservation, sale, expiring>>
  BY InventoryOnly
<1>1. CASE activate_price_version(u)
  BY <1>0, <1>1 DEF activate_price_version, Moves
<1>2. CASE \E b \in Bases : update_unit(u, b)
  BY ZenonT(40), <1>0, <1>2 DEF update_unit, Moves
<1>3. CASE \E b \in Bases : approve_area_schedule(u, b)
  BY <1>0, <1>3 DEF approve_area_schedule, Moves
<1>4. CASE deactivate_unit(u) \/ reactivate_unit(u)
  BY ZenonT(40), <1>0, <1>4 DEF deactivate_unit, reactivate_unit, Moves
<1>5. CASE remove_unit(u) \/ restore_unit(u)
  BY <1>0, <1>5 DEF remove_unit, restore_unit, Moves
<1>6. CASE \E to \in CommercialStatuses : Transitions(u, to)
  <2>1. PICK to \in CommercialStatuses, day \in Days : transition_commercial_status(u, to, day)
    BY <1>6 DEF Transitions
  <2>2. /\ \A v \in Units : v # u => unit'[v] = unit[v]
        /\ unit'[u] = [unit[u] EXCEPT !.commercial_status = to]
        /\ dated'[u] = day
    BY <2>1 DEF transition_commercial_status, SetCommercial, UnitEvent
  <2>3. /\ unit[u].commercial_status \in {"unreleased", "held", "available"}
        /\ to \in {"unreleased", "held", "available"}
        /\ to = "available" => unit[u].commercial_status # "available" /\ ReleasableOn(u, day)
    BY <2>1 DEF transition_commercial_status, InventoryMoves
  <2>4. ReleasableOn(u, day) => ReleasableOn(u, dated[u])'
    BY <2>2 DEF ReleasableOn
  <2> QED
    BY <1>0, <2>2, <2>3, <2>4 DEF Moves
<1>7. CASE \E day \in 0..Never : update_release_controls(u, day)
  <2>1. PICK day \in 0..Never : update_release_controls(u, day)
    BY <1>7
  <2> DEFINE due == /\ unit[u].commercial_status \in {"unreleased", "held"}
                    /\ unit[u].standing = "active"
                    /\ unit[u].pricing_approved
                    /\ day <= today
  <2>2. unit' = [unit EXCEPT ![u].release_date = day,
                             ![u].commercial_status = IF due THEN "available" ELSE @]
    BY <2>1 DEF update_release_controls
  <2>3. CASE due
    <3>1. unit' = [unit EXCEPT ![u].release_date = day, ![u].commercial_status = "available"]
      BY <2>2, <2>3
    <3>2. day \in Days /\ ReleaseEvent(u, day)
      BY <2>1, <2>3, UnitSaleAssumption DEF update_release_controls
    <3>4. dated'[u] \in Days /\ day <= dated'[u]
      BY <3>2, EventDay
    <3>3. ReleasableOn(u, dated[u])'
      BY <2>3, <3>1, <3>4 DEF ReleasableOn
    <3> QED
      BY <1>0, <2>3, <3>1, <3>3 DEF Moves
  <2>4. CASE ~due
    <3>1. /\ \A v \in Units : v # u => unit'[v] = unit[v]
          /\ unit'[u].commercial_status = unit[u].commercial_status
      BY <2>2, <2>4
    <3> QED
      BY <1>0, <3>1 DEF Moves
  <2> QED
    BY <2>3, <2>4
<1>8. CASE release_due(u) \/ return_unit_to_market(u)
  <2>1. /\ SetCommercial(u, "available") /\ Releasable(u)
        /\ unit[u].commercial_status \in {"unreleased", "held", "returned"}
    BY <1>8 DEF release_due, return_unit_to_market
  <2>2. /\ \A v \in Units : v # u => unit'[v] = unit[v]
        /\ unit'[u] = [unit[u] EXCEPT !.commercial_status = "available"]
    BY <2>1 DEF SetCommercial
  <2>3. unit[u].release_date \in Days /\ unit[u].release_date <= today
    BY <2>1, UnitSaleAssumption DEF Releasable, ReleasableOn
  <2>4. dated'[u] \in Days /\ unit[u].release_date <= dated'[u]
    <3>1. CASE release_due(u)
      BY <2>3, <3>1, EventDay DEF release_due
    <3>2. CASE return_unit_to_market(u)
      BY <2>3, <3>2 DEF return_unit_to_market, UnitEvent
    <3> QED
      BY <1>8, <3>1, <3>2
  <2>5. ReleasableOn(u, dated[u])'
    BY <2>1, <2>2, <2>4 DEF Releasable, ReleasableOn
  <2> QED
    BY <1>0, <2>1, <2>2, <2>5 DEF Moves
<1> QED
  BY <1>u, <1>1, <1>2, <1>3, <1>4, <1>5, <1>6, <1>7, <1>8

LEMMA ReservationShape ==
    ASSUME Inv, ReservationNext
    PROVE  \E r \in Reservations :
              \/ Prepares(r)
              \/ Keeps(r)
              \/ Activates(r)
              \/ \E to \in {"expired", "cancelled"} : Closes(r, to)
              \/ UNCHANGED <<today, unit, reservation, sale>>
<1>r. PICK r \in Reservations :
        \/ \E u \in Units, expires, lock \in Days, target \in BOOLEAN, breach \in Breaches :
              create_reservation(r, u, expires, lock, target, breach)
        \/ \E expires \in Days : update_reservation(r, expires)
        \/ \E breach \in Breaches : revise_quote(r, breach)
        \/ submit_exception(r)
        \/ \E approved \in BOOLEAN : decide_exception(r, approved)
        \/ confirm_deposit(r) \/ waive_deposit(r)
        \/ Activates(r)
        \/ \E expires \in Days : Extends(r, expires)
        \/ read_for_expiry(r) \/ Expires(r)
        \/ Cancels(r)
        \/ \E lock \in Days, breach \in Breaches : requote_reservation(r, lock, breach)
  BY DEF ReservationNext, Activates, Extends, Expires, Cancels
<1>0. reservation \in [Reservations -> ReservationRow] /\ reservation[r] \in ReservationRow
  BY DEF Inv, TypeOK
\* The row is changed and nothing else is.
<1>w. ASSUME NEW row, reservation' = [reservation EXCEPT ![r] = row],
             UNCHANGED <<today, unit, sale>>,
             row.unit = reservation[r].unit,
             \/ /\ reservation[r].status \in ReservationPreparing
                /\ row.status = reservation[r].status
             \/ Committed(r) /\ row.status \in ReservationCommitted
      PROVE  Prepares(r) \/ Keeps(r)
  <2>1. reservation'[r] = row /\ \A q \in Reservations : q # r => reservation'[q] = reservation[q]
    BY <1>0, <1>w
  <2> QED
    BY <1>w, <2>1 DEF Prepares, Keeps, Committed
<1>1. ASSUME NEW u \in Units, NEW expires \in Days, NEW lock \in Days,
             NEW target \in BOOLEAN, NEW breach \in Breaches,
             create_reservation(r, u, expires, lock, target, breach)
      PROVE  Prepares(r)
  <2> DEFINE row == [NoReservation EXCEPT
                     !.status = IF DepositGate THEN "deposit_pending" ELSE "draft",
                     !.unit = u, !.expires_on = expires,
                     !.price_locked_until = lock, !.target = target,
                     !.gate = IF DepositGate THEN "pending" ELSE "not_required"]
             new == FreezeQuote(row, u, FALSE, breach)
  <2>1. row \in ReservationRow
    BY UnitSaleAssumption DEF NoReservation, ReservationRow, ReservationStatuses,
       ReservationPreparing, Exceptions, Gates
  <2>2. row.status \in ReservationPreparing
    BY DEF NoReservation, ReservationPreparing
  <2>3. reservation' = [reservation EXCEPT ![r] = new] /\ reservation[r].status = "none"
        /\ UNCHANGED <<today, unit, sale>>
    BY <1>1 DEF create_reservation
  <2> HIDE DEF row
  <2>4. new.status \in ReservationPreparing
    BY <2>1, <2>2, BreachesType, FreezeQuoteKeeps
  <2> HIDE DEF new
  <2>5. reservation'[r] = new /\ \A q \in Reservations : q # r => reservation'[q] = reservation[q]
    BY <1>0, <2>3
  <2> QED
    BY <2>3, <2>4, <2>5 DEF Prepares
<1>2. ASSUME NEW expires \in Days, update_reservation(r, expires)
      PROVE  Prepares(r) \/ Keeps(r)
  <2> DEFINE row == [reservation[r] EXCEPT !.expires_on = expires]
  <2>1. /\ reservation' = [reservation EXCEPT ![r] = row] /\ UNCHANGED <<today, unit, sale>>
        /\ reservation[r].status \in ReservationPreparing
    BY <1>2 DEF update_reservation
  <2>2. row.unit = reservation[r].unit /\ row.status = reservation[r].status
    BY <1>0 DEF ReservationRow
  <2> HIDE DEF row
  <2> QED
    BY <1>w, <2>1, <2>2
<1>3. ASSUME NEW breach \in Breaches, revise_quote(r, breach)
      PROVE  Prepares(r) \/ Keeps(r)
  <2> DEFINE row == FreezeQuote(reservation[r], reservation[r].unit, FALSE, breach)
  <2>1. /\ reservation' = [reservation EXCEPT ![r] = row] /\ UNCHANGED <<today, unit, sale>>
        /\ reservation[r].status \in ReservationPreparing
    BY <1>3 DEF revise_quote
  <2>2. row.unit = reservation[r].unit /\ row.status = reservation[r].status
    BY <1>0, BreachesType, FreezeQuoteKeeps
  <2> HIDE DEF row
  <2> QED
    BY <1>w, <2>1, <2>2
<1>4. CASE submit_exception(r)
  <2> DEFINE row == [reservation[r] EXCEPT !.exception = "submitted"]
  <2>1. /\ reservation' = [reservation EXCEPT ![r] = row] /\ UNCHANGED <<today, unit, sale>>
        /\ reservation[r].status \in ReservationPreparing \/ Committed(r)
    BY <1>4 DEF submit_exception, ExceptionOpen
  <2>2. row.unit = reservation[r].unit /\ row.status = reservation[r].status
    BY <1>0 DEF ReservationRow
  <2> HIDE DEF row
  <2> QED
    BY <1>w, <2>1, <2>2 DEF Committed
<1>5. ASSUME NEW approved \in BOOLEAN, decide_exception(r, approved)
      PROVE  Prepares(r) \/ Keeps(r)
  <2>1. PICK x : reservation' = [reservation EXCEPT ![r].exception = x,
                                                    ![r].sanctioned = reservation[r].quote]
    BY <1>5 DEF decide_exception
  <2> DEFINE row == [reservation[r] EXCEPT !.exception = x, !.sanctioned = reservation[r].quote]
  <2>2. /\ UNCHANGED <<today, unit, sale>>
        /\ reservation[r].status \in ReservationPreparing \/ Committed(r)
    BY <1>5 DEF decide_exception, ExceptionOpen
  <2>3. reservation' = [reservation EXCEPT ![r] = row]
    BY <1>0, <2>1 DEF ReservationRow
  <2>4. row.unit = reservation[r].unit /\ row.status = reservation[r].status
    BY <1>0 DEF ReservationRow
  <2> HIDE DEF row
  <2> QED
    BY <1>w, <2>2, <2>3, <2>4 DEF Committed
<1>6. ASSUME NEW how, SettleDeposit(r, how)
      PROVE  Prepares(r) \/ Keeps(r)
  <2> DEFINE row == [reservation[r] EXCEPT !.gate = how]
  <2>1. /\ reservation' = [reservation EXCEPT ![r] = row] /\ UNCHANGED <<today, unit, sale>>
        /\ reservation[r].status \in ReservationPreparing
    BY <1>6 DEF SettleDeposit
  <2>2. row.unit = reservation[r].unit /\ row.status = reservation[r].status
    BY <1>0 DEF ReservationRow
  <2> HIDE DEF row
  <2> QED
    BY <1>w, <2>1, <2>2
<1>7. ASSUME NEW expires \in Days, Extends(r, expires)
      PROVE  Prepares(r) \/ Keeps(r)
  <2> DEFINE row == [reservation[r] EXCEPT !.expires_on = expires, !.status = "extended"]
  <2>1. reservation' = [reservation EXCEPT ![r].expires_on = expires, ![r].status = "extended"]
        /\ UNCHANGED <<today, unit, sale>> /\ Committed(r)
    BY <1>7 DEF Extends, extend_reservation
  <2>2. reservation' = [reservation EXCEPT ![r] = row]
    BY <1>0, <2>1 DEF ReservationRow
  <2>3. row.unit = reservation[r].unit /\ row.status \in ReservationCommitted
    BY <1>0 DEF ReservationRow, ReservationCommitted
  <2> HIDE DEF row
  <2> QED
    BY <1>w, <2>1, <2>2, <2>3
<1>8. ASSUME NEW lock \in Days, NEW breach \in Breaches, requote_reservation(r, lock, breach)
      PROVE  Keeps(r)
  <2> DEFINE new == FreezeQuote(reservation[r], reservation[r].unit, TRUE, breach)
             row == [new EXCEPT !.price_locked_until = lock]
  <2>1. /\ reservation' = [reservation EXCEPT ![r] = row]
        /\ sale' = [s \in Sales |-> IF s \in ContractOf(r)
                                    THEN [sale[s] EXCEPT !.quote = new.quote]
                                    ELSE sale[s]]
        /\ Committed(r)
        /\ UNCHANGED <<today, unit>>
    BY <1>8 DEF requote_reservation
  <2>2. reservation[r].unit \in Units
    BY <2>1, CommittedUnit DEF Inv
  <2>3. /\ new \in ReservationRow
        /\ new.status = reservation[r].status /\ new.unit = reservation[r].unit
    BY <1>0, <2>2, BreachesType, FreezeQuoteKeeps, FreezeQuoteType DEF Inv, TypeOK
  <2> HIDE DEF new
  <2>4. row.status = reservation[r].status /\ row.unit = reservation[r].unit
    BY <2>3 DEF ReservationRow
  <2> HIDE DEF row
  <2>5. reservation'[r] = row /\ \A q \in Reservations : q # r => reservation'[q] = reservation[q]
    BY <1>0, <2>1
  <2>6. \A s \in Sales :
          /\ sale'[s].status = sale[s].status
          /\ sale'[s].reservation = sale[s].reservation
          /\ sale'[s].activated = sale[s].activated
          /\ sale[s].reservation # r => sale'[s] = sale[s]
    BY <2>1 DEF ContractOf, Inv, TypeOK, SaleRow
  <2> QED
    BY <2>1, <2>4, <2>5, <2>6 DEF Keeps, Committed
<1>9. CASE read_for_expiry(r)
  BY <1>9 DEF read_for_expiry
<1>10. CASE Expires(r) \/ Cancels(r)
  BY <1>10 DEF Expires, Cancels, Closes, expire_reservation, cancel_reservation
<1>11. CASE confirm_deposit(r) \/ waive_deposit(r)
  BY <1>6, <1>11 DEF confirm_deposit, waive_deposit
<1> QED
  BY <1>r, <1>1, <1>2, <1>3, <1>4, <1>5, <1>7, <1>8, <1>9, <1>10, <1>11

LEMMA SaleShape ==
    ASSUME Inv, SaleNext
    PROVE  \E s \in Sales :
              \/ Paperwork(s)
              \/ \E r \in Reservations, gated \in BOOLEAN : create_sale(s, r, gated)
              \/ Submits(s)
              \/ Signs(s)
              \/ Completes(s)
<1>s. PICK s \in Sales :
        \/ \E r \in Reservations, gated \in BOOLEAN : create_sale(s, r, gated)
        \/ \E gated \in BOOLEAN : update_sale(s, gated)
        \/ Submits(s)
        \/ confirm_first_payment(s) \/ waive_first_payment(s)
        \/ record_signatures(s) \/ reverse_signature(s)
        \/ Signs(s)
        \/ start_cancellation(s) \/ withdraw_cancellation(s)
        \/ Completes(s)
  BY DEF SaleNext, Submits, Signs, Completes
<1>0. sale \in [Sales -> SaleRow] /\ sale[s] \in SaleRow
  BY DEF Inv, TypeOK
<1>1. CASE \E gated \in BOOLEAN : update_sale(s, gated)
  <2>1. PICK gate : sale' = [sale EXCEPT ![s].gate = gate]
                    /\ sale[s].status # "none" /\ UNCHANGED <<today, unit, reservation>>
    BY <1>1 DEF update_sale
  <2> QED
    BY <1>0, <2>1 DEF Paperwork, Contracting, Unsigned, SaleRow
<1>2. CASE confirm_first_payment(s) \/ waive_first_payment(s)
  <2>1. PICK gate : sale' = [sale EXCEPT ![s].gate = gate]
                    /\ sale[s].status # "none" /\ UNCHANGED <<today, unit, reservation>>
    BY <1>2 DEF confirm_first_payment, waive_first_payment, SettleFirstPayment
  <2> QED
    BY <1>0, <2>1 DEF Paperwork, Contracting, Unsigned, SaleRow
<1>3. CASE record_signatures(s) \/ reverse_signature(s)
  <2>1. PICK signed : sale' = [sale EXCEPT ![s].signed = signed]
                    /\ sale[s].status # "none" /\ UNCHANGED <<today, unit, reservation>>
    BY <1>3 DEF record_signatures, reverse_signature
  <2> QED
    BY <1>0, <2>1 DEF Paperwork, Contracting, Unsigned, SaleRow
<1>4. CASE start_cancellation(s)
  <2>1. sale' = [sale EXCEPT ![s].status = "termination_pending"]
        /\ sale[s].status \in {"signature_pending", "active"}
        /\ UNCHANGED <<today, unit, reservation>>
    BY <1>4 DEF start_cancellation
  <2>2. /\ sale[s].status = "active" => sale[s].activated
        /\ sale[s].status = "signature_pending" => ~sale[s].activated
    BY DEF Inv, Links
  <2> QED
    BY <1>0, <2>1, <2>2 DEF Paperwork, Contracting, Unsigned, SaleRow, SaleCommitted
<1>5. CASE withdraw_cancellation(s)
  <2>1. sale' = [sale EXCEPT ![s].status = IF sale[s].activated THEN "active"
                                           ELSE "signature_pending"]
        /\ sale[s].status = "termination_pending"
        /\ UNCHANGED <<today, unit, reservation>>
    BY <1>5 DEF withdraw_cancellation
  <2> QED
    BY <1>0, <2>1 DEF Paperwork, Contracting, Unsigned, SaleRow, SaleCommitted
<1> QED
  BY <1>s, <1>1, <1>2, <1>3, <1>4, <1>5

\* Every step has one of a dozen shapes.
LEMMA StepShape ==
    ASSUME Inv, [Next]_vars
    PROVE  \/ UNCHANGED <<unit, reservation, sale>>
           \/ \E u \in Units : Moves(u)
           \/ \E r \in Reservations :
                 \/ Prepares(r) \/ Keeps(r) \/ Activates(r)
                 \/ \E to \in {"expired", "cancelled"} : Closes(r, to)
           \/ \E s \in Sales :
                 \/ Paperwork(s)
                 \/ \E r \in Reservations, gated \in BOOLEAN : create_sale(s, r, gated)
                 \/ Submits(s) \/ Signs(s) \/ Completes(s)
<1>1. CASE NextDay \/ UNCHANGED vars
  BY <1>1 DEF NextDay, vars
<1>2. CASE InventoryNext
  BY <1>2, InventoryMovesShape DEF Inv
<1>3. CASE ReservationNext
  BY <1>3, ReservationShape
<1>4. CASE SaleNext
  BY <1>4, SaleShape
<1> QED
  BY <1>1, <1>2, <1>3, <1>4 DEF Next

-----------------------------------------------------------------------------
(* What no step does *)

\* Stated once for the shapes that rewrite a whole table.
LEMMA CloseRows ==
    ASSUME Inv, NEW r \in Reservations, NEW to \in {"expired", "cancelled"},
           Closes(r, to)
    PROVE  /\ reservation[r].status \in ReservationPreparing \cup ReservationCommitted
           /\ reservation'[r].status = to
           /\ \A q \in Reservations : reservation'[q].unit = reservation[q].unit
           /\ \A q \in Reservations : q # r => reservation'[q] = reservation[q]
           /\ \A s \in Sales : \/ sale'[s] = sale[s]
                               \/ /\ to = "cancelled"
                                  /\ sale[s].reservation = r
                                  /\ sale[s].status = "draft"
                                  /\ sale'[s] = [sale[s] EXCEPT !.status = "cancelled"]
<1>1. /\ reservation' = [reservation EXCEPT ![r].status = to]
      /\ MayClose(r, to)
      /\ sale' = [s \in Sales |-> IF to = "cancelled" /\ s \in ContractOf(r)
                                  THEN [sale[s] EXCEPT !.status = "cancelled"]
                                  ELSE sale[s]]
  BY DEF Closes, close_reservation
<1>2. /\ reservation'[r].status = to
      /\ \A q \in Reservations : reservation'[q].unit = reservation[q].unit
      /\ \A q \in Reservations : q # r => reservation'[q] = reservation[q]
  BY <1>1 DEF Inv, TypeOK, ReservationRow
<1>3. \A s \in Sales : \/ sale'[s] = sale[s]
                       \/ /\ to = "cancelled"
                          /\ sale[s].reservation = r
                          /\ sale[s].status = "draft"
                          /\ sale'[s] = [sale[s] EXCEPT !.status = "cancelled"]
  BY <1>1 DEF MayClose, ContractOf
<1> QED
  BY <1>1, <1>2, <1>3 DEF MayClose, Committed

LEMMA SubmitRows ==
    ASSUME Inv, NEW s \in Sales, Submits(s)
    PROVE  /\ sale[s].reservation \in Reservations
           /\ Committed(sale[s].reservation)
           /\ reservation'[sale[s].reservation] =
                 [reservation[sale[s].reservation] EXCEPT !.status = "converted"]
           /\ \A q \in Reservations : reservation'[q].unit = reservation[q].unit
           /\ \A q \in Reservations :
                 q # sale[s].reservation => reservation'[q] = reservation[q]
           /\ sale'[s] = [sale[s] EXCEPT !.status = "signature_pending"]
           /\ \A t \in Sales : t # s => sale'[t] = sale[t]
<1>1. sale[s].status = "draft"
  BY DEF Submits, submit_sale
<1>2. sale[s].reservation \in Reservations
  BY <1>1 DEF Inv, Links
<1> QED
  BY <1>2 DEF Submits, submit_sale, Inv, TypeOK, ReservationRow

\* A contract that ends or is activated: its row only.
LEMMA ContractRows ==
    ASSUME Inv, NEW s \in Sales, Signs(s) \/ Completes(s)
    PROVE  /\ UNCHANGED reservation
           /\ Contracting(s)
           /\ sale'[s].reservation = sale[s].reservation
           /\ sale'[s].quote = sale[s].quote
           /\ sale'[s].status = IF Signs(s) THEN "active" ELSE "cancelled"
           /\ \A t \in Sales : t # s => sale'[t] = sale[t]
<1>1. CASE Signs(s)
  BY <1>1 DEF Signs, activate_sale, Contracting, SaleCommitted, Inv, TypeOK, SaleRow
<1>2. CASE Completes(s)
  <2>1. ~Signs(s)
    BY <1>2 DEF Signs, activate_sale, Completes, complete_cancellation
  <2> QED
    BY <1>2, <2>1 DEF Completes, complete_cancellation, Contracting, SaleCommitted, Inv, TypeOK, SaleRow
<1> QED
  BY <1>1, <1>2

Closed == {"converted", "expired", "cancelled"}

\* The three statuses a reservation ends in are final, and so is its row.
LEMMA ClosedIsFinal ==
    ASSUME Inv, [Next]_vars, NEW q \in Reservations, reservation[q].status \in Closed
    PROVE  reservation'[q] = reservation[q]
<1> USE DEF Closed
<1>0. reservation[q].status \notin ReservationPreparing \cup ReservationCommitted \cup {"none"}
  BY DEF ReservationPreparing, ReservationCommitted
<1>1. ASSUME NEW r \in Reservations,
             \/ Prepares(r) \/ Keeps(r) \/ Activates(r)
             \/ \E to \in {"expired", "cancelled"} : Closes(r, to)
      PROVE  reservation'[q] = reservation[q]
  <2>1. CASE Prepares(r)
    BY <1>0, <2>1 DEF Prepares
  <2>2. CASE Keeps(r)
    BY <1>0, <2>2 DEF Keeps, Committed
  <2>3. CASE Activates(r)
    BY <1>0, <2>3 DEF Activates, activate_reservation
  <2>4. CASE \E to \in {"expired", "cancelled"} : Closes(r, to)
    BY <1>0, <2>4, CloseRows
  <2> QED
    BY <1>1, <2>1, <2>2, <2>3, <2>4
<1>2. ASSUME NEW s \in Sales, Submits(s)
      PROVE  reservation'[q] = reservation[q]
  BY <1>0, <1>2, SubmitRows DEF Committed
<1>3. ASSUME NEW s \in Sales,
             \/ Paperwork(s)
             \/ \E r \in Reservations, gated \in BOOLEAN : create_sale(s, r, gated)
             \/ Signs(s) \/ Completes(s)
      PROVE  reservation'[q] = reservation[q]
  BY <1>3, ContractRows DEF Paperwork, create_sale
<1>4. ASSUME NEW u \in Units, Moves(u)
      PROVE  reservation'[q] = reservation[q]
  BY <1>4 DEF Moves
<1> QED
  BY <1>1, <1>2, <1>3, <1>4, StepShape

\* A contract in force keeps the reservation it was drawn from and its quote.
LEMMA ContractKeepsTerms ==
    ASSUME Inv, Quotes, [Next]_vars, NEW t \in Sales, Contracting(t)
    PROVE  sale'[t].reservation = sale[t].reservation /\ sale'[t].quote = sale[t].quote
<1>0. /\ sale[t].reservation \in Reservations
      /\ reservation[sale[t].reservation].status = "converted"
      /\ sale[t].status \in SaleCommitted
  BY DEF Inv, Links, Quotes, RestsOn, Contracting, SaleCommitted
<1> DEFINE Goal == sale'[t].reservation = sale[t].reservation /\ sale'[t].quote = sale[t].quote
<1>1. ASSUME NEW r \in Reservations, Prepares(r) \/ Keeps(r) \/ Activates(r)
      PROVE  Goal
  <2>1. CASE Prepares(r) \/ Activates(r)
    BY <2>1 DEF Prepares, Activates, activate_reservation
  <2>2. CASE Keeps(r)
    BY <1>0, <2>2 DEF Keeps, Committed, ReservationCommitted
  <2> QED
    BY <1>1, <2>1, <2>2
<1>2. ASSUME NEW r \in Reservations, NEW to \in {"expired", "cancelled"}, Closes(r, to)
      PROVE  Goal
  BY <1>0, <1>2, CloseRows DEF SaleCommitted
<1>3. ASSUME NEW s \in Sales, Paperwork(s)
      PROVE  Goal
  BY <1>3 DEF Paperwork
<1>4. ASSUME NEW s \in Sales, NEW r \in Reservations, NEW gated \in BOOLEAN, create_sale(s, r, gated)
      PROVE  Goal
  <2>1. t # s
    BY <1>0, <1>4 DEF create_sale, SaleCommitted
  <2> QED
    BY <1>4, <2>1 DEF create_sale
<1>5. ASSUME NEW s \in Sales, Submits(s)
      PROVE  Goal
  <2>1. t # s
    BY <1>0, <1>5 DEF Submits, submit_sale, SaleCommitted
  <2> QED
    BY <1>5, <2>1, SubmitRows
<1>6. ASSUME NEW s \in Sales, Signs(s) \/ Completes(s)
      PROVE  Goal
  BY <1>6, ContractRows
<1>7. ASSUME NEW u \in Units, Moves(u)
      PROVE  Goal
  BY <1>7 DEF Moves
<1>8. ASSUME UNCHANGED <<unit, reservation, sale>>
      PROVE  Goal
  BY <1>8
<1>9. CASE \E s \in Sales :
              \/ Paperwork(s)
              \/ \E r \in Reservations, gated \in BOOLEAN : create_sale(s, r, gated)
              \/ Submits(s) \/ Signs(s) \/ Completes(s)
  BY <1>3, <1>4, <1>5, <1>6, <1>9
<1>10. CASE \E r \in Reservations :
              \/ Prepares(r) \/ Keeps(r) \/ Activates(r)
              \/ \E to \in {"expired", "cancelled"} : Closes(r, to)
  BY <1>1, <1>2, <1>10
<1> QED
  BY <1>7, <1>8, <1>9, <1>10, StepShape

\* A submitted contract's terms are frozen, and so is the quote they were drawn from.
THEOREM TermsFrozen == Spec => SubmittedTermsFrozen
<1>1. Inv /\ Quotes /\ [Next]_vars =>
         \A s \in Sales : Contracting(s) =>
            /\ sale'[s].quote = sale[s].quote
            /\ LET r == sale[s].reservation IN
                  /\ sale'[s].reservation = r
                  /\ reservation'[r].quote = reservation[r].quote
                  /\ reservation'[r].version = reservation[r].version
  <2> SUFFICES ASSUME Inv, Quotes, [Next]_vars, NEW s \in Sales, Contracting(s)
               PROVE  /\ sale'[s].quote = sale[s].quote
                      /\ sale'[s].reservation = sale[s].reservation
                      /\ reservation'[sale[s].reservation] = reservation[sale[s].reservation]
    OBVIOUS
  <2>1. /\ sale[s].reservation \in Reservations
        /\ reservation[sale[s].reservation].status \in Closed
    BY DEF Inv, Links, Quotes, RestsOn, Contracting, SaleCommitted, Closed
  <2> QED
    BY <2>1, ContractKeepsTerms, ClosedIsFinal
<1>2. Init => Inv /\ Quotes
  BY InitInv, InitQuotes
<1>3. (Inv /\ Quotes) /\ [Next]_vars => (Inv /\ Quotes)'
  BY NextInv, NextQuotes
<1> QED
  BY <1>1, <1>2, <1>3, PTL DEF Spec, SubmittedTermsFrozen

\* Only an activation commits a reservation.
LEMMA OnlyActivationCommits ==
    ASSUME Inv, [Next]_vars, NEW q \in Reservations, ~Committed(q), Committed(q)'
    PROVE  Activates(q)
<1> USE DEF Committed, ReservationCommitted, ReservationPreparing
<1>1. ASSUME NEW r \in Reservations, Prepares(r) \/ Keeps(r)
      PROVE  FALSE
  BY <1>1 DEF Prepares, Keeps
<1>2. ASSUME NEW r \in Reservations, Activates(r)
      PROVE  r = q
  BY <1>2 DEF Activates, activate_reservation
<1>3. ASSUME NEW r \in Reservations, NEW to \in {"expired", "cancelled"}, Closes(r, to)
      PROVE  FALSE
  BY <1>3, CloseRows
<1>4. ASSUME NEW s \in Sales,
             \/ Paperwork(s)
             \/ \E r \in Reservations, gated \in BOOLEAN : create_sale(s, r, gated)
             \/ Signs(s) \/ Completes(s)
      PROVE  FALSE
  <2>1. UNCHANGED reservation
    BY <1>4, ContractRows DEF Paperwork, create_sale
  <2> QED
    BY <2>1
<1>5. ASSUME NEW s \in Sales, Submits(s)
      PROVE  FALSE
  <2>1. CASE q = sale[s].reservation
    <3>1. reservation'[q].status = "converted"
      BY <1>5, <2>1, SubmitRows DEF Inv, TypeOK, ReservationRow
    <3> QED
      BY <3>1
  <2>2. CASE q # sale[s].reservation
    BY <1>5, <2>2, SubmitRows
  <2> QED
    BY <2>1, <2>2
<1>6. ASSUME NEW u \in Units, Moves(u)
      PROVE  FALSE
  BY <1>6 DEF Moves
<1>7. ASSUME UNCHANGED <<unit, reservation, sale>>
      PROVE  FALSE
  BY <1>7
<1> QED
  BY <1>1, <1>2, <1>3, <1>4, <1>5, <1>6, <1>7, StepShape

\* Only a submission brings a contract into force.
LEMMA OnlySubmissionContracts ==
    ASSUME Inv, [Next]_vars, NEW t \in Sales, ~Contracting(t), Contracting(t)'
    PROVE  Submits(t)
<1>0. sale[t].status \notin SaleCommitted /\ sale'[t].status \in SaleCommitted
  BY DEF Contracting
<1>1. ASSUME NEW r \in Reservations, Prepares(r) \/ Keeps(r) \/ Activates(r)
      PROVE  FALSE
  BY <1>0, <1>1 DEF Prepares, Keeps, Activates, activate_reservation
<1>2. ASSUME NEW r \in Reservations, NEW to \in {"expired", "cancelled"}, Closes(r, to)
      PROVE  FALSE
  <2>1. sale'[t] = sale[t] \/ sale'[t] = [sale[t] EXCEPT !.status = "cancelled"]
    BY <1>2, CloseRows
  <2> QED
    BY <1>0, <2>1 DEF SaleCommitted, Inv, TypeOK, SaleRow
<1>3. ASSUME NEW s \in Sales, Paperwork(s)
      PROVE  FALSE
  <2>1. t = s
    BY <1>0, <1>3 DEF Paperwork
  <2> QED
    BY <1>3, <2>1 DEF Paperwork
<1>4. ASSUME NEW s \in Sales, NEW r \in Reservations, NEW gated \in BOOLEAN, create_sale(s, r, gated)
      PROVE  FALSE
  <2>1. t # s => sale'[t] = sale[t]
    BY <1>4 DEF create_sale
  <2>2. sale'[s].status = "draft"
    BY <1>4 DEF create_sale, NoSale, Inv, TypeOK
  <2> QED
    BY <1>0, <2>1, <2>2 DEF SaleCommitted
<1>5. ASSUME NEW s \in Sales, Submits(s)
      PROVE  s = t
  BY <1>0, <1>5, SubmitRows
<1>6. ASSUME NEW s \in Sales, Signs(s) \/ Completes(s)
      PROVE  FALSE
  <2>1. t # s
    BY <1>6, ContractRows
  <2> QED
    BY <1>0, <1>6, <2>1, ContractRows
<1>7. ASSUME NEW u \in Units, Moves(u)
      PROVE  FALSE
  BY <1>0, <1>7 DEF Moves
<1>8. ASSUME UNCHANGED <<unit, reservation, sale>>
      PROVE  FALSE
  BY <1>0, <1>8
<1> QED
  BY <1>1, <1>2, <1>3, <1>4, <1>5, <1>6, <1>7, <1>8, StepShape

\* Whoever takes a unit takes it at a price cut from it as it stands.
THEOREM TakenAtItsPrice == Spec => TakenAsPriced
<1>1. ASSUME Inv, ApprovedPriceDescribesUnit, [Next]_vars,
             NEW r \in Reservations, ~Committed(r), Committed(r)'
      PROVE  BasisCurrent(reservation[r].unit, reservation[r].version)'
  <2> DEFINE u == reservation[r].unit
             n == reservation[r].version
  <2>1. Activates(r)
    BY <1>1, OnlyActivationCommits
  <2>2. /\ reservation' = [reservation EXCEPT ![r].status = "active"]
        /\ unit' = [unit EXCEPT ![u].commercial_status = "reserved"]
        /\ reservation[r].status # "none"
        /\ n = ActivePrice(u)
        /\ unit[u].pricing_approved
    BY <2>1 DEF Activates, activate_reservation, SetCommercial, Releasable, ReleasableOn,
       ReservationPreparing
  <2>3. u \in Units
    BY <1>1, <2>2 DEF Inv, Links
  <2>4. BasisCurrent(u, n)
    BY <1>1, <2>2, <2>3 DEF ApprovedPriceDescribesUnit
  <2>5. reservation'[r].unit = u /\ reservation'[r].version = n
    BY <1>1, <2>2 DEF Inv, TypeOK, ReservationRow
  <2>6. unit'[u].prices = unit[u].prices /\ unit'[u].basis = unit[u].basis
    BY <1>1, <2>2, <2>3 DEF Inv, TypeOK, UnitRow
  <2> HIDE DEF u, n
  <2> QED
    BY <2>4, <2>5, <2>6 DEF BasisCurrent
<1>2. ASSUME Inv, [Next]_vars, NEW s \in Sales, ~Contracting(s), Contracting(s)'
      PROVE  BasisCurrent(SaleUnit(s), reservation[sale[s].reservation].version)'
  <2> DEFINE r == sale[s].reservation
             u == reservation[r].unit
             n == reservation[r].version
  <2>1. Submits(s)
    BY <1>2, OnlySubmissionContracts
  <2>2. /\ unit' = [unit EXCEPT ![u].commercial_status = "contract_pending"]
        /\ BasisCurrent(u, n)
    BY <2>1 DEF Submits, submit_sale, SetCommercial, StillSellable, SaleUnit
  <2>3. /\ r \in Reservations /\ Committed(r)
        /\ reservation'[r] = [reservation[r] EXCEPT !.status = "converted"]
        /\ sale'[s] = [sale[s] EXCEPT !.status = "signature_pending"]
    BY <1>2, <2>1, SubmitRows
  <2>4. u \in Units
    BY <1>2, <2>3, CommittedUnit DEF Inv
  <2>5. sale'[s].reservation = r /\ reservation'[r].unit = u /\ reservation'[r].version = n
    BY <1>2, <2>3 DEF Inv, TypeOK, ReservationRow, SaleRow
  <2>6. unit'[u].prices = unit[u].prices /\ unit'[u].basis = unit[u].basis
    BY <1>2, <2>2, <2>4 DEF Inv, TypeOK, UnitRow
  <2> HIDE DEF r, u, n
  <2> QED
    BY <2>2, <2>5, <2>6 DEF BasisCurrent, SaleUnit
<1>3. Inv /\ ApprovedPriceDescribesUnit /\ [Next]_vars =>
         /\ \A r \in Reservations :
               ~Committed(r) /\ Committed(r)' =>
                  BasisCurrent(reservation[r].unit, reservation[r].version)'
         /\ \A s \in Sales :
               ~Contracting(s) /\ Contracting(s)' =>
                  BasisCurrent(SaleUnit(s), reservation[sale[s].reservation].version)'
  BY <1>1, <1>2
<1> QED
  BY <1>3, InitInv, NextInv, GatePriceCurrent, PTL DEF Spec, TakenAsPriced

\* Whichever of the five doors a unit takes to the market, it passes the gate as
\* at the day its event carries; and whoever reserves it finds that gate open, and
\* that day come.
THEOREM MarketGated == Spec => MarketOnlyThroughGate
<1>0. ASSUME Inv, NEW v \in Units, NEW u, NEW to, SetCommercial(u, to),
             unit'[v].commercial_status # unit[v].commercial_status
      PROVE  /\ v = u /\ unit'[v].commercial_status = to
             /\ unit'[v] = [unit[v] EXCEPT !.commercial_status = to]
  BY <1>0 DEF SetCommercial, Inv, TypeOK, UnitRow
<1>1. ASSUME Inv, [Next]_vars, NEW v \in Units,
             unit[v].commercial_status # unit'[v].commercial_status
      PROVE  /\ unit'[v].commercial_status = "available" => ReleasableOn(v, dated[v])'
             /\ unit'[v].commercial_status = "reserved" => Releasable(v) /\ dated[v] <= today
  <2> DEFINE Gated ==
                /\ unit'[v].commercial_status = "available" => ReleasableOn(v, dated[v])'
                /\ unit'[v].commercial_status = "reserved" => Releasable(v) /\ dated[v] <= today
  <2>1. ASSUME NEW u \in Units, Moves(u)
        PROVE  Gated
    BY <1>1, <2>1 DEF Moves
  <2>2. ASSUME NEW r \in Reservations, Prepares(r) \/ Keeps(r)
        PROVE  FALSE
    BY <1>1, <2>2 DEF Prepares, Keeps
  <2>3. ASSUME NEW r \in Reservations, NEW to, NEW day \in Past, close_reservation(r, to, day)
        PROVE  Gated
    <3> DEFINE u == reservation[r].unit
               back == IF ReleasableOn(u, day) THEN "available" ELSE "held"
    <3>1. SetCommercial(u, back) /\ UnitEvent(u, day)
      BY <1>1, <2>3 DEF close_reservation
    <3>2. /\ v = u /\ unit'[v].commercial_status = back
          /\ unit'[v] = [unit[v] EXCEPT !.commercial_status = back]
      BY <1>0, <1>1, <3>1
    <3>3. dated'[v] = day
      BY <1>1, <3>1, <3>2 DEF UnitEvent, Inv, TypeOK
    <3>4. CASE ReleasableOn(u, day)
      <4>1. unit'[v] = [unit[v] EXCEPT !.commercial_status = "available"]
        BY <3>2, <3>4
      <4>2. ReleasableOn(v, dated[v])'
        BY <1>1, <3>2, <3>3, <3>4, <4>1 DEF ReleasableOn, Inv, TypeOK, UnitRow
      <4> QED
        BY <3>2, <3>4, <4>2
    <3>5. CASE ~ReleasableOn(u, day)
      BY <3>2, <3>5
    <3> QED
      BY <3>4, <3>5
  <2>4. ASSUME NEW r \in Reservations, NEW day \in Past, activate_reservation(r, day)
        PROVE  Gated
    <3>1. /\ SetCommercial(reservation[r].unit, "reserved")
          /\ Releasable(reservation[r].unit) /\ day >= dated[reservation[r].unit]
      BY <2>4 DEF activate_reservation, UnitEvent
    <3>2. v = reservation[r].unit /\ unit'[v].commercial_status = "reserved"
      BY <1>0, <1>1, <3>1
    <3>3. dated[v] \in Nat /\ day \in Nat /\ today \in Nat /\ day <= today
      BY <1>1 DEF Past, Inv, TypeOK
    <3> QED
      BY <3>1, <3>2, <3>3
  <2>5. ASSUME NEW s \in Sales,
               \/ Paperwork(s)
               \/ \E r \in Reservations, gated \in BOOLEAN : create_sale(s, r, gated)
        PROVE  FALSE
    BY <1>1, <2>5 DEF Paperwork, create_sale
  <2>6. ASSUME NEW s \in Sales, Submits(s) \/ Signs(s)
        PROVE  Gated
    <3>1. PICK u : \E to \in {"contract_pending", "contracted"} : SetCommercial(u, to)
      BY <2>6 DEF Submits, submit_sale, Signs, activate_sale
    <3>2. unit'[v].commercial_status \in {"contract_pending", "contracted"}
      BY <1>0, <1>1, <3>1
    <3> QED
      BY <3>2
  <2>7. ASSUME NEW s \in Sales, Completes(s)
        PROVE  Gated
    BY <1>1, <2>7 DEF Completes, complete_cancellation, Inv, TypeOK, UnitRow
  <2>8. CASE UNCHANGED <<unit, reservation, sale>>
    BY <1>1, <2>8
  <2> QED
    BY <1>1, <2>1, <2>2, <2>3, <2>4, <2>5, <2>6, <2>7, <2>8, StepShape DEF Activates, Closes
<1>2. Inv /\ [Next]_vars =>
         \A u \in Units :
            /\ unit[u].commercial_status # "available" /\ unit'[u].commercial_status = "available"
                  => ReleasableOn(u, dated[u])'
            /\ unit[u].commercial_status # "reserved" /\ unit'[u].commercial_status = "reserved"
                  => Releasable(u) /\ dated[u] <= today
  BY <1>1
<1> QED
  BY <1>2, InitInv, NextInv, PTL DEF Spec, MarketOnlyThroughGate

-----------------------------------------------------------------------------
(* UnitSale implements UnitCommitment *)

\* A contract cancelled as a draft went with its reservation; one a case ended had
\* taken its reservation over.
Dropped ==
    \A s \in Sales : sale[s].status = "cancelled" =>
        reservation[sale[s].reservation].status \in {"converted", "cancelled"}

LEMMA InitDropped == Init => Dropped
BY DEF Init, Dropped, NoSale

LEMMA NextDropped == Inv /\ Quotes /\ Dropped /\ [Next]_vars => Dropped'
<1> SUFFICES ASSUME Inv, Quotes, Dropped, [Next]_vars, NEW t \in Sales,
                    sale'[t].status = "cancelled"
             PROVE  reservation'[sale'[t].reservation].status \in {"converted", "cancelled"}
  BY DEF Dropped
<1> DEFINE Goal == reservation'[sale'[t].reservation].status \in {"converted", "cancelled"}
<1>a. ASSUME sale[t].status = "cancelled", sale'[t].reservation = sale[t].reservation
      PROVE  Goal
  <2>1. sale[t].reservation \in Reservations
    BY <1>a DEF Inv, Links
  <2>2. reservation[sale[t].reservation].status \in {"converted", "cancelled"}
    BY <1>a DEF Dropped
  <2> QED
    BY <1>a, <2>1, <2>2, ClosedIsFinal DEF Closed
<1>1. ASSUME NEW r \in Reservations, Prepares(r) \/ Keeps(r) \/ Activates(r)
      PROVE  Goal
  BY <1>a, <1>1 DEF Prepares, Keeps, Activates, activate_reservation
<1>2. ASSUME NEW r \in Reservations, NEW to \in {"expired", "cancelled"}, Closes(r, to)
      PROVE  Goal
  <2>1. CASE sale'[t] = sale[t]
    BY <1>a, <2>1
  <2>2. CASE /\ to = "cancelled" /\ sale[t].reservation = r
             /\ sale'[t] = [sale[t] EXCEPT !.status = "cancelled"]
    BY <1>2, <2>2, CloseRows DEF Inv, TypeOK, SaleRow
  <2> QED
    BY <1>2, <2>1, <2>2, CloseRows
<1>3. ASSUME NEW s \in Sales, Paperwork(s)
      PROVE  Goal
  BY <1>a, <1>3 DEF Paperwork
<1>4. ASSUME NEW s \in Sales, NEW r \in Reservations, NEW gated \in BOOLEAN, create_sale(s, r, gated)
      PROVE  Goal
  <2>1. sale'[s].status = "draft" /\ (t # s => sale'[t] = sale[t])
    BY <1>4 DEF create_sale, NoSale, Inv, TypeOK
  <2> QED
    BY <1>a, <2>1
<1>5. ASSUME NEW s \in Sales, Submits(s)
      PROVE  Goal
  <2>1. sale'[s].status = "signature_pending"
    BY <1>5 DEF Submits, submit_sale, Inv, TypeOK
  <2> QED
    BY <1>5, <1>a, <2>1, SubmitRows
<1>6. ASSUME NEW s \in Sales, Signs(s) \/ Completes(s)
      PROVE  Goal
  <2>1. CASE t = s
    BY <1>6, <2>1, ContractRows DEF Quotes, RestsOn, Contracting
  <2>2. CASE t # s
    BY <1>6, <1>a, <2>2, ContractRows
  <2> QED
    BY <2>1, <2>2
<1>7. ASSUME NEW u \in Units, Moves(u)
      PROVE  Goal
  BY <1>a, <1>7 DEF Moves
<1>8. ASSUME UNCHANGED <<unit, reservation, sale>>
      PROVE  Goal
  BY <1>a, <1>8
<1>9. CASE \E s \in Sales :
              \/ Paperwork(s)
              \/ \E r \in Reservations, gated \in BOOLEAN : create_sale(s, r, gated)
              \/ Submits(s) \/ Signs(s) \/ Completes(s)
  BY <1>3, <1>4, <1>5, <1>6, <1>9
<1>10. CASE \E r \in Reservations :
              \/ Prepares(r) \/ Keeps(r) \/ Activates(r)
              \/ \E to \in {"expired", "cancelled"} : Closes(r, to)
  BY <1>1, <1>2, <1>10
<1> QED
  BY <1>7, <1>8, <1>9, <1>10, StepShape

\* Who holds a unit, read off the rows.
HolderRead ==
    /\ \A r \in Reservations : Committed(r) => Holder(reservation[r].unit) = r
    /\ \A s \in Sales : Contracting(s) => Holder(SaleUnit(s)) = sale[s].reservation
    /\ \A u \in Units : unit[u].commercial_status \notin HeldStatuses => Holder(u) = NoRecord
    /\ \A u \in Units : Holder(u) # NoRecord =>
          /\ Holder(u) \in Reservations
          /\ reservation[Holder(u)].unit = u
          /\ reservation[Holder(u)].status \in ReservationCommitted \cup {"converted"}

LEMMA HolderReads == Inv /\ Quotes => HolderRead
<1> SUFFICES ASSUME Inv, Quotes PROVE HolderRead
  OBVIOUS
<1>1. ASSUME NEW r \in Reservations, Committed(r)
      PROVE  Holder(reservation[r].unit) = r
  <2> DEFINE u == reservation[r].unit
  <2>1. r \in ReservationsOn(u)
    BY <1>1 DEF ReservationsOn
  <2>2. \A q \in ReservationsOn(u) : q = r
    BY <1>1 DEF ReservationsOn, Inv, Holding
  <2> HIDE DEF u
  <2>3. (CHOOSE q \in ReservationsOn(u) : TRUE) = r
    BY <2>1, <2>2
  <2>4. Holder(u) = r
    BY <2>1, <2>3 DEF Holder
  <2> QED
    BY <2>4 DEF u
<1>2. ASSUME NEW s \in Sales, Contracting(s)
      PROVE  Holder(SaleUnit(s)) = sale[s].reservation
  <2> DEFINE u == SaleUnit(s)
  <2>1. s \in ContractsOn(u)
    BY <1>2 DEF ContractsOn
  <2>2. \A t \in ContractsOn(u) : t = s
    BY <1>2 DEF ContractsOn, Inv, Holding
  <2>3. ReservationsOn(u) = {}
    <3>1. unit[u].commercial_status # "reserved"
      BY <1>2 DEF Inv, Holding
    <3> QED
      BY <3>1 DEF ReservationsOn, Inv, Holding
  <2> HIDE DEF u
  <2>4. (CHOOSE t \in ContractsOn(u) : TRUE) = s
    BY <2>1, <2>2
  <2>5. Holder(u) = sale[s].reservation
    BY <2>1, <2>3, <2>4 DEF Holder
  <2> QED
    BY <2>5 DEF u
<1>3. ASSUME NEW u \in Units, unit[u].commercial_status \notin HeldStatuses
      PROVE  Holder(u) = NoRecord
  <2>1. ReservationsOn(u) = {}
    BY <1>3 DEF ReservationsOn, Inv, Holding, HeldStatuses
  <2>2. ContractsOn(u) = {}
    BY <1>3 DEF ContractsOn, Inv, Holding, HeldStatuses
  <2> QED
    BY <2>1, <2>2 DEF Holder
<1>4. ASSUME NEW u \in Units, Holder(u) # NoRecord
      PROVE  /\ Holder(u) \in Reservations
             /\ reservation[Holder(u)].unit = u
             /\ reservation[Holder(u)].status \in ReservationCommitted \cup {"converted"}
  <2>1. CASE \E r \in Reservations : Committed(r) /\ reservation[r].unit = u
    BY <1>1, <2>1 DEF Committed
  <2>2. CASE \E s \in Sales : Contracting(s) /\ SaleUnit(s) = u
    <3>1. PICK s \in Sales : Contracting(s) /\ SaleUnit(s) = u
      BY <2>2
    <3>2. Holder(u) = sale[s].reservation
      BY <1>2, <3>1
    <3>3. sale[s].reservation \in Reservations /\ reservation[sale[s].reservation].status = "converted"
      BY <3>1 DEF Inv, Links, Quotes, RestsOn, Contracting, SaleCommitted
    <3> QED
      BY <3>1, <3>2, <3>3 DEF SaleUnit
  <2>3. unit[u].commercial_status \in HeldStatuses
    BY <1>3, <1>4
  <2> QED
    BY <2>1, <2>2, <2>3 DEF Inv, Holding, HeldStatuses
<1> QED
  BY <1>1, <1>2, <1>3, <1>4 DEF HolderRead

IsOver(q) ==
    \/ reservation[q].status \in {"expired", "cancelled"}
    \/ \E s \in Sales : /\ sale[s].status = "cancelled" /\ sale[s].reservation = q
                        /\ reservation[q].status = "converted"

LEMMA OverRead == Over = {q \in Reservations : IsOver(q)}
BY DEF Over, IsOver, CancelledContract

LEMMA OverReads ==
    ASSUME NEW over, \A q \in Reservations : IsOver(q)' <=> q \in over, over \subseteq Reservations
    PROVE  Over' = over
<1>1. Over' = {q \in Reservations : IsOver(q)'}
  BY DEF Over, IsOver, CancelledContract
<1> QED
  BY <1>1

\* What the abstract state sees of a step.
LEMMA SeenAsStutter ==
    ASSUME \A u \in Units : Stage(u)' = Stage(u) /\ Holder(u)' = Holder(u),
           \A q \in Reservations : IsOver(q)' <=> IsOver(q)
    PROVE  UNCHANGED Commitment!ladder
<1>1. Over' = Over
  BY OverReads, OverRead
<1>2. [u \in Units |-> Stage(u)]' = [u \in Units |-> Stage(u)]
  OBVIOUS
<1>3. [u \in Units |-> Holder(u)]' = [u \in Units |-> Holder(u)]
  OBVIOUS
<1> QED
  BY <1>1, <1>2, <1>3 DEF Commitment!ladder

LEMMA SeenAsMove ==
    ASSUME NEW u \in Units, NEW to,
           \A v \in Units : Stage(v)' = (IF v = u THEN to ELSE Stage(v)) /\ Holder(v)' = Holder(v),
           \A q \in Reservations : IsOver(q)' <=> IsOver(q),
           NEW from, Stage(u) \in from
    PROVE  Commitment!Move(u, from, to)
<1>1. Over' = Over
  BY OverReads, OverRead
<1>2. [v \in Units |-> Stage(v)]' = [[v \in Units |-> Stage(v)] EXCEPT ![u] = to]
  OBVIOUS
<1>3. [v \in Units |-> Holder(v)]' = [v \in Units |-> Holder(v)]
  OBVIOUS
<1>4. [v \in Units |-> Stage(v)][u] \in from
  OBVIOUS
<1> QED
  BY <1>1, <1>2, <1>3, <1>4 DEF Commitment!Move

LEMMA SeenAsLetGo ==
    ASSUME NEW u \in Units, NEW to, NEW r \in Reservations, Holder(u) = r,
           \A v \in Units : /\ Stage(v)' = (IF v = u THEN to ELSE Stage(v))
                            /\ Holder(v)' = (IF v = u THEN NoRecord ELSE Holder(v)),
           \A q \in Reservations : IsOver(q)' <=> IsOver(q) \/ q = r,
           NEW from, Stage(u) \in from
    PROVE  Commitment!LetGo(u, from, to)
<1>1. Over' = Over \cup {r}
  <2>1. \A q \in Reservations : IsOver(q)' <=> q \in Over \cup {r}
    BY OverRead
  <2>2. Over \cup {r} \subseteq Reservations
    BY OverRead
  <2> QED
    BY <2>1, <2>2, OverReads
<1>2. [v \in Units |-> Stage(v)]' = [[v \in Units |-> Stage(v)] EXCEPT ![u] = to]
  OBVIOUS
<1>3. [v \in Units |-> Holder(v)]' = [[v \in Units |-> Holder(v)] EXCEPT ![u] = NoRecord]
  OBVIOUS
<1>4. [v \in Units |-> Stage(v)][u] \in from /\ [v \in Units |-> Holder(v)][u] = r
  OBVIOUS
<1> QED
  BY <1>1, <1>2, <1>3, <1>4 DEF Commitment!LetGo

LEMMA SeenAsReserve ==
    ASSUME NEW u \in Units, NEW r \in Reservations, ~IsOver(r), Stage(u) = "market",
           \A v \in Units : /\ Holder(v) # r
                            /\ Stage(v)' = (IF v = u THEN "reserved" ELSE Stage(v))
                            /\ Holder(v)' = (IF v = u THEN r ELSE Holder(v)),
           \A q \in Reservations : IsOver(q)' <=> IsOver(q)
    PROVE  Commitment!Reserve(u, r)
<1>1. Over' = Over /\ r \notin Over
  BY OverReads, OverRead
<1>2. [v \in Units |-> Stage(v)]' = [[v \in Units |-> Stage(v)] EXCEPT ![u] = "reserved"]
  OBVIOUS
<1>3. [v \in Units |-> Holder(v)]' = [[v \in Units |-> Holder(v)] EXCEPT ![u] = r]
  OBVIOUS
<1>4. /\ [v \in Units |-> Stage(v)][u] = "market"
      /\ \A v \in Units : [w \in Units |-> Holder(w)][v] # r
  OBVIOUS
<1> QED
  BY <1>1, <1>2, <1>3, <1>4 DEF Commitment!Reserve

LEMMA SeenAsAbandon ==
    ASSUME NEW r \in Reservations,
           \A v \in Units : Stage(v)' = Stage(v) /\ Holder(v)' = Holder(v) /\ Holder(v) # r,
           \A q \in Reservations : IsOver(q)' <=> IsOver(q) \/ q = r
    PROVE  Commitment!Abandon(r)
<1>1. Over' = Over \cup {r}
  <2>1. \A q \in Reservations : IsOver(q)' <=> q \in Over \cup {r}
    BY OverRead
  <2>2. Over \cup {r} \subseteq Reservations
    BY OverRead
  <2> QED
    BY <2>1, <2>2, OverReads
<1>2. [v \in Units |-> Stage(v)]' = [v \in Units |-> Stage(v)]
  OBVIOUS
<1>3. [v \in Units |-> Holder(v)]' = [v \in Units |-> Holder(v)]
  OBVIOUS
<1>4. \A v \in Units : [w \in Units |-> Holder(w)][v] # r
  OBVIOUS
<1> QED
  BY <1>1, <1>2, <1>3, <1>4 DEF Commitment!Abandon

Whole == Inv /\ Quotes /\ Dropped

LEMMA WholeNext == Whole /\ [Next]_vars => Whole'
BY NextInv, NextQuotes, NextDropped DEF Whole

LEMMA HolderReadsBefore == Whole => HolderRead
BY HolderReads DEF Whole

LEMMA HolderReadsAfter == Whole' => HolderRead'
BY HolderReadsBefore, PTL

LEMMA ContractKeepsUnit ==
    ASSUME Whole, [Next]_vars, NEW s \in Sales, Contracting(s)
    PROVE  /\ SaleUnit(s) \in Units
           /\ SaleUnit(s)' = SaleUnit(s)
           /\ sale'[s].reservation = sale[s].reservation
           /\ sale[s].reservation \in Reservations
           /\ reservation[sale[s].reservation].status = "converted"
<1>1. /\ sale[s].reservation \in Reservations
      /\ reservation[sale[s].reservation].status = "converted"
  BY DEF Whole, Inv, Links, Quotes, RestsOn, Contracting, SaleCommitted
<1>2. SaleUnit(s)' = SaleUnit(s) /\ sale'[s].reservation = sale[s].reservation
  BY <1>1, ContractKeepsTerms, ClosedIsFinal DEF Whole, Closed, SaleUnit
<1> QED
  BY <1>1, <1>2, ContractingUnit DEF Whole, Inv

\* A unit whose holder stays, and which moves at most among the statuses nobody
\* holds, keeps its holder.
LEMMA HolderKept ==
    ASSUME Whole, [Next]_vars, NEW v \in Units,
           \A q \in Reservations : Committed(q) /\ reservation[q].unit = v =>
              Committed(q)' /\ reservation'[q].unit = v,
           \A s \in Sales : Contracting(s) /\ SaleUnit(s) = v => Contracting(s)',
           \/ unit'[v].commercial_status = unit[v].commercial_status
           \/ unit'[v].commercial_status \notin HeldStatuses
    PROVE  Holder(v)' = Holder(v)
<1>1. HolderRead /\ HolderRead'
  BY WholeNext, HolderReadsBefore, HolderReadsAfter
<1>2. CASE unit[v].commercial_status \in HeldStatuses
  <2>1. CASE \E q \in Reservations : Committed(q) /\ reservation[q].unit = v
    BY <1>1, <2>1 DEF HolderRead
  <2>2. CASE \E s \in Sales : Contracting(s) /\ SaleUnit(s) = v
    <3>1. PICK s \in Sales : Contracting(s) /\ SaleUnit(s) = v
      BY <2>2
    <3>2. Contracting(s)' /\ SaleUnit(s)' = v /\ sale'[s].reservation = sale[s].reservation
      BY <3>1, ContractKeepsUnit
    <3> QED
      BY <1>1, <3>1, <3>2 DEF HolderRead
  <2> QED
    BY <1>2, <2>1, <2>2 DEF Whole, Inv, Holding, HeldStatuses
<1>3. CASE unit[v].commercial_status \notin HeldStatuses
  BY <1>1, <1>3 DEF HolderRead
<1> QED
  BY <1>2, <1>3

LEMMA StageKept ==
    ASSUME NEW v, unit'[v].commercial_status = unit[v].commercial_status
    PROVE  Stage(v)' = Stage(v)
BY DEF Stage

LEMMA MovesSeen ==
    ASSUME Whole, [Next]_vars, NEW u \in Units, Moves(u)
    PROVE  [Commitment!Next]_(Commitment!ladder)
<1>1. \A q \in Reservations : IsOver(q)' <=> IsOver(q)
  BY DEF Moves, IsOver
<1>2. \A v \in Units : Holder(v)' = Holder(v)
  <2>1. ASSUME NEW v \in Units
        PROVE  \/ unit'[v].commercial_status = unit[v].commercial_status
               \/ unit'[v].commercial_status \notin HeldStatuses
    BY DEF Moves, HeldStatuses
  <2>2. /\ \A q \in Reservations : Committed(q)' = Committed(q) /\ reservation'[q] = reservation[q]
        /\ \A s \in Sales : Contracting(s)' = Contracting(s)
    BY DEF Moves, Committed, Contracting
  <2> QED
    BY <2>1, <2>2, HolderKept
<1>3. \A v \in Units : v # u => Stage(v)' = Stage(v)
  BY StageKept DEF Moves
<1>4. CASE Stage(u)' = Stage(u)
  BY <1>1, <1>2, <1>3, <1>4, SeenAsStutter
<1>5. CASE Stage(u) = "off" /\ Stage(u)' = "market"
  <2>1. Commitment!Move(u, {"off"}, "market")
    BY <1>1, <1>2, <1>3, <1>5, SeenAsMove
  <2> QED
    BY <2>1 DEF Commitment!Next, Commitment!Release
<1>6. CASE Stage(u) = "market" /\ Stage(u)' = "off"
  <2>1. Commitment!Move(u, {"market"}, "off")
    BY <1>1, <1>2, <1>3, <1>6, SeenAsMove
  <2> QED
    BY <2>1 DEF Commitment!Next, Commitment!Withdraw
<1>7. CASE Stage(u) = "returned" /\ Stage(u)' = "market"
  <2>1. Commitment!Move(u, {"returned"}, "market")
    BY <1>1, <1>2, <1>3, <1>7, SeenAsMove
  <2> QED
    BY <2>1 DEF Commitment!Next, Commitment!Remarket
<1>8. \/ Stage(u)' = Stage(u)
      \/ Stage(u) = "off" /\ Stage(u)' = "market"
      \/ Stage(u) = "market" /\ Stage(u)' = "off"
      \/ Stage(u) = "returned" /\ Stage(u)' = "market"
  <2>1. CASE unit'[u].commercial_status = unit[u].commercial_status
    BY <2>1, StageKept
  <2>2. CASE /\ unit[u].commercial_status \in {"unreleased", "held"}
             /\ unit'[u].commercial_status \in {"unreleased", "held"}
    BY <2>2 DEF Stage
  <2>3. CASE /\ unit[u].commercial_status = "available"
             /\ unit'[u].commercial_status \in {"unreleased", "held"}
    BY <2>3 DEF Stage
  <2>4. CASE /\ unit[u].commercial_status \in {"unreleased", "held", "returned"}
             /\ unit'[u].commercial_status = "available"
    BY <2>4 DEF Stage
  <2> QED
    BY <2>1, <2>2, <2>3, <2>4 DEF Moves
<1> QED
  BY <1>4, <1>5, <1>6, <1>7, <1>8

LEMMA PreparesSeen ==
    ASSUME Whole, [Next]_vars, NEW r \in Reservations, Prepares(r)
    PROVE  UNCHANGED Commitment!ladder
<1>1. \A q \in Reservations : IsOver(q)' <=> IsOver(q)
  <2>1. \A q \in Reservations : q # r => (IsOver(q)' <=> IsOver(q))
    BY DEF Prepares, IsOver
  <2>2. ~IsOver(r) /\ ~IsOver(r)'
    BY DEF Prepares, IsOver, ReservationPreparing
  <2> QED
    BY <2>1, <2>2
<1>2. \A v \in Units : Stage(v)' = Stage(v)
  BY StageKept DEF Prepares
<1>3. \A v \in Units : Holder(v)' = Holder(v)
  <2>1. \A q \in Reservations : Committed(q) => Committed(q)' /\ reservation'[q].unit = reservation[q].unit
    <3>1. ~Committed(r)
      BY DEF Prepares, Committed, ReservationPreparing, ReservationCommitted
    <3> QED
      BY <3>1 DEF Prepares, Committed
  <2>2. \A s \in Sales : Contracting(s)' = Contracting(s)
    BY DEF Prepares, Contracting
  <2>3. UNCHANGED unit
    BY DEF Prepares
  <2> QED
    BY <2>1, <2>2, <2>3, HolderKept
<1> QED
  BY <1>1, <1>2, <1>3, SeenAsStutter

LEMMA KeepsSeen ==
    ASSUME Whole, [Next]_vars, NEW r \in Reservations, Keeps(r)
    PROVE  UNCHANGED Commitment!ladder
<1>1. \A q \in Reservations : IsOver(q)' <=> IsOver(q)
  <2>1. \A q \in Reservations : q # r => (IsOver(q)' <=> IsOver(q))
    BY DEF Keeps, IsOver
  <2>2. ~IsOver(r) /\ ~IsOver(r)'
    BY DEF Keeps, IsOver, Committed, ReservationCommitted
  <2> QED
    BY <2>1, <2>2
<1>2. \A v \in Units : Stage(v)' = Stage(v)
  BY StageKept DEF Keeps
<1>3. \A v \in Units : Holder(v)' = Holder(v)
  <2>1. \A q \in Reservations : Committed(q) => Committed(q)' /\ reservation'[q].unit = reservation[q].unit
    BY DEF Keeps, Committed
  <2>2. \A s \in Sales : Contracting(s)' = Contracting(s)
    BY DEF Keeps, Contracting
  <2>3. UNCHANGED unit
    BY DEF Keeps
  <2> QED
    BY <2>1, <2>2, <2>3, HolderKept
<1> QED
  BY <1>1, <1>2, <1>3, SeenAsStutter

LEMMA ActivationSeen ==
    ASSUME Whole, [Next]_vars, NEW r \in Reservations, Activates(r)
    PROVE  Commitment!Next
<1>0. reservation[r].status \in ReservationPreparing
  BY DEF Activates, activate_reservation
<1>u. PICK u \in Units : u = reservation[r].unit
  BY <1>0 DEF Whole, Inv, Links, ReservationPreparing
<1>1. /\ reservation' = [reservation EXCEPT ![r].status = "active"]
      /\ unit' = [unit EXCEPT ![u].commercial_status = "reserved"]
      /\ UNCHANGED sale
      /\ reservation[r].status \in ReservationPreparing
      /\ unit[u].commercial_status = "available"
  BY <1>u DEF Activates, activate_reservation, SetCommercial
<1>3. /\ reservation'[r].status = "active" /\ reservation'[r].unit = u
      /\ \A q \in Reservations : q # r => reservation'[q] = reservation[q]
      /\ unit'[u].commercial_status = "reserved"
      /\ \A v \in Units : v # u => unit'[v] = unit[v]
  BY <1>1, <1>u DEF Whole, Inv, TypeOK, ReservationRow, UnitRow
<1>4. HolderRead /\ HolderRead'
  BY WholeNext, HolderReadsBefore, HolderReadsAfter
<1>5. \A q \in Reservations : IsOver(q)' <=> IsOver(q)
  <2>1. \A q \in Reservations : q # r => (IsOver(q)' <=> IsOver(q))
    BY <1>1, <1>3 DEF IsOver
  <2>2. ~IsOver(r) /\ ~IsOver(r)'
    BY <1>1, <1>3 DEF IsOver, ReservationPreparing
  <2> QED
    BY <2>1, <2>2
<1>6. ~IsOver(r)
  BY <1>1 DEF IsOver, ReservationPreparing
<1>7. \A v \in Units : Holder(v) # r
  BY <1>1, <1>4, UnitSaleAssumption DEF HolderRead, ReservationPreparing, ReservationCommitted
<1>8. Holder(u)' = r
  <2>1. Committed(r)'
    BY <1>3 DEF Committed, ReservationCommitted
  <2> QED
    BY <1>3, <1>4, <2>1 DEF HolderRead
<1>9. ASSUME NEW v \in Units, v # u
      PROVE  Holder(v)' = Holder(v) /\ Stage(v)' = Stage(v)
  <2>1. \A q \in Reservations : Committed(q) => Committed(q)' /\ reservation'[q].unit = reservation[q].unit
    <3>1. ~Committed(r)
      BY <1>1 DEF Committed, ReservationPreparing, ReservationCommitted
    <3> QED
      BY <1>3, <3>1 DEF Committed
  <2>2. \A s \in Sales : Contracting(s)' = Contracting(s)
    BY <1>1 DEF Contracting
  <2>3. unit'[v] = unit[v]
    BY <1>3, <1>9
  <2> QED
    BY <2>1, <2>2, <2>3, HolderKept, StageKept
<1>10. Stage(u) = "market" /\ Stage(u)' = "reserved"
  BY <1>1, <1>3 DEF Stage
<1>11. Commitment!Reserve(u, r)
  <2>1. \A v \in Units : /\ Holder(v) # r
                          /\ Stage(v)' = (IF v = u THEN "reserved" ELSE Stage(v))
                          /\ Holder(v)' = (IF v = u THEN r ELSE Holder(v))
    BY <1>7, <1>8, <1>9, <1>10
  <2> QED
    BY <1>5, <1>6, <1>10, <2>1, SeenAsReserve
<1> QED
  BY <1>11 DEF Commitment!Next

LEMMA CloseSeen ==
    ASSUME Whole, [Next]_vars, NEW r \in Reservations, NEW to \in {"expired", "cancelled"},
           Closes(r, to)
    PROVE  Commitment!Next
<1>0. reservation[r].status \in ReservationPreparing \cup ReservationCommitted
  BY CloseRows DEF Whole
<1>u. PICK u \in Units : u = reservation[r].unit
  BY <1>0 DEF Whole, Inv, Links, ReservationPreparing, ReservationCommitted
<1>1. /\ reservation'[r].status = to
      /\ \A q \in Reservations : reservation'[q].unit = reservation[q].unit
      /\ \A q \in Reservations : q # r => reservation'[q] = reservation[q]
      /\ \A s \in Sales : \/ sale'[s] = sale[s]
                          \/ /\ to = "cancelled"
                             /\ sale[s].reservation = r
                             /\ sale[s].status = "draft"
                             /\ sale'[s] = [sale[s] EXCEPT !.status = "cancelled"]
  BY CloseRows DEF Whole
<1>2. ASSUME NEW s \in Sales
      PROVE  /\ sale'[s].reservation = sale[s].reservation
             /\ sale[s].reservation # r => sale'[s] = sale[s]
             /\ Contracting(s)' = Contracting(s)
  <2>1. CASE sale'[s] = sale[s]
    BY <2>1 DEF Contracting
  <2>2. CASE /\ sale[s].reservation = r /\ sale[s].status = "draft"
             /\ sale'[s] = [sale[s] EXCEPT !.status = "cancelled"]
    BY <2>2 DEF Whole, Inv, TypeOK, SaleRow, Contracting, SaleCommitted
  <2> QED
    BY <1>1, <2>1, <2>2
<1>3. \A q \in Reservations : IsOver(q)' <=> IsOver(q) \/ q = r
  <2>1. \A q \in Reservations : q # r => (IsOver(q)' <=> IsOver(q))
    BY <1>1, <1>2 DEF IsOver
  <2>2. IsOver(r)'
    BY <1>1 DEF IsOver
  <2> QED
    BY <2>1, <2>2
<1>5. HolderRead /\ HolderRead'
  BY WholeNext, HolderReadsBefore, HolderReadsAfter
<1>6. ASSUME NEW v \in Units, ~(Committed(r) /\ v = u),
             unit'[v].commercial_status = unit[v].commercial_status
      PROVE  Holder(v)' = Holder(v) /\ Stage(v)' = Stage(v)
  <2>1. \A q \in Reservations : Committed(q) /\ reservation[q].unit = v =>
              Committed(q)' /\ reservation'[q].unit = v
    BY <1>1, <1>6, <1>u DEF Committed
  <2> QED
    BY <1>2, <1>6, <2>1, HolderKept, StageKept
<1>7. CASE ~Committed(r)
  <2>1. UNCHANGED unit
    BY <1>7 DEF Closes, close_reservation
  <2>2. \A v \in Units : Holder(v)' = Holder(v) /\ Stage(v)' = Stage(v)
    BY <1>6, <1>7, <2>1
  <2>3. \A v \in Units : Holder(v) # r
    <3>1. reservation[r].status \in ReservationPreparing
      BY <1>0, <1>7 DEF Committed
    <3> QED
      BY <1>5, <3>1, UnitSaleAssumption DEF HolderRead, ReservationPreparing, ReservationCommitted
  <2>4. Commitment!Abandon(r)
    BY <1>3, <2>2, <2>3, SeenAsAbandon
  <2> QED
    BY <2>4 DEF Commitment!Next
<1>8. CASE Committed(r)
  <2>1. unit[u].commercial_status = "reserved"
    BY <1>8, <1>u DEF Whole, Inv, Holding
  <2>2. PICK back \in {"available", "held"} : unit' = [unit EXCEPT ![u].commercial_status = back]
    BY <1>8, <1>u, <2>1 DEF Closes, close_reservation, SetCommercial
  <2>3. /\ unit'[u].commercial_status = back
        /\ \A v \in Units : v # u => unit'[v] = unit[v]
    BY <2>2 DEF Whole, Inv, TypeOK, UnitRow
  <2>4. Holder(u) = r /\ Holder(u)' = NoRecord
    BY <1>5, <1>8, <1>u, <2>3 DEF HolderRead, HeldStatuses
  <2>5. \A v \in Units : v # u => Holder(v)' = Holder(v) /\ Stage(v)' = Stage(v)
    BY <1>6, <2>3
  <2>6. Stage(u) = "reserved" /\ Stage(u)' = IF back = "available" THEN "market" ELSE "off"
    BY <2>1, <2>3 DEF Stage
  <2>7. CASE back = "available"
    <3>1. Stage(u) \in {"reserved"} /\ Stage(u)' = "market"
      BY <2>6, <2>7
    <3>2. \A v \in Units : /\ Stage(v)' = (IF v = u THEN "market" ELSE Stage(v))
                            /\ Holder(v)' = (IF v = u THEN NoRecord ELSE Holder(v))
      BY <2>4, <2>5, <3>1
    <3>3. Commitment!LetGo(u, {"reserved"}, "market")
      BY <1>3, <2>4, <3>1, <3>2, SeenAsLetGo
    <3> QED
      BY <3>3 DEF Commitment!Next, Commitment!Release_or_hold
  <2>8. CASE back = "held"
    <3>1. Stage(u) \in {"reserved"} /\ Stage(u)' = "off"
      BY <2>6, <2>8
    <3>2. \A v \in Units : /\ Stage(v)' = (IF v = u THEN "off" ELSE Stage(v))
                            /\ Holder(v)' = (IF v = u THEN NoRecord ELSE Holder(v))
      BY <2>4, <2>5, <3>1
    <3>3. Commitment!LetGo(u, {"reserved"}, "off")
      BY <1>3, <2>4, <3>1, <3>2, SeenAsLetGo
    <3> QED
      BY <3>3 DEF Commitment!Next, Commitment!Release_or_hold
  <2> QED
    BY <2>7, <2>8
<1> QED
  BY <1>7, <1>8

LEMMA PaperworkSeen ==
    ASSUME Whole, [Next]_vars, NEW s \in Sales, Paperwork(s)
    PROVE  UNCHANGED Commitment!ladder
<1>1. \A q \in Reservations : IsOver(q)' <=> IsOver(q)
  <2>1. \A t \in Sales : /\ sale'[t].reservation = sale[t].reservation
                         /\ (sale'[t].status = "cancelled") = (sale[t].status = "cancelled")
    BY DEF Paperwork
  <2>2. UNCHANGED reservation
    BY DEF Paperwork
  <2> QED
    BY <2>1, <2>2 DEF IsOver
<1>2. \A v \in Units : Stage(v)' = Stage(v)
  BY StageKept DEF Paperwork
<1>3. \A v \in Units : Holder(v)' = Holder(v)
  <2>1. \A q \in Reservations : Committed(q)' = Committed(q)
    BY DEF Paperwork, Committed
  <2>2. \A t \in Sales : Contracting(t)' = Contracting(t)
    BY DEF Paperwork, Contracting
  <2>3. UNCHANGED <<unit, reservation>>
    BY DEF Paperwork
  <2> QED
    BY <2>1, <2>2, <2>3, HolderKept
<1> QED
  BY <1>1, <1>2, <1>3, SeenAsStutter

LEMMA DraftSeen ==
    ASSUME Whole, [Next]_vars, NEW s \in Sales, NEW r \in Reservations, NEW gated \in BOOLEAN,
           create_sale(s, r, gated)
    PROVE  UNCHANGED Commitment!ladder
<1>0. /\ UNCHANGED <<unit, reservation>>
      /\ sale[s].status = "none" /\ sale'[s].status = "draft"
      /\ \A t \in Sales : t # s => sale'[t] = sale[t]
  BY DEF create_sale, NoSale, Whole, Inv, TypeOK
<1>1. \A q \in Reservations : IsOver(q)' <=> IsOver(q)
  BY <1>0 DEF IsOver
<1>2. \A v \in Units : Stage(v)' = Stage(v)
  BY <1>0, StageKept
<1>3. \A v \in Units : Holder(v)' = Holder(v)
  <2>1. \A q \in Reservations : Committed(q)' = Committed(q)
    BY <1>0 DEF Committed
  <2>2. \A t \in Sales : Contracting(t)' = Contracting(t)
    BY <1>0 DEF Contracting, SaleCommitted
  <2> QED
    BY <1>0, <2>1, <2>2, HolderKept
<1> QED
  BY <1>1, <1>2, <1>3, SeenAsStutter

LEMMA SubmissionSeen ==
    ASSUME Whole, [Next]_vars, NEW s \in Sales, Submits(s)
    PROVE  Commitment!Next
<1>0. /\ sale[s].reservation \in Reservations
      /\ Committed(sale[s].reservation)
  BY SubmitRows DEF Whole
<1>r. PICK r \in Reservations : r = sale[s].reservation
  BY <1>0
<1>u. PICK u \in Units : u = reservation[r].unit
  BY <1>0, <1>r, CommittedUnit DEF Whole, Inv
<1>1. /\ Committed(r)
      /\ reservation'[r] = [reservation[r] EXCEPT !.status = "converted"]
      /\ \A q \in Reservations : reservation'[q].unit = reservation[q].unit
      /\ \A q \in Reservations : q # r => reservation'[q] = reservation[q]
      /\ sale'[s] = [sale[s] EXCEPT !.status = "signature_pending"]
      /\ \A t \in Sales : t # s => sale'[t] = sale[t]
  BY <1>r, SubmitRows DEF Whole
<1>2. /\ reservation'[r].status = "converted"
      /\ sale[s].status = "draft"
      /\ sale'[s].status = "signature_pending" /\ sale'[s].reservation = r
  <2>1. reservation'[r].status = "converted"
    BY <1>1 DEF Whole, Inv, TypeOK, ReservationRow
  <2>2. sale[s].status = "draft"
    BY DEF Submits, submit_sale
  <2>3. sale'[s].status = "signature_pending" /\ sale'[s].reservation = r
    BY <1>1, <1>r DEF Whole, Inv, TypeOK, SaleRow
  <2> QED
    BY <2>1, <2>2, <2>3
<1>3. /\ unit[u].commercial_status = "reserved"
      /\ unit'[u].commercial_status = "contract_pending"
      /\ \A v \in Units : v # u => unit'[v] = unit[v]
  BY <1>r, <1>u DEF Submits, submit_sale, SetCommercial, SaleUnit, Whole, Inv, TypeOK, UnitRow
<1>4. HolderRead /\ HolderRead'
  BY WholeNext, HolderReadsBefore, HolderReadsAfter
<1>5. \A q \in Reservations : IsOver(q)' <=> IsOver(q)
  <2>1. \A q \in Reservations : q # r => (IsOver(q)' <=> IsOver(q))
    <3>1. \A t \in Sales : /\ sale'[t].reservation = sale[t].reservation
                           /\ (sale'[t].status = "cancelled") = (sale[t].status = "cancelled")
      BY <1>1, <1>2, <1>r
    <3> QED
      BY <1>1, <3>1 DEF IsOver
  <2>2. \A t \in Sales : ~(sale[t].status = "cancelled" /\ sale[t].reservation = r)
    BY <1>1 DEF Whole, Dropped, Committed, ReservationCommitted
  <2>3. ~IsOver(r) /\ ~IsOver(r)'
    BY ZenonT(40), <1>1, <1>2, <2>2 DEF IsOver, Committed, ReservationCommitted
  <2> QED
    BY <2>1, <2>3
<1>6. ASSUME NEW v \in Units, v # u
      PROVE  Holder(v)' = Holder(v) /\ Stage(v)' = Stage(v)
  <2>1. \A q \in Reservations : Committed(q) /\ reservation[q].unit = v =>
              Committed(q)' /\ reservation'[q].unit = v
    BY <1>1, <1>6, <1>u DEF Committed
  <2>2. \A t \in Sales : Contracting(t) => Contracting(t)'
    BY <1>1, <1>2 DEF Contracting, SaleCommitted
  <2>3. unit'[v] = unit[v]
    BY <1>3, <1>6
  <2> QED
    BY <2>1, <2>2, <2>3, HolderKept, StageKept
<1>7. Holder(u) = r
  BY <1>1, <1>4, <1>u DEF HolderRead
<1>8. Holder(u)' = r
  <2>1. Contracting(s)'
    BY <1>2 DEF Contracting, SaleCommitted
  <2>2. SaleUnit(s)' = u
    BY <1>1, <1>2, <1>u DEF SaleUnit
  <2> QED
    BY <1>2, <1>4, <2>1, <2>2 DEF HolderRead
<1>9. Stage(u) \in {"reserved"} /\ Stage(u)' = "contract"
  BY <1>3 DEF Stage
<1>10. Commitment!Move(u, {"reserved"}, "contract")
  <2>1. \A v \in Units : /\ Stage(v)' = (IF v = u THEN "contract" ELSE Stage(v))
                         /\ Holder(v)' = Holder(v)
    BY <1>6, <1>7, <1>8, <1>9
  <2> QED
    BY <1>5, <1>9, <2>1, SeenAsMove
<1> QED
  BY <1>10 DEF Commitment!Next, Commitment!Contract

LEMMA SignatureSeen ==
    ASSUME Whole, [Next]_vars, NEW s \in Sales, Signs(s)
    PROVE  Commitment!Next
<1>1. /\ Contracting(s)
      /\ sale'[s].reservation = sale[s].reservation
      /\ sale'[s].status = "active"
      /\ UNCHANGED reservation
      /\ \A t \in Sales : t # s => sale'[t] = sale[t]
      /\ sale[s].status = "signature_pending"
  BY ContractRows DEF Whole, Signs, activate_sale
<1>u. PICK u \in Units : u = SaleUnit(s)
  BY <1>1, ContractKeepsUnit
<1>2. /\ unit[u].commercial_status = "contract_pending"
      /\ unit'[u].commercial_status = "contracted"
      /\ \A v \in Units : v # u => unit'[v] = unit[v]
  BY <1>u DEF Signs, activate_sale, SetCommercial, Whole, Inv, TypeOK, UnitRow
<1>3. HolderRead /\ HolderRead'
  BY WholeNext, HolderReadsBefore, HolderReadsAfter
<1>4. \A q \in Reservations : IsOver(q)' <=> IsOver(q)
  <2>1. \A t \in Sales : /\ sale'[t].reservation = sale[t].reservation
                         /\ (sale'[t].status = "cancelled") = (sale[t].status = "cancelled")
    BY <1>1
  <2> QED
    BY <1>1, <2>1 DEF IsOver
<1>5. /\ \A q \in Reservations : Committed(q)' = Committed(q)
      /\ \A t \in Sales : Contracting(t)' = Contracting(t)
  BY <1>1 DEF Committed, Contracting, SaleCommitted
<1>6. ASSUME NEW v \in Units, v # u
      PROVE  Holder(v)' = Holder(v) /\ Stage(v)' = Stage(v)
  BY <1>1, <1>2, <1>5, <1>6, HolderKept, StageKept
<1>7. Holder(u)' = Holder(u)
  <2>1. /\ Contracting(s)' /\ SaleUnit(s)' = u
        /\ sale'[s].reservation = sale[s].reservation
    BY <1>1, <1>5, <1>u, ContractKeepsUnit
  <2>2. Holder(u) = sale[s].reservation
    BY <1>1, <1>3, <1>u DEF HolderRead
  <2>3. Holder(u)' = sale'[s].reservation
    BY <1>3, <2>1 DEF HolderRead
  <2> QED
    BY <2>1, <2>2, <2>3
<1>8. Stage(u) \in {"contract"} /\ Stage(u)' = "signed"
  BY <1>2 DEF Stage
<1>9. Commitment!Move(u, {"contract"}, "signed")
  <2>1. \A v \in Units : /\ Stage(v)' = (IF v = u THEN "signed" ELSE Stage(v))
                         /\ Holder(v)' = Holder(v)
    BY <1>6, <1>7, <1>8
  <2> QED
    BY <1>4, <1>8, <2>1, SeenAsMove
<1> QED
  BY <1>9 DEF Commitment!Next, Commitment!Sign

LEMMA CancellationSeen ==
    ASSUME Whole, [Next]_vars, NEW s \in Sales, Completes(s)
    PROVE  Commitment!Next
<1>1. /\ Contracting(s)
      /\ sale'[s].reservation = sale[s].reservation
      /\ sale'[s].status = "cancelled"
      /\ UNCHANGED reservation
      /\ \A t \in Sales : t # s => sale'[t] = sale[t]
  <2>1. ~Signs(s)
    BY DEF Signs, activate_sale, Completes, complete_cancellation
  <2> QED
    BY <2>1, ContractRows DEF Whole
<1>r. PICK r \in Reservations : r = sale[s].reservation
  BY <1>1, ContractKeepsUnit
<1>u. PICK u \in Units : u = SaleUnit(s)
  BY <1>1, ContractKeepsUnit
<1>2. /\ unit'[u].commercial_status = "returned"
      /\ \A v \in Units : v # u => unit'[v] = unit[v]
  BY <1>u DEF Completes, complete_cancellation, Whole, Inv, TypeOK, UnitRow
<1>3. unit[u].commercial_status \in {"contract_pending", "contracted"}
  BY <1>1, <1>u DEF Whole, Inv, Holding
<1>4. HolderRead /\ HolderRead'
  BY WholeNext, HolderReadsBefore, HolderReadsAfter
<1>5. \A q \in Reservations : IsOver(q)' <=> IsOver(q) \/ q = r
  <2>1. \A q \in Reservations : q # r => (IsOver(q)' <=> IsOver(q))
    BY <1>1, <1>r DEF IsOver
  <2>2. IsOver(r)'
    BY <1>1, <1>r, ContractKeepsUnit DEF IsOver
  <2> QED
    BY <2>1, <2>2
<1>6. ASSUME NEW v \in Units, v # u
      PROVE  Holder(v)' = Holder(v) /\ Stage(v)' = Stage(v)
  <2>1. \A q \in Reservations : Committed(q)' = Committed(q)
    BY <1>1 DEF Committed
  <2>2. \A t \in Sales : Contracting(t) /\ SaleUnit(t) = v => Contracting(t)'
    BY <1>1, <1>6, <1>u DEF Contracting
  <2> QED
    BY <1>1, <1>2, <1>6, <2>1, <2>2, HolderKept, StageKept
<1>7. Holder(u) = r /\ Holder(u)' = NoRecord
  BY <1>1, <1>2, <1>4, <1>r, <1>u DEF HolderRead, HeldStatuses
<1>8. Stage(u) \in {"contract", "signed"} /\ Stage(u)' = "returned"
  BY <1>2, <1>3 DEF Stage
<1>9. Commitment!LetGo(u, {"contract", "signed"}, "returned")
  <2>1. \A v \in Units : /\ Stage(v)' = (IF v = u THEN "returned" ELSE Stage(v))
                         /\ Holder(v)' = (IF v = u THEN NoRecord ELSE Holder(v))
    BY <1>6, <1>7, <1>8
  <2> QED
    BY <1>5, <1>7, <1>8, <2>1, SeenAsLetGo
<1> QED
  BY <1>9 DEF Commitment!Next, Commitment!GiveBack

LEMMA NothingSeen ==
    ASSUME Whole, [Next]_vars, UNCHANGED <<unit, reservation, sale>>
    PROVE  UNCHANGED Commitment!ladder
<1>1. \A q \in Reservations : IsOver(q)' <=> IsOver(q)
  BY DEF IsOver
<1>2. \A v \in Units : Stage(v)' = Stage(v)
  BY StageKept
<1>3. \A v \in Units : Holder(v)' = Holder(v)
  <2>1. /\ \A q \in Reservations : Committed(q)' = Committed(q)
        /\ \A t \in Sales : Contracting(t)' = Contracting(t)
    BY DEF Committed, Contracting
  <2> QED
    BY <2>1, HolderKept
<1> QED
  BY <1>1, <1>2, <1>3, SeenAsStutter

LEMMA StepSeen == Whole /\ [Next]_vars => [Commitment!Next]_(Commitment!ladder)
<1> SUFFICES ASSUME Whole, [Next]_vars PROVE [Commitment!Next]_(Commitment!ladder)
  OBVIOUS
<1>1. CASE \E r \in Reservations :
              \/ Prepares(r) \/ Keeps(r) \/ Activates(r)
              \/ \E to \in {"expired", "cancelled"} : Closes(r, to)
  BY <1>1, PreparesSeen, KeepsSeen, ActivationSeen, CloseSeen
<1>2. CASE \E s \in Sales :
              \/ Paperwork(s)
              \/ \E r \in Reservations, gated \in BOOLEAN : create_sale(s, r, gated)
              \/ Submits(s) \/ Signs(s) \/ Completes(s)
  BY <1>2, PaperworkSeen, DraftSeen, SubmissionSeen, SignatureSeen, CancellationSeen
<1>3. CASE \E u \in Units : Moves(u)
  BY <1>3, MovesSeen
<1>4. CASE UNCHANGED <<unit, reservation, sale>>
  BY <1>4, NothingSeen
<1> QED
  BY <1>1, <1>2, <1>3, <1>4, StepShape DEF Whole

LEMMA InitSeen == Init => Commitment!Init
<1> SUFFICES ASSUME Init PROVE Commitment!Init
  OBVIOUS
<1>1. \A r \in Reservations : reservation[r].status = "none"
  BY DEF Init, NoReservation
<1>2. \A s \in Sales : sale[s].status = "none"
  BY DEF Init, NoSale
<1>3. \A u \in Units : unit[u].commercial_status = "unreleased"
  BY DEF Init
<1>4. \A u \in Units : Stage(u) = "off"
  BY <1>3 DEF Stage
<1>5. \A u \in Units : Holder(u) = NoRecord
  BY <1>3, InitInv, InitQuotes, HolderReads DEF HolderRead, HeldStatuses
<1>6. Over = {}
  BY <1>1, <1>2 DEF Over, CancelledContract
<1> QED
  BY <1>4, <1>5, <1>6 DEF Commitment!Init

\* Every behaviour of the services, with the paperwork forgotten, is one the ladder
\* of commitments allows.
THEOREM ImplementsCommitment == Spec => CommitmentKept
<1>1. Init => Whole
  BY InitInv, InitQuotes, InitDropped DEF Whole
<1> QED
  BY <1>1, WholeNext, InitSeen, StepSeen, PTL DEF Spec, CommitmentKept, Commitment!Spec

-----------------------------------------------------------------------------
(* Nobody is stranded *)

\* Inventory may date a unit's event ahead, a sale may not: what holds a unit, and
\* what gave it back, has a history that ends today or earlier.
NotAhead ==
    /\ \A r \in Reservations : moved[r] <= today
    /\ \A u \in Units :
          unit[u].commercial_status \in HeldStatuses \cup {"returned"} => dated[u] <= today

\* A unit that a step leaves held or returned was so before, or the step takes it
\* from the market, and dates the event today or earlier.
LEMMA TakenDated ==
    ASSUME Inv, [Next]_vars, NEW v \in Units,
           unit'[v].commercial_status \in HeldStatuses \cup {"returned"}
    PROVE  \/ unit[v].commercial_status \in HeldStatuses \cup {"returned"}
           \/ dated'[v] <= today
<1> USE DEF HeldStatuses
<1> SUFFICES ASSUME unit'[v].commercial_status # unit[v].commercial_status,
                    unit[v].commercial_status \notin HeldStatuses \cup {"returned"}
             PROVE  dated'[v] <= today
  OBVIOUS
<1>0. ASSUME NEW u, NEW to, SetCommercial(u, to)
      PROVE  v = u /\ unit'[v].commercial_status = to
  BY <1>0 DEF SetCommercial, Inv, TypeOK, UnitRow
<1>1. ASSUME NEW u \in Units, Moves(u)
      PROVE  FALSE
  BY <1>1 DEF Moves
<1>2. ASSUME NEW r \in Reservations, Prepares(r) \/ Keeps(r)
      PROVE  FALSE
  BY <1>2 DEF Prepares, Keeps
<1>3. ASSUME NEW r \in Reservations, NEW to, NEW day \in Past, close_reservation(r, to, day)
      PROVE  FALSE
  BY <1>0, <1>3 DEF close_reservation
<1>4. ASSUME NEW r \in Reservations, NEW day \in Past, activate_reservation(r, day)
      PROVE  dated'[v] <= today
  <2>1. SetCommercial(reservation[r].unit, "reserved") /\ UnitEvent(reservation[r].unit, day)
    BY <1>4 DEF activate_reservation
  <2>2. dated'[v] = day
    BY <1>0, <2>1 DEF UnitEvent, Inv, TypeOK
  <2> QED
    BY <2>2 DEF Past
<1>5. ASSUME NEW s \in Sales,
             \/ Paperwork(s)
             \/ \E r \in Reservations, gated \in BOOLEAN : create_sale(s, r, gated)
      PROVE  FALSE
  BY <1>5 DEF Paperwork, create_sale
<1>6. ASSUME NEW s \in Sales, Submits(s)
      PROVE  FALSE
  BY <1>0, <1>6 DEF Submits, submit_sale
<1>7. ASSUME NEW s \in Sales, Signs(s)
      PROVE  FALSE
  BY <1>0, <1>7 DEF Signs, activate_sale
<1>8. ASSUME NEW s \in Sales, Completes(s)
      PROVE  FALSE
  <2>1. PICK day \in Past : complete_cancellation(s, day)
    BY <1>8 DEF Completes
  <2>2. unit[SaleUnit(s)].commercial_status # "available" /\ v = SaleUnit(s)
    BY <2>1 DEF complete_cancellation, MayApply, SalesMoves, Inv, TypeOK, UnitRow
  <2> QED
    BY <2>1, <2>2 DEF complete_cancellation, MayApply, SalesMoves
<1>9. CASE UNCHANGED <<unit, reservation, sale>>
  BY <1>9
<1> QED
  BY <1>1, <1>2, <1>3, <1>4, <1>5, <1>6, <1>7, <1>8, <1>9, StepShape DEF Activates, Closes

LEMMA InitNotAhead == Init => NotAhead
BY DEF Init, NotAhead, HeldStatuses

LEMMA NextNotAhead == Inv /\ NotAhead /\ [Next]_vars => NotAhead'
<1> SUFFICES ASSUME Inv, NotAhead, [Next]_vars PROVE NotAhead'
  OBVIOUS
<1>0. /\ today \in Nat /\ today' \in Nat /\ today <= today'
      /\ dated \in [Units -> Nat] /\ moved \in [Reservations -> Nat]
  <2>1. today <= today'
    <3>1. CASE NextDay \/ UNCHANGED vars
      BY <3>1 DEF NextDay, vars, Inv, TypeOK
    <3>2. CASE InventoryNext
      BY <3>2, InventoryOnly DEF Inv, TypeOK
    <3>3. CASE ReservationNext
      <4>1. ASSUME NEW r \in Reservations, NEW to, NEW day, close_reservation(r, to, day)
            PROVE  today' = today
        BY <4>1 DEF close_reservation
      <4>2. ASSUME NEW r \in Reservations, NEW day,
                   expire_reservation(r, day) \/ cancel_reservation(r, day)
            PROVE  today' = today
        BY <4>1, <4>2 DEF expire_reservation, cancel_reservation
      <4>3. ASSUME NEW r \in Reservations, NEW day,
                   \/ activate_reservation(r, day)
                   \/ \E expires \in Days : extend_reservation(r, expires, day)
            PROVE  today' = today
        BY <4>3 DEF activate_reservation, extend_reservation
      <4>4. ASSUME NEW r \in Reservations,
                   \/ \E expires \in Days : update_reservation(r, expires)
                   \/ \E breach \in Breaches : revise_quote(r, breach)
                   \/ submit_exception(r)
                   \/ \E approved \in BOOLEAN : decide_exception(r, approved)
                   \/ confirm_deposit(r) \/ waive_deposit(r)
                   \/ read_for_expiry(r)
            PROVE  today' = today
        BY <4>4 DEF update_reservation, revise_quote, submit_exception, decide_exception,
           confirm_deposit, waive_deposit, SettleDeposit, read_for_expiry
      <4>5. ASSUME NEW r \in Reservations, NEW u, NEW expires, NEW lock, NEW target, NEW breach,
                   \/ create_reservation(r, u, expires, lock, target, breach)
                   \/ requote_reservation(r, lock, breach)
            PROVE  today' = today
        BY <4>5 DEF create_reservation, requote_reservation
      <4>6. today' = today
        BY <3>3, <4>2, <4>3, <4>4, <4>5 DEF ReservationNext
      <4> QED
        BY <4>6 DEF Inv, TypeOK
    <3>4. CASE SaleNext
      <4>1. ASSUME NEW s \in Sales, NEW day,
                   submit_sale(s, day) \/ activate_sale(s, day) \/ complete_cancellation(s, day)
            PROVE  today' = today
        BY <4>1 DEF submit_sale, activate_sale, complete_cancellation
      <4>2. ASSUME NEW s \in Sales,
                   \/ \E r \in Reservations, gated \in BOOLEAN : create_sale(s, r, gated)
                   \/ \E gated \in BOOLEAN : update_sale(s, gated)
                   \/ confirm_first_payment(s) \/ waive_first_payment(s)
                   \/ record_signatures(s) \/ reverse_signature(s)
                   \/ start_cancellation(s) \/ withdraw_cancellation(s)
            PROVE  today' = today
        BY <4>2 DEF create_sale, update_sale, confirm_first_payment, waive_first_payment,
           SettleFirstPayment, record_signatures, reverse_signature, start_cancellation,
           withdraw_cancellation
      <4>3. today' = today
        BY <3>4, <4>1, <4>2 DEF SaleNext
      <4> QED
        BY <4>3 DEF Inv, TypeOK
    <3> QED
      BY <3>1, <3>2, <3>3, <3>4 DEF Next
  <2> QED
    BY <2>1, NextInv DEF Inv, TypeOK
<1>1. HistoryStep
  BY HistorySteps DEF Inv
<1>2. ASSUME NEW r \in Reservations
      PROVE  moved'[r] <= today'
  BY <1>0, <1>1 DEF HistoryStep, Past, NotAhead
<1>3. ASSUME NEW u \in Units,
             unit'[u].commercial_status \in HeldStatuses \cup {"returned"}
      PROVE  dated'[u] <= today'
  <2>1. dated[u] <= today \/ dated'[u] <= today
    BY <1>3, TakenDated DEF NotAhead
  <2>2. \/ dated'[u] = dated[u]
        \/ unit'[u].commercial_status \in {"unreleased", "held", "available"}
        \/ dated'[u] \in Nat /\ dated'[u] <= today
    BY <1>0, <1>1 DEF HistoryStep, Past
  <2> QED
    BY <1>0, <1>3, <2>1, <2>2 DEF HeldStatuses
<1> QED
  BY <1>2, <1>3 DEF NotAhead

\* Where a reservation that is cancelled today puts its unit.
Back(u) == IF Releasable(u) THEN "available" ELSE "held"

\* NoUnitStranded with ENABLED unfolded: the guards of the operation that lets the
\* unit go, on this very day, are all met, those of the move inventory is asked for
\* and of the two histories included.
WayOut ==
    \A u \in Units :
        /\ unit[u].commercial_status = "reserved" =>
              \E r \in ReservationsOn(u) :
                 /\ MayClose(r, "cancelled") /\ today >= moved[r]
                 /\ MayApply(u, Back(u), today) /\ today >= dated[u]
        /\ unit[u].commercial_status \in {"contract_pending", "contracted"} =>
              \E s \in ContractsOn(u) :
                 \/ sale[s].status \in {"signature_pending", "active"}
                 \/ /\ sale[s].status = "termination_pending"
                    /\ MayApply(u, "returned", today) /\ today >= dated[u]

\* Whoever holds a unit can let it go: no sequence of calls leaves a unit behind a
\* record that can neither be closed nor cancelled.
THEOREM HoldersCanLetGo == Spec => []WayOut
<1>0. ASSUME Inv, NotAhead, NEW u \in Units, unit[u].commercial_status \in HeldStatuses
      PROVE  today >= dated[u] /\ \A r \in Reservations : today >= moved[r]
  BY <1>0 DEF NotAhead, Inv, TypeOK
<1>1. ASSUME Inv, Quotes, NotAhead, NEW u \in Units, unit[u].commercial_status = "reserved"
      PROVE  \E r \in ReservationsOn(u) :
                /\ MayClose(r, "cancelled") /\ today >= moved[r]
                /\ MayApply(u, Back(u), today) /\ today >= dated[u]
  <2>1. PICK r \in Reservations : Committed(r) /\ reservation[r].unit = u
    BY <1>1 DEF Inv, Holding
  <2>2. r \in ReservationsOn(u)
    BY <2>1 DEF ReservationsOn
  <2>3. ASSUME NEW s \in ContractOf(r)
        PROVE  sale[s].status = "draft"
    <3>1. s \in Sales /\ sale[s].reservation = r /\ sale[s].status # "cancelled"
      BY DEF ContractOf
    <3>2. RestsOn(sale[s]) /\ sale[s] \in SaleRow
      BY <1>1, <3>1 DEF Quotes, Inv, TypeOK
    <3>3. sale[s].status # "none"
      BY <3>1, <3>2, UnitSaleAssumption DEF RestsOn
    <3>4. sale[s].status \notin SaleCommitted
      BY <2>1, <3>1, <3>2 DEF RestsOn, Committed, ReservationCommitted
    <3> QED
      BY <3>1, <3>2, <3>3, <3>4 DEF SaleRow, SaleStatuses
  <2>4. MayClose(r, "cancelled")
    BY <2>1, <2>3 DEF MayClose
  <2>5. MayApply(u, Back(u), today)
    BY <1>1 DEF MayApply, SalesMoves, Back, Releasable
  <2>6. today >= moved[r] /\ today >= dated[u]
    BY <1>0, <1>1 DEF HeldStatuses
  <2> QED
    BY <2>2, <2>4, <2>5, <2>6
<1>2. ASSUME Inv, NotAhead, NEW u \in Units,
             unit[u].commercial_status \in {"contract_pending", "contracted"}
      PROVE  \E s \in ContractsOn(u) :
                \/ sale[s].status \in {"signature_pending", "active"}
                \/ /\ sale[s].status = "termination_pending"
                   /\ MayApply(u, "returned", today) /\ today >= dated[u]
  <2>1. PICK s \in Sales : Contracting(s) /\ SaleUnit(s) = u
    BY <1>2 DEF Inv, Holding
  <2>2. MayApply(u, "returned", today) /\ today >= dated[u]
    BY <1>0, <1>2 DEF MayApply, SalesMoves, HeldStatuses
  <2> QED
    BY <2>1, <2>2 DEF ContractsOn, Contracting, SaleCommitted
<1>3. Inv /\ Quotes /\ NotAhead => WayOut
  BY <1>1, <1>2 DEF WayOut
<1>4. Init => Inv /\ Quotes /\ NotAhead
  BY InitInv, InitQuotes, InitNotAhead
<1>5. (Inv /\ Quotes /\ NotAhead) /\ [Next]_vars => (Inv /\ Quotes /\ NotAhead)'
  BY NextInv, NextQuotes, NextNotAhead
<1> QED
  BY <1>3, <1>4, <1>5, PTL DEF Spec
=============================================================================
