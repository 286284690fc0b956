-------------------------- MODULE SaleClosingProofs --------------------------
(***************************************************************************)
(* What SaleClosing guarantees for any number of successive contracts, any *)
(* price, any policy and any set of milestones.                            *)
(***************************************************************************)
EXTENDS SaleClosing, TLAPS

Live(s) == sale[s].status \in {"signature_pending", "active", "termination_pending"}

\* One contract's row, read by itself: status against case, clearances against
\* cash, handover against both.
Consistent(row) ==
    /\ (row.case.status \in CancellationOpen) = (row.status = "termination_pending")
    /\ row.status = "active" => row.activated
    /\ row.status \in {"none", "signature_pending"} => ~row.activated
    /\ row.handover = "handed_over" =>
          /\ row.status \in {"active", "termination_pending"}
          /\ row.activated
          /\ HandoverNeeds \ {"collection"} \subseteq row.cleared
    /\ "collection" \in row.cleared => row.cash = MaxCash
    /\ row.case.status \in CancellationOpen /\ row.case.approved
          => row.case.basis = row.cash

\* The contracts against the unit.
Holding ==
    /\ \A s \in Sales : Live(s) =>
          unit.commercial_status =
             IF sale[s].activated THEN "contracted" ELSE "contract_pending"
    /\ \A s, t \in Sales : Live(s) /\ Live(t) => s = t
    /\ unit.delivered => \E s \in Sales : sale[s].handover = "handed_over"

UnitRow ==
    [commercial_status : {"available", "contract_pending", "contracted", "returned"},
     legal_status : {"no_spa"} \cup {LegalStatusOf[e] : e \in LegalEvents},
     delivered : BOOLEAN]

Inv ==
    /\ sale \in [Sales -> SaleRow]
    /\ unit \in UnitRow
    /\ preparing \subseteq Sales
    /\ \A s \in Sales : Consistent(sale[s])
    /\ Holding

-----------------------------------------------------------------------------
(* The derived legal status *)

\* The furthest of some milestones exists.
LEMMA FurthestExists ==
    ASSUME NEW S, S \subseteq 1..14, S # {}
    PROVE  \E m \in S : \A n \in S : n <= m
<1> SUFFICES ASSUME \A m \in S : \E n \in S : n > m PROVE FALSE
  OBVIOUS
<1>14. 14 \notin S
  OBVIOUS
<1>13. 13 \notin S
  BY <1>14
<1>12. 12 \notin S
  BY <1>14, <1>13
<1>11. 11 \notin S
  BY <1>14, <1>13, <1>12
<1>10. 10 \notin S
  BY <1>14, <1>13, <1>12, <1>11
<1>9. \A k \in S : k < 10
  BY <1>14, <1>13, <1>12, <1>11, <1>10
<1>8. 9 \notin S
  BY <1>9
<1>7. 8 \notin S
  BY <1>9, <1>8
<1>6. 7 \notin S
  BY <1>9, <1>8, <1>7
<1>5. 6 \notin S
  BY <1>9, <1>8, <1>7, <1>6
<1>4. \A k \in S : k < 6
  BY <1>9, <1>8, <1>7, <1>6, <1>5
<1>3. 5 \notin S /\ 4 \notin S
  <2>1. 5 \notin S
    BY <1>4
  <2> QED
    BY <1>4, <2>1
<1>2. 3 \notin S /\ 2 \notin S
  <2>1. 3 \notin S
    BY <1>4, <1>3
  <2> QED
    BY <1>4, <1>3, <2>1
<1>1. 1 \notin S
  BY <1>4, <1>3, <1>2
<1>0. PICK k \in S : TRUE
  OBVIOUS
<1> QED
  BY <1>4, <1>3, <1>2, <1>1, <1>0

LEMMA PositionType == \A e \in LegalEvents : Position(e) \in 1..14
<1>1. Len(LEGAL_EVENT_TYPES) = 14
  BY DEF LEGAL_EVENT_TYPES
<1> QED
  BY <1>1 DEF LegalEvents, Position

\* Whatever the timeline, the status derived from it is one a unit may have.
LEMMA DerivedStatusType ==
    ASSUME NEW events \in SUBSET LegalEvents
    PROVE  derived_legal_status(events) \in {"no_spa"} \cup {LegalStatusOf[e] : e \in LegalEvents}
<1>1. CASE events = {}
  BY <1>1 DEF derived_legal_status
<1>2. CASE events # {}
  <2> DEFINE S == {Position(e) : e \in events}
  <2>1. S \subseteq 1..14 /\ S # {}
    BY <1>2, PositionType
  <2>2. PICK m \in S : \A n \in S : n <= m
    BY <2>1, FurthestExists
  <2>3. \E e \in events : \A f \in events : Position(f) <= Position(e)
    BY <2>2
  <2>4. (CHOOSE e \in events : \A f \in events : Position(f) <= Position(e)) \in LegalEvents
    BY <2>3
  <2> QED
    BY <1>2, <2>4 DEF derived_legal_status
<1> QED
  BY <1>1, <1>2

-----------------------------------------------------------------------------
(* The inductive invariant *)

LEMMA Initially == Init => Inv
BY SaleClosingAssumption
   DEF Init, Inv, NoCase, CaseRow, SaleRow, UnitRow, CancellationOpen, HandoverStatuses,
       Consistent, Holding, Live

\* What a step of one contract has to show: the new row, read by itself, and
\* that it still agrees with the unit.
LEMMA OneRow ==
    ASSUME Inv, NEW s \in Sales, NEW row \in SaleRow, Consistent(row),
           sale' = [sale EXCEPT ![s] = row]
    PROVE  /\ sale' \in [Sales -> SaleRow]
           /\ \A t \in Sales : Consistent(sale'[t])
           /\ sale'[s] = row
           /\ \A t \in Sales : t # s => sale'[t] = sale[t]
BY DEF Inv

\* A step that changes neither which contract holds the unit, nor the unit but
\* for its legal status, nor to whom keys were given.
LEMMA QuietStep ==
    ASSUME Inv, NEW s \in Sales, NEW row \in SaleRow, Consistent(row),
           sale' = [sale EXCEPT ![s] = row],
           row.status \in {"signature_pending", "active", "termination_pending"} <=> Live(s),
           row.activated = sale[s].activated,
           row.handover = "handed_over" <=> sale[s].handover = "handed_over",
           unit' \in UnitRow,
           unit'.commercial_status = unit.commercial_status,
           unit'.delivered = unit.delivered,
           preparing' \subseteq Sales
    PROVE  Inv'
<1>1. /\ sale' \in [Sales -> SaleRow]
      /\ \A t \in Sales : Consistent(sale'[t])
      /\ sale'[s] = row
      /\ \A t \in Sales : t # s => sale'[t] = sale[t]
  BY OneRow
<1>2. /\ \A t \in Sales : Live(t)' <=> Live(t)
      /\ \A t \in Sales : sale'[t].activated = sale[t].activated
      /\ \A t \in Sales : sale'[t].handover = "handed_over" <=> sale[t].handover = "handed_over"
  BY <1>1 DEF Live
<1>3. Holding'
  BY <1>2 DEF Inv, Holding
<1> QED
  BY <1>1, <1>3 DEF Inv, Consistent

LEMMA SubmitInv == ASSUME Inv, NEW s \in Sales, submit_sale(s) PROVE Inv'
<1> DEFINE row == [sale[s] EXCEPT !.status = "signature_pending"]
<1>1. sale[s] \in SaleRow /\ Consistent(sale[s]) /\ unit \in UnitRow
  BY DEF Inv
<1>2. row \in SaleRow /\ Consistent(row)
  BY <1>1 DEF submit_sale, SaleRow, Consistent, CancellationOpen
<1>3. sale' = [sale EXCEPT ![s] = row]
  BY DEF submit_sale
<1>4. /\ sale' \in [Sales -> SaleRow]
      /\ \A t \in Sales : Consistent(sale'[t])
      /\ sale'[s] = row
      /\ \A t \in Sales : t # s => sale'[t] = sale[t]
  BY <1>2, <1>3, OneRow
<1>5. unit' \in UnitRow /\ unit'.commercial_status = "contract_pending"
      /\ unit'.delivered = unit.delivered
  BY <1>1 DEF submit_sale, UnitRow
\* Nobody held the unit: it was available.
<1>6. \A t \in Sales : ~Live(t)
  BY DEF Inv, Holding, submit_sale
<1>7. row.status = "signature_pending" /\ ~row.activated /\ row.handover = sale[s].handover
  BY <1>1 DEF SaleRow, Consistent, submit_sale
<1>8. \A t \in Sales : Live(t)' => t = s
  BY <1>4, <1>6 DEF Live
<1>9. unit'.delivered => \E t \in Sales : sale'[t].handover = "handed_over"
  BY <1>4, <1>5, <1>7 DEF Inv, Holding
<1>10. Holding'
  BY <1>4, <1>5, <1>7, <1>8, <1>9 DEF Holding
<1> QED
  BY <1>4, <1>5, <1>10 DEF Inv, Consistent, submit_sale

LEMMA ActivateInv == ASSUME Inv, NEW s \in Sales, activate_sale(s) PROVE Inv'
<1> DEFINE row == [sale[s] EXCEPT !.status = "active", !.activated = TRUE]
<1>1. sale[s] \in SaleRow /\ Consistent(sale[s]) /\ unit \in UnitRow
  BY DEF Inv
<1>2. row \in SaleRow
  BY <1>1 DEF SaleRow
<1>3. Consistent(row)
  BY <1>1 DEF activate_sale, SaleRow, Consistent, CancellationOpen
<1>4. sale' = [sale EXCEPT ![s] = row]
  BY <1>1 DEF activate_sale, SaleRow
<1>5. /\ sale' \in [Sales -> SaleRow]
      /\ \A t \in Sales : Consistent(sale'[t])
      /\ sale'[s] = row
      /\ \A t \in Sales : t # s => sale'[t] = sale[t]
  BY <1>2, <1>3, <1>4, OneRow
<1>6. unit' \in UnitRow /\ unit'.commercial_status = "contracted"
      /\ unit'.delivered = unit.delivered
  BY <1>1 DEF activate_sale, UnitRow
<1>7. row.status = "active" /\ row.activated /\ row.handover = sale[s].handover
  BY <1>1 DEF SaleRow
<1>8. Live(s) /\ \A t \in Sales : Live(t) => t = s
  BY DEF Inv, Holding, activate_sale, Live
<1>9. \A t \in Sales : Live(t)' => t = s
  BY <1>5, <1>8 DEF Live
<1>10. unit'.delivered => \E t \in Sales : sale'[t].handover = "handed_over"
  BY <1>5, <1>6, <1>7 DEF Inv, Holding
<1>11. Holding'
  BY <1>5, <1>6, <1>7, <1>9, <1>10 DEF Holding
<1> QED
  BY <1>5, <1>6, <1>11 DEF Inv, Consistent, activate_sale

LEMMA RemarketInv == ASSUME Inv, return_unit_to_market PROVE Inv'
<1>1. unit \in UnitRow /\ unit.commercial_status = "returned"
  BY DEF Inv, return_unit_to_market
<1>2. unit' \in UnitRow /\ unit'.delivered = unit.delivered
  BY <1>1 DEF return_unit_to_market, UnitRow
<1>3. \A t \in Sales : ~Live(t)
  BY <1>1 DEF Inv, Holding
<1>4. Holding'
  BY <1>2, <1>3 DEF Inv, Holding, Live, return_unit_to_market
<1> QED
  BY <1>2, <1>4 DEF Inv, Consistent, return_unit_to_market

LEMMA GrantInv ==
    ASSUME Inv, NEW s \in Sales, NEW type, grant_clearance(s, type)
    PROVE  Inv'
<1> DEFINE row == [sale[s] EXCEPT !.cleared = @ \cup {type}]
<1>1. sale[s] \in SaleRow /\ Consistent(sale[s]) /\ unit \in UnitRow
  BY DEF Inv
<1>2. row \in SaleRow
  BY <1>1 DEF grant_clearance, SaleRow, ClearanceTypes
<1>3. Consistent(row)
  BY <1>1 DEF grant_clearance, SaleRow, Consistent, UnderHandover
<1>4. sale' = [sale EXCEPT ![s] = row]
  BY <1>1 DEF grant_clearance, SaleRow
<1>5. /\ row.status \in {"signature_pending", "active", "termination_pending"} <=> Live(s)
      /\ row.activated = sale[s].activated
      /\ row.handover = "handed_over" <=> sale[s].handover = "handed_over"
  BY <1>1 DEF grant_clearance, SaleRow, Live, UnderHandover
<1>6. /\ unit' \in UnitRow
      /\ unit'.commercial_status = unit.commercial_status
      /\ unit'.delivered = unit.delivered
      /\ preparing' \subseteq Sales
  BY <1>1 DEF grant_clearance, UnitRow, Inv
<1> HIDE DEF row
<1> QED
  BY <1>2, <1>3, <1>4, <1>5, <1>6, QuietStep

LEMMA RevokeInv ==
    ASSUME Inv, NEW s \in Sales, NEW type, revoke_clearance(s, type)
    PROVE  Inv'
<1> DEFINE row == [sale[s] EXCEPT !.cleared = @ \ {type}]
<1>1. sale[s] \in SaleRow /\ Consistent(sale[s]) /\ unit \in UnitRow
  BY DEF Inv
<1>2. row \in SaleRow
  BY <1>1 DEF revoke_clearance, SaleRow
<1>3. Consistent(row)
  BY <1>1 DEF revoke_clearance, SaleRow, Consistent, UnderHandover
<1>4. sale' = [sale EXCEPT ![s] = row]
  BY <1>1 DEF revoke_clearance, SaleRow
<1>5. /\ row.status \in {"signature_pending", "active", "termination_pending"} <=> Live(s)
      /\ row.activated = sale[s].activated
      /\ row.handover = "handed_over" <=> sale[s].handover = "handed_over"
  BY <1>1 DEF revoke_clearance, SaleRow, Live, UnderHandover
<1>6. /\ unit' \in UnitRow
      /\ unit'.commercial_status = unit.commercial_status
      /\ unit'.delivered = unit.delivered
      /\ preparing' \subseteq Sales
  BY <1>1 DEF revoke_clearance, UnitRow, Inv
<1> HIDE DEF row
<1> QED
  BY <1>2, <1>3, <1>4, <1>5, <1>6, QuietStep

LEMMA GrantCollectionInv ==
    ASSUME Inv, NEW s \in Sales, grant_collection_clearance(s)
    PROVE  Inv'
<1> DEFINE row == [sale[s] EXCEPT !.cleared = @ \cup {"collection"}]
<1>1. sale[s] \in SaleRow /\ Consistent(sale[s]) /\ unit \in UnitRow
  BY DEF Inv
<1>2. row \in SaleRow
  BY <1>1 DEF grant_collection_clearance, SaleRow, ClearanceTypes
<1>3. Consistent(row)
  BY <1>1 DEF grant_collection_clearance, SaleRow, Consistent, UnderHandover, AccountClear
<1>4. sale' = [sale EXCEPT ![s] = row]
  BY <1>1 DEF grant_collection_clearance, SaleRow
<1>5. /\ row.status \in {"signature_pending", "active", "termination_pending"} <=> Live(s)
      /\ row.activated = sale[s].activated
      /\ row.handover = "handed_over" <=> sale[s].handover = "handed_over"
  BY <1>1 DEF grant_collection_clearance, SaleRow, Live, UnderHandover, AccountClear
<1>6. /\ unit' \in UnitRow
      /\ unit'.commercial_status = unit.commercial_status
      /\ unit'.delivered = unit.delivered
      /\ preparing' \subseteq Sales
  BY <1>1 DEF grant_collection_clearance, UnitRow, Inv
<1> HIDE DEF row
<1> QED
  BY <1>2, <1>3, <1>4, <1>5, <1>6, QuietStep

LEMMA UpdateHandoverInv ==
    ASSUME Inv, NEW s \in Sales, NEW to, update_handover(s, to)
    PROVE  Inv'
<1> DEFINE row == [sale[s] EXCEPT !.handover = to]
<1>1. sale[s] \in SaleRow /\ Consistent(sale[s]) /\ unit \in UnitRow
  BY DEF Inv
<1>2. row \in SaleRow
  BY <1>1 DEF update_handover, SaleRow, HandoverStatuses
<1>3. Consistent(row)
  BY <1>1 DEF update_handover, SaleRow, Consistent, UnderHandover
<1>4. sale' = [sale EXCEPT ![s] = row]
  BY <1>1 DEF update_handover, SaleRow
<1>5. /\ row.status \in {"signature_pending", "active", "termination_pending"} <=> Live(s)
      /\ row.activated = sale[s].activated
      /\ row.handover = "handed_over" <=> sale[s].handover = "handed_over"
  BY <1>1 DEF update_handover, SaleRow, Live, UnderHandover
<1>6. /\ unit' \in UnitRow
      /\ unit'.commercial_status = unit.commercial_status
      /\ unit'.delivered = unit.delivered
      /\ preparing' \subseteq Sales
  BY <1>1 DEF update_handover, UnitRow, Inv
<1> HIDE DEF row
<1> QED
  BY <1>2, <1>3, <1>4, <1>5, <1>6, QuietStep

LEMMA CreateHandoverInv ==
    ASSUME Inv, NEW s \in Sales, create_handover(s)
    PROVE  Inv'
<1> DEFINE row == [sale[s] EXCEPT !.handover = IF @ = "none" THEN "preparation" ELSE @]
<1>1. sale[s] \in SaleRow /\ Consistent(sale[s]) /\ unit \in UnitRow
  BY DEF Inv
<1>2. row \in SaleRow
  BY <1>1 DEF create_handover, SaleRow, HandoverStatuses
<1>3. Consistent(row)
  BY <1>1 DEF create_handover, SaleRow, Consistent
<1>4. sale' = [sale EXCEPT ![s] = row]
  BY <1>1 DEF create_handover, SaleRow
<1>5. /\ row.status \in {"signature_pending", "active", "termination_pending"} <=> Live(s)
      /\ row.activated = sale[s].activated
      /\ row.handover = "handed_over" <=> sale[s].handover = "handed_over"
  BY <1>1 DEF create_handover, SaleRow, Live
<1>6. /\ unit' \in UnitRow
      /\ unit'.commercial_status = unit.commercial_status
      /\ unit'.delivered = unit.delivered
      /\ preparing' \subseteq Sales
  BY <1>1 DEF create_handover, UnitRow, Inv
<1> HIDE DEF row
<1> QED
  BY <1>2, <1>3, <1>4, <1>5, <1>6, QuietStep

LEMMA ReadInv == ASSUME Inv, NEW s \in Sales, read_for_handover(s) PROVE Inv'
BY DEF Inv, Holding, Live, Consistent, read_for_handover

LEMMA WithdrawalProgressType ==
    ASSUME NEW s \in Sales, NEW e, sale[s] \in SaleRow
    PROVE  /\ WithdrawalProgress(s, e) \in CaseRow
           /\ WithdrawalProgress(s, e).status = sale[s].case.status
           /\ WithdrawalProgress(s, e).approved = sale[s].case.approved
           /\ WithdrawalProgress(s, e).basis = sale[s].case.basis
<1>1. sale[s].case \in CaseRow
  BY DEF SaleRow
<1> QED
  BY <1>1 DEF WithdrawalProgress, CaseRow

LEMMA RecordEventInv ==
    ASSUME Inv, NEW s \in Sales, NEW e \in LegalEvents, record_legal_event(s, e)
    PROVE  Inv'
<1> DEFINE events == sale[s].events \cup {e}
           case == WithdrawalProgress(s, e)
           row == [sale[s] EXCEPT !.events = events, !.case = case]
<1>1. sale[s] \in SaleRow /\ Consistent(sale[s]) /\ unit \in UnitRow
  BY DEF Inv
<1>e. events \in SUBSET LegalEvents
  BY <1>1 DEF SaleRow
<1>c. /\ case \in CaseRow
      /\ case.status = sale[s].case.status
      /\ case.approved = sale[s].case.approved
      /\ case.basis = sale[s].case.basis
  BY <1>1, WithdrawalProgressType
<1>d. derived_legal_status(events) \in {"no_spa"} \cup {LegalStatusOf[f] : f \in LegalEvents}
  BY <1>e, DerivedStatusType
<1>a. /\ sale' = [sale EXCEPT ![s].events = events, ![s].case = case]
      /\ unit' = [unit EXCEPT !.legal_status = derived_legal_status(events)]
      /\ UNCHANGED preparing
  BY DEF record_legal_event
<1> HIDE DEF events, case
<1>2. row \in SaleRow
  BY <1>1, <1>e, <1>c, <1>a DEF SaleRow
<1>3. Consistent(row)
  BY <1>1, <1>e, <1>c, <1>a DEF SaleRow, Consistent
<1>4. sale' = [sale EXCEPT ![s] = row]
  BY <1>1, <1>e, <1>c, <1>a DEF SaleRow
<1>5. /\ row.status \in {"signature_pending", "active", "termination_pending"} <=> Live(s)
      /\ row.activated = sale[s].activated
      /\ row.handover = "handed_over" <=> sale[s].handover = "handed_over"
  BY <1>1, <1>e, <1>c, <1>a DEF SaleRow, Live
<1>6. /\ unit' \in UnitRow
      /\ unit'.commercial_status = unit.commercial_status
      /\ unit'.delivered = unit.delivered
      /\ preparing' \subseteq Sales
  BY <1>1, <1>a, <1>d DEF UnitRow, Inv
<1> HIDE DEF row
<1> QED
  BY <1>2, <1>3, <1>4, <1>5, <1>6, QuietStep

LEMMA ReverseEventInv ==
    ASSUME Inv, NEW s \in Sales, NEW e \in LegalEvents, reverse_legal_event(s, e)
    PROVE  Inv'
<1> DEFINE events == sale[s].events \ {e}
           row == [sale[s] EXCEPT !.events = events]
<1>1. sale[s] \in SaleRow /\ Consistent(sale[s]) /\ unit \in UnitRow
  BY DEF Inv
<1>e. events \in SUBSET LegalEvents
  BY <1>1 DEF SaleRow
<1>d. derived_legal_status(events) \in {"no_spa"} \cup {LegalStatusOf[f] : f \in LegalEvents}
  BY <1>e, DerivedStatusType
<1>a. /\ sale' = [sale EXCEPT ![s].events = events]
      /\ unit' = [unit EXCEPT !.legal_status = derived_legal_status(events)]
      /\ UNCHANGED preparing
  BY DEF reverse_legal_event
<1> HIDE DEF events
<1>2. row \in SaleRow
  BY <1>1, <1>e, <1>a DEF SaleRow
<1>3. Consistent(row)
  BY <1>1, <1>e, <1>a DEF SaleRow, Consistent
<1>4. sale' = [sale EXCEPT ![s] = row]
  BY <1>1, <1>e, <1>a DEF SaleRow
<1>5. /\ row.status \in {"signature_pending", "active", "termination_pending"} <=> Live(s)
      /\ row.activated = sale[s].activated
      /\ row.handover = "handed_over" <=> sale[s].handover = "handed_over"
  BY <1>1, <1>e, <1>a DEF SaleRow, Live
<1>6. /\ unit' \in UnitRow
      /\ unit'.commercial_status = unit.commercial_status
      /\ unit'.delivered = unit.delivered
      /\ preparing' \subseteq Sales
  BY <1>1, <1>a, <1>d DEF UnitRow, Inv
<1> HIDE DEF row
<1> QED
  BY <1>2, <1>3, <1>4, <1>5, <1>6, QuietStep

LEMMA ConfirmReceiptInv ==
    ASSUME Inv, NEW s \in Sales, confirm_receipt(s)
    PROVE  Inv'
<1> DEFINE row == Recalculated([sale[s] EXCEPT !.cash = @ + 1])
<1>1. sale[s] \in SaleRow /\ Consistent(sale[s]) /\ unit \in UnitRow
  BY DEF Inv
<1>b. sale[s].cash + 1 \in 0..MaxCash
  BY <1>1, SaleClosingAssumption DEF confirm_receipt, SaleRow
<1>2. row \in SaleRow
  BY <1>1, <1>b DEF confirm_receipt, SaleRow, Recalculated
<1>3. Consistent(row)
  BY <1>1, <1>b DEF confirm_receipt, SaleRow, Consistent, Recalculated, AccountClear, CashMayChange, OpenCase
<1>4. sale' = [sale EXCEPT ![s] = row]
  BY DEF confirm_receipt
<1>5. /\ row.status \in {"signature_pending", "active", "termination_pending"} <=> Live(s)
      /\ row.activated = sale[s].activated
      /\ row.handover = "handed_over" <=> sale[s].handover = "handed_over"
  BY <1>1, <1>b DEF confirm_receipt, SaleRow, Live, Recalculated, AccountClear, CashMayChange, OpenCase
<1>6. /\ unit' \in UnitRow
      /\ unit'.commercial_status = unit.commercial_status
      /\ unit'.delivered = unit.delivered
      /\ preparing' \subseteq Sales
  BY <1>1 DEF confirm_receipt, UnitRow, Inv
<1> HIDE DEF row
<1> QED
  BY <1>2, <1>3, <1>4, <1>5, <1>6, QuietStep

LEMMA ReverseReceiptInv ==
    ASSUME Inv, NEW s \in Sales, reverse_receipt(s)
    PROVE  Inv'
<1> DEFINE row == Recalculated([sale[s] EXCEPT !.cash = @ - 1])
<1>1. sale[s] \in SaleRow /\ Consistent(sale[s]) /\ unit \in UnitRow
  BY DEF Inv
<1>b. sale[s].cash - 1 \in 0..MaxCash
  BY <1>1, SaleClosingAssumption DEF reverse_receipt, SaleRow
<1>2. row \in SaleRow
  BY <1>1, <1>b DEF reverse_receipt, SaleRow, Recalculated
<1>3. Consistent(row)
  BY <1>1, <1>b DEF reverse_receipt, SaleRow, Consistent, Recalculated, AccountClear, CashMayChange, OpenCase
<1>4. sale' = [sale EXCEPT ![s] = row]
  BY DEF reverse_receipt
<1>5. /\ row.status \in {"signature_pending", "active", "termination_pending"} <=> Live(s)
      /\ row.activated = sale[s].activated
      /\ row.handover = "handed_over" <=> sale[s].handover = "handed_over"
  BY <1>1, <1>b DEF reverse_receipt, SaleRow, Live, Recalculated, AccountClear, CashMayChange, OpenCase
<1>6. /\ unit' \in UnitRow
      /\ unit'.commercial_status = unit.commercial_status
      /\ unit'.delivered = unit.delivered
      /\ preparing' \subseteq Sales
  BY <1>1 DEF reverse_receipt, UnitRow, Inv
<1> HIDE DEF row
<1> QED
  BY <1>2, <1>3, <1>4, <1>5, <1>6, QuietStep

LEMMA StartInv ==
    ASSUME Inv, NEW s \in Sales, start_cancellation(s)
    PROVE  Inv'
<1> DEFINE case == [NoCase EXCEPT
              !.status = "notice",
              !.legal_withdrawal_required = Engaged(s),
              !.legal_withdrawal_status = IF Engaged(s) THEN "pending" ELSE "not_required",
              !.financial_approval_required = sale[s].cash > 0,
              !.basis = sale[s].cash]
           row == [sale[s] EXCEPT !.status = "termination_pending", !.case = case]
<1>1. sale[s] \in SaleRow /\ Consistent(sale[s]) /\ unit \in UnitRow
  BY DEF Inv
<1>n. NoCase \in CaseRow
  BY SaleClosingAssumption DEF NoCase, CaseRow
<1>w. (IF Engaged(s) THEN "pending" ELSE "not_required") \in {"not_required", "pending", "completed"}
  OBVIOUS
<1>b. Engaged(s) \in BOOLEAN /\ (sale[s].cash > 0) \in BOOLEAN /\ sale[s].cash \in 0..MaxCash
  BY <1>1 DEF Engaged, SaleRow
<1>c. case \in CaseRow /\ case.status = "notice" /\ ~case.approved
  <2> DEFINE c1 == [NoCase EXCEPT !.status = "notice"]
             c2 == [c1 EXCEPT !.legal_withdrawal_required = Engaged(s)]
             w == IF Engaged(s) THEN "pending" ELSE "not_required"
             c3 == [c2 EXCEPT !.legal_withdrawal_status = w]
             c4 == [c3 EXCEPT !.financial_approval_required = sale[s].cash > 0]
             c5 == [c4 EXCEPT !.basis = sale[s].cash]
  <2>1. c1 \in CaseRow /\ c1.status = "notice" /\ ~c1.approved
    BY <1>n DEF CaseRow, CancellationOpen, NoCase
  <2>2. c2 \in CaseRow /\ c2.status = "notice" /\ ~c2.approved
    BY <2>1, <1>b DEF CaseRow
  <2>3. c3 \in CaseRow /\ c3.status = "notice" /\ ~c3.approved
    BY <2>2, <1>w DEF CaseRow
  <2>4. c4 \in CaseRow /\ c4.status = "notice" /\ ~c4.approved
    BY ZenonT(40), <2>3, <1>b DEF CaseRow
  <2>5. c5 \in CaseRow /\ c5.status = "notice" /\ ~c5.approved
    BY <2>4, <1>b DEF CaseRow
  <2>6. case = c5
    BY DEF NoCase
  <2> HIDE DEF c5
  <2> QED
    BY <2>5, <2>6
<1>a. /\ sale' = [sale EXCEPT ![s].status = "termination_pending", ![s].case = case]
      /\ sale[s].status \in {"signature_pending", "active"}
      /\ UNCHANGED <<unit, preparing>>
  BY DEF start_cancellation
<1> HIDE DEF case
<1>2. row \in SaleRow
  BY <1>1, <1>c, <1>a DEF SaleRow
<1>3. Consistent(row)
  BY <1>1, <1>c, <1>a DEF SaleRow, Consistent, CancellationOpen
<1>4. sale' = [sale EXCEPT ![s] = row]
  BY <1>1, <1>c, <1>a DEF SaleRow
<1>5. /\ row.status \in {"signature_pending", "active", "termination_pending"} <=> Live(s)
      /\ row.activated = sale[s].activated
      /\ row.handover = "handed_over" <=> sale[s].handover = "handed_over"
  BY <1>1, <1>c, <1>a DEF SaleRow, Live, CancellationOpen
<1>6. /\ unit' \in UnitRow
      /\ unit'.commercial_status = unit.commercial_status
      /\ unit'.delivered = unit.delivered
      /\ preparing' \subseteq Sales
  BY <1>1, <1>a DEF UnitRow, Inv
<1> HIDE DEF row
<1> QED
  BY <1>2, <1>3, <1>4, <1>5, <1>6, QuietStep

LEMMA ApproveInv ==
    ASSUME Inv, NEW s \in Sales, approve_cancellation_terms(s)
    PROVE  Inv'
<1> DEFINE case == [sale[s].case EXCEPT !.approved = TRUE,
                                         !.financial_approval_required = TRUE,
                                         !.basis = sale[s].cash]
           row == [sale[s] EXCEPT !.case = case]
<1>1. sale[s] \in SaleRow /\ Consistent(sale[s]) /\ unit \in UnitRow
  BY DEF Inv
<1>c. /\ case \in CaseRow
      /\ case.status = sale[s].case.status
      /\ case.basis = sale[s].cash
  BY <1>1 DEF SaleRow, CaseRow
<1>a. /\ sale' = [sale EXCEPT ![s].case = case]
      /\ UNCHANGED <<unit, preparing>>
  BY ZenonT(40), <1>1 DEF approve_cancellation_terms, SaleRow, CaseRow
<1> HIDE DEF case
<1>2. row \in SaleRow
  BY <1>1, <1>c, <1>a DEF SaleRow
<1>3. Consistent(row)
  BY <1>1, <1>c, <1>a DEF SaleRow, Consistent
<1>4. sale' = [sale EXCEPT ![s] = row]
  BY <1>1, <1>c, <1>a DEF SaleRow
<1>5. /\ row.status \in {"signature_pending", "active", "termination_pending"} <=> Live(s)
      /\ row.activated = sale[s].activated
      /\ row.handover = "handed_over" <=> sale[s].handover = "handed_over"
  BY <1>1, <1>c, <1>a DEF SaleRow, Live
<1>6. /\ unit' \in UnitRow
      /\ unit'.commercial_status = unit.commercial_status
      /\ unit'.delivered = unit.delivered
      /\ preparing' \subseteq Sales
  BY <1>1, <1>a DEF UnitRow, Inv
<1> HIDE DEF row
<1> QED
  BY <1>2, <1>3, <1>4, <1>5, <1>6, QuietStep

LEMMA AdvanceInv ==
    ASSUME Inv, NEW s \in Sales, NEW to \in CancellationOpen \cup {"withdrawn"},
           advance_cancellation(s, to)
    PROVE  Inv'
<1> DEFINE case == [sale[s].case EXCEPT !.status = to]
           status == IF to # "withdrawn" THEN sale[s].status
                     ELSE IF sale[s].activated THEN "active" ELSE "signature_pending"
           row == [sale[s] EXCEPT !.case = case, !.status = status]
<1>1. sale[s] \in SaleRow /\ Consistent(sale[s]) /\ unit \in UnitRow
  BY DEF Inv
<1>c. /\ case \in CaseRow
      /\ case.status = to
      /\ case.approved = sale[s].case.approved
      /\ case.basis = sale[s].case.basis
  BY <1>1 DEF SaleRow, CaseRow
<1>a. /\ OpenCase(s)
      /\ sale' = [sale EXCEPT ![s].case.status = to, ![s].status = status]
      /\ UNCHANGED <<unit, preparing>>
  BY <1>1 DEF advance_cancellation, SaleRow, CaseRow
<1>s. sale[s].status = "termination_pending"
  BY <1>1, <1>a DEF OpenCase, Consistent
<1>4. sale' = [sale EXCEPT ![s] = row]
  BY <1>1, <1>a DEF SaleRow, CaseRow
<1>u. /\ status = "termination_pending" /\ to \in CancellationOpen
      \/ /\ status = IF sale[s].activated THEN "active" ELSE "signature_pending"
         /\ to \notin CancellationOpen
  BY <1>s DEF CancellationOpen
<1> HIDE DEF case, status
<1>2. row \in SaleRow
  BY <1>1, <1>c, <1>u DEF SaleRow
<1>3. Consistent(row)
  BY <1>1, <1>c, <1>u, <1>s, <1>a DEF SaleRow, Consistent, OpenCase
<1>5. /\ row.status \in {"signature_pending", "active", "termination_pending"} <=> Live(s)
      /\ row.activated = sale[s].activated
      /\ row.handover = "handed_over" <=> sale[s].handover = "handed_over"
  BY <1>1, <1>u, <1>s DEF SaleRow, Live
<1>6. /\ unit' \in UnitRow
      /\ unit'.commercial_status = unit.commercial_status
      /\ unit'.delivered = unit.delivered
      /\ preparing' \subseteq Sales
  BY <1>1, <1>a DEF Inv
<1> HIDE DEF row
<1> QED
  BY <1>2, <1>3, <1>4, <1>5, <1>6, QuietStep

LEMMA CompleteCancellationInv == ASSUME Inv, NEW s \in Sales, complete_cancellation(s) PROVE Inv'
<1> DEFINE case == [sale[s].case EXCEPT !.status = "completed"]
           handover == IF sale[s].handover = "none" THEN "none" ELSE "cancelled"
           row == [sale[s] EXCEPT !.status = "cancelled", !.case = case, !.handover = handover]
<1>1. sale[s] \in SaleRow /\ Consistent(sale[s]) /\ unit \in UnitRow
  BY DEF Inv
<1>c. case \in CaseRow /\ case.status = "completed"
  BY <1>1 DEF SaleRow, CaseRow
<1>a. /\ sale[s].case.status = "ready_for_unit_return"
      /\ sale[s].handover # "handed_over"
      /\ sale' = [sale EXCEPT ![s] = row]
      /\ unit' = [unit EXCEPT !.commercial_status = "returned"]
      /\ UNCHANGED preparing
  BY <1>1 DEF complete_cancellation, Complete, SaleRow, CaseRow
<1>s. sale[s].status = "termination_pending"
  BY <1>1, <1>a DEF CancellationOpen, Consistent
<1>h. handover \in HandoverStatuses /\ handover # "handed_over"
  BY DEF HandoverStatuses
<1> HIDE DEF case, handover
<1>2. row \in SaleRow
  BY <1>1, <1>c, <1>h DEF SaleRow
<1>3. Consistent(row)
  BY <1>1, <1>c, <1>h DEF SaleRow, Consistent, CancellationOpen
<1>4. row.status = "cancelled" /\ row.handover # "handed_over"
  BY <1>1, <1>h DEF SaleRow
<1> HIDE DEF row
<1>5. /\ sale' \in [Sales -> SaleRow]
      /\ \A t \in Sales : Consistent(sale'[t])
      /\ sale'[s] = row
      /\ \A t \in Sales : t # s => sale'[t] = sale[t]
  BY <1>2, <1>3, <1>a, OneRow
<1>6. unit' \in UnitRow /\ unit'.delivered = unit.delivered
  BY <1>1, <1>a DEF UnitRow
<1>7. \A t \in Sales : Live(t) => t = s
  BY <1>s DEF Inv, Holding, Live
<1>8. \A t \in Sales : ~Live(t)'
  BY <1>4, <1>5, <1>7 DEF Live
<1>9. unit'.delivered => \E t \in Sales : sale'[t].handover = "handed_over"
  BY <1>5, <1>6, <1>a DEF Inv, Holding
<1>10. Holding'
  BY <1>8, <1>9 DEF Holding
<1> QED
  BY <1>5, <1>6, <1>a, <1>10 DEF Inv, Consistent

LEMMA CompleteHandoverInv == ASSUME Inv, NEW s \in Sales, complete_handover(s) PROVE Inv'
<1> DEFINE row == [sale[s] EXCEPT !.handover = "handed_over"]
<1>1. sale[s] \in SaleRow /\ Consistent(sale[s]) /\ unit \in UnitRow
  BY DEF Inv
<1>2. row \in SaleRow
  BY <1>1 DEF SaleRow, HandoverStatuses
<1>3. Consistent(row)
  BY <1>1 DEF complete_handover, HandoverReady, SaleRow, Consistent
<1>4. sale' = [sale EXCEPT ![s] = row]
  BY DEF complete_handover
<1>5. /\ sale' \in [Sales -> SaleRow]
      /\ \A t \in Sales : Consistent(sale'[t])
      /\ sale'[s] = row
      /\ \A t \in Sales : t # s => sale'[t] = sale[t]
  BY <1>2, <1>3, <1>4, OneRow
<1>6. /\ unit' \in UnitRow
      /\ unit'.commercial_status = unit.commercial_status
      /\ preparing' = preparing
  BY <1>1 DEF complete_handover, UnitRow
<1>7. /\ row.handover = "handed_over" /\ row.status = sale[s].status
      /\ row.activated = sale[s].activated
  BY <1>1 DEF SaleRow
<1>8. /\ \A t \in Sales : Live(t)' <=> Live(t)
      /\ \A t \in Sales : sale'[t].activated = sale[t].activated
  BY <1>5, <1>7 DEF Live
<1>9. \E t \in Sales : sale'[t].handover = "handed_over"
  BY <1>5, <1>7
<1>10. Holding'
  BY <1>6, <1>8, <1>9 DEF Inv, Holding
<1> QED
  BY <1>5, <1>6, <1>10 DEF Inv, Consistent

LEMMA Preserved == Inv /\ [Next]_vars => Inv'
<1> SUFFICES ASSUME Inv, [Next]_vars PROVE Inv'
  OBVIOUS
<1>1. CASE return_unit_to_market
  BY <1>1, RemarketInv
<1>2. ASSUME NEW s \in Sales, submit_sale(s) \/ activate_sale(s) PROVE Inv'
  BY <1>2, SubmitInv, ActivateInv
<1>3. ASSUME NEW s \in Sales, NEW e \in Milestones,
             record_legal_event(s, e) \/ reverse_legal_event(s, e)
      PROVE  Inv'
  BY <1>3, RecordEventInv, ReverseEventInv, SaleClosingAssumption
<1>4. ASSUME NEW s \in Sales, confirm_receipt(s) \/ reverse_receipt(s) PROVE Inv'
  BY <1>4, ConfirmReceiptInv, ReverseReceiptInv
<1>5. ASSUME NEW s \in Sales, start_cancellation(s) \/ approve_cancellation_terms(s)
      PROVE  Inv'
  BY <1>5, StartInv, ApproveInv
<1>6. ASSUME NEW s \in Sales, NEW to \in CancellationOpen \cup {"withdrawn"},
             advance_cancellation(s, to)
      PROVE  Inv'
  BY <1>6, AdvanceInv
<1>7. ASSUME NEW s \in Sales, complete_cancellation(s) PROVE Inv'
  BY <1>7, CompleteCancellationInv
<1>8. ASSUME NEW s \in Sales, read_for_handover(s) \/ create_handover(s) PROVE Inv'
  BY <1>8, ReadInv, CreateHandoverInv
<1>9. ASSUME NEW s \in Sales, NEW to \in HandoverStatuses, update_handover(s, to) PROVE Inv'
  BY <1>9, UpdateHandoverInv
<1>10. ASSUME NEW s \in Sales, NEW type \in ClearanceTypes,
              grant_clearance(s, type) \/ revoke_clearance(s, type)
       PROVE  Inv'
  BY <1>10, GrantInv, RevokeInv
<1>11. ASSUME NEW s \in Sales, grant_collection_clearance(s) \/ complete_handover(s)
       PROVE  Inv'
  BY <1>11, GrantCollectionInv, CompleteHandoverInv
<1>12. CASE UNCHANGED vars
  BY <1>12 DEF vars, Inv, Holding, Live, Consistent
<1> QED
  BY <1>1, <1>2, <1>3, <1>4, <1>5, <1>6, <1>7, <1>8, <1>9, <1>10, <1>11, <1>12 DEF Next

\* Every reachable state satisfies the inductive invariant, for any contracts,
\* milestones, price and policy.  (every operation of Next)
THEOREM Invariant == Spec => []Inv
<1> QED
  BY Initially, Preserved, PTL DEF Spec

-----------------------------------------------------------------------------
(* The properties *)

\* Every row keeps its columns' types, whatever milestones and policies are in
\* use; the derived legal status is always one a unit may have.  (models.py)
THEOREM TypeCorrect == Spec => []TypeOK
<1>1. Inv => TypeOK
  BY DEF Inv, TypeOK, UnitRow
<1> QED
  BY <1>1, Invariant, PTL

\* Terms a checker signed stay about the cash held for as long as the case runs,
\* for every price and every order of receipts and reversals.
\* (require_cancellation_cash_change_allowed)
THEOREM TermsMatchCash == Spec => []ApprovedTermsMatchCash
<1>1. Inv => ApprovedTermsMatchCash
  BY DEF Inv, ApprovedTermsMatchCash, Consistent, OpenCase
<1> QED
  BY <1>1, Invariant, PTL

\* A contract is in termination exactly while a case on it is open, and the unit
\* stays committed to it.  (start_cancellation, advance_cancellation)
THEOREM UnitCommitted == Spec => []CommittedWhileCaseOpen
<1>1. Inv => CommittedWhileCaseOpen
  BY DEF Inv, CommittedWhileCaseOpen, Consistent, OpenCase, Holding, Live
<1> QED
  BY <1>1, Invariant, PTL

\* Keys once given are never taken back, for any number of contracts in turn.
\* (complete_handover, complete_cancellation)
THEOREM KeysKept == Spec => []KeysStayGiven
<1>1. Inv => KeysStayGiven
  BY DEF Inv, KeysStayGiven, Consistent, Holding, Live
<1> QED
  BY <1>1, Invariant, PTL

-----------------------------------------------------------------------------
(* The action properties *)

\* Which operation completes a case, hands the keys over or transfers a title,
\* and what it leaves alone.
Causes ==
    \A t \in Sales :
        /\ sale[t].case.status # "completed" /\ sale'[t].case.status = "completed"
              => complete_cancellation(t)
        /\ sale[t].handover # "handed_over" /\ sale'[t].handover = "handed_over"
              => complete_handover(t)
        /\ "title_transferred" \in sale'[t].events \ sale[t].events
              => record_legal_event(t, "title_transferred")

LEMMA CausesStep == Inv /\ [Next]_vars => Causes
<1> SUFFICES ASSUME Inv, [Next]_vars PROVE Causes
  OBVIOUS
<1>0. sale \in [Sales -> SaleRow]
  BY DEF Inv
<1>1. CASE return_unit_to_market
  BY <1>1 DEF Causes, return_unit_to_market
<1>2. ASSUME NEW s \in Sales, submit_sale(s) \/ activate_sale(s) PROVE Causes
  <2>1. CASE submit_sale(s)
    BY <1>0, <2>1 DEF Causes, SaleRow, CaseRow, submit_sale
  <2>2. CASE activate_sale(s)
    BY <1>0, <2>2 DEF Causes, SaleRow, CaseRow, activate_sale
  <2> QED
    BY <1>2, <2>1, <2>2
<1>4. ASSUME NEW s \in Sales, confirm_receipt(s) \/ reverse_receipt(s) PROVE Causes
  <2>1. CASE confirm_receipt(s)
    BY <1>0, <2>1 DEF Causes, SaleRow, CaseRow, confirm_receipt, Recalculated
  <2>2. CASE reverse_receipt(s)
    BY <1>0, <2>2 DEF Causes, SaleRow, CaseRow, reverse_receipt, Recalculated
  <2> QED
    BY <1>4, <2>1, <2>2
<1>5. ASSUME NEW s \in Sales, start_cancellation(s) \/ approve_cancellation_terms(s) PROVE Causes
  <2>1. CASE start_cancellation(s)
    BY <1>0, <2>1 DEF Causes, SaleRow, CaseRow, start_cancellation, NoCase
  <2>2. CASE approve_cancellation_terms(s)
    BY <1>0, <2>2 DEF Causes, SaleRow, CaseRow, approve_cancellation_terms, NoCase
  <2> QED
    BY <1>5, <2>1, <2>2
<1>8. ASSUME NEW s \in Sales, read_for_handover(s) \/ create_handover(s) PROVE Causes
  <2>1. CASE read_for_handover(s)
    BY <1>0, <2>1 DEF Causes, SaleRow, CaseRow, read_for_handover
  <2>2. CASE create_handover(s)
    BY <1>0, <2>2 DEF Causes, SaleRow, CaseRow, create_handover
  <2> QED
    BY <1>8, <2>1, <2>2
<1>11. ASSUME NEW s \in Sales, grant_collection_clearance(s) PROVE Causes
  <2>1. CASE grant_collection_clearance(s)
    BY <1>0, <2>1 DEF Causes, SaleRow, CaseRow, grant_collection_clearance
  <2> QED
    BY <1>11, <2>1
<1>3. ASSUME NEW s \in Sales, NEW e \in Milestones,
             record_legal_event(s, e) \/ reverse_legal_event(s, e)
      PROVE  Causes
  <2>1. CASE record_legal_event(s, e)
    <3>1. /\ WithdrawalProgress(s, e).status = sale[s].case.status
      BY <1>0, WithdrawalProgressType
    <3>2. /\ \A t \in Sales : sale'[t].case.status = sale[t].case.status
          /\ \A t \in Sales : sale'[t].handover = sale[t].handover
          /\ \A t \in Sales : t # s => sale'[t].events = sale[t].events
          /\ sale'[s].events = sale[s].events \cup {e}
      BY <1>0, <2>1, <3>1 DEF SaleRow, record_legal_event
    <3> QED
      BY <2>1, <3>2 DEF Causes
  <2>2. CASE reverse_legal_event(s, e)
    BY <1>0, <2>2 DEF Causes, SaleRow, reverse_legal_event
  <2> QED
    BY <1>3, <2>1, <2>2
<1>6. ASSUME NEW s \in Sales, NEW to \in CancellationOpen \cup {"withdrawn"},
             advance_cancellation(s, to)
      PROVE  Causes
  BY <1>0, <1>6 DEF Causes, SaleRow, CaseRow, advance_cancellation, CancellationOpen
<1>7. ASSUME NEW s \in Sales, complete_cancellation(s) PROVE Causes
  BY <1>0, <1>7 DEF Causes, SaleRow, CaseRow, complete_cancellation, Complete
<1>9. ASSUME NEW s \in Sales, NEW to \in HandoverStatuses, update_handover(s, to) PROVE Causes
  BY <1>0, <1>9 DEF Causes, SaleRow, update_handover
<1>10. ASSUME NEW s \in Sales, NEW type \in ClearanceTypes,
              grant_clearance(s, type) \/ revoke_clearance(s, type)
       PROVE  Causes
  <2>1. CASE grant_clearance(s, type)
    BY <1>0, <2>1 DEF Causes, SaleRow, grant_clearance
  <2>2. CASE revoke_clearance(s, type)
    BY <1>0, <2>2 DEF Causes, SaleRow, revoke_clearance
  <2> QED
    BY <1>10, <2>1, <2>2
<1>12. ASSUME NEW s \in Sales, complete_handover(s) PROVE Causes
  BY <1>0, <1>12 DEF Causes, SaleRow, complete_handover
<1>13. CASE UNCHANGED vars
  BY <1>13 DEF vars, Causes
<1> QED
  BY <1>1, <1>2, <1>3, <1>4, <1>5, <1>6, <1>7, <1>8, <1>9, <1>10, <1>11, <1>12, <1>13 DEF Next

\* A contract only ever ends on signed terms derived from the cash then held, or
\* with no cash held: the gate complete_cancellation re-reads and the hold on
\* receipts together leave no order of steps around it.  (complete_cancellation)
THEOREM EndsSettled == Spec => SettledAtCurrentCash
<1>1. Inv /\ [Next]_vars =>
        [\A s \in Sales :
            sale[s].case.status # "completed" /\ sale'[s].case.status = "completed"
               => \/ sale[s].case.approved /\ sale[s].case.basis = sale[s].cash
                  \/ sale[s].cash = 0]_vars
  <2> SUFFICES ASSUME Inv, [Next]_vars, NEW s \in Sales,
                      sale[s].case.status # "completed", sale'[s].case.status = "completed"
               PROVE  \/ sale[s].case.approved /\ sale[s].case.basis = sale[s].cash
                      \/ sale[s].cash = 0
    OBVIOUS
  <2>1. complete_cancellation(s)
    BY CausesStep DEF Causes
  <2> QED
    BY <2>1 DEF Inv, Consistent, complete_cancellation, TermsSettled, CancellationOpen
<1> QED
  BY <1>1, Invariant, PTL DEF Spec, SettledAtCurrentCash

\* Where the policy asks collections, keys and title only ever go to a buyer whose
\* receipts stand at that moment.  (revoke_collection_clearance)
THEOREM PaidFirst == Spec => PaidBeforeKeysAndTitle
<1>1. Inv /\ [Next]_vars =>
        [\A s \in Sales :
          /\ "collection" \in HandoverNeeds /\ sale[s].handover # "handed_over"
                /\ sale'[s].handover = "handed_over"
                => sale[s].cash = MaxCash
          /\ TitleNeedsCollection /\ "title_transferred" \in sale'[s].events \ sale[s].events
                => sale[s].cash = MaxCash]_vars
  <2> SUFFICES ASSUME Inv, [Next]_vars, NEW s \in Sales
               PROVE  /\ "collection" \in HandoverNeeds /\ sale[s].handover # "handed_over"
                            /\ sale'[s].handover = "handed_over"
                            => sale[s].cash = MaxCash
                      /\ TitleNeedsCollection
                            /\ "title_transferred" \in sale'[s].events \ sale[s].events
                            => sale[s].cash = MaxCash
    OBVIOUS
  <2>1. "collection" \in sale[s].cleared => sale[s].cash = MaxCash
    BY DEF Inv, Consistent
  <2>2. ASSUME "collection" \in HandoverNeeds, sale[s].handover # "handed_over",
               sale'[s].handover = "handed_over"
        PROVE  sale[s].cash = MaxCash
    BY <2>1, <2>2, CausesStep DEF Causes, complete_handover, HandoverReady
  <2>3. ASSUME TitleNeedsCollection,
               "title_transferred" \in sale'[s].events \ sale[s].events
        PROVE  sale[s].cash = MaxCash
    BY <2>1, <2>3, CausesStep DEF Causes, record_legal_event
  <2> QED
    BY <2>2, <2>3
<1> QED
  BY <1>1, Invariant, PTL DEF Spec, PaidBeforeKeysAndTitle

-----------------------------------------------------------------------------
(* The unit's legal status *)

\* A step that touches neither a timeline nor the unit's legal status, and the
\* only two that do.
LEMMA TimelineStep ==
    ASSUME Inv, [Next]_vars
    PROVE  \/ /\ \A t \in Sales : sale'[t].events = sale[t].events
              /\ unit'.legal_status = unit.legal_status
           \/ \E s \in Sales : unit'.legal_status = derived_legal_status(sale'[s].events)
<1> DEFINE Untouched == /\ \A t \in Sales : sale'[t].events = sale[t].events
                        /\ unit'.legal_status = unit.legal_status
           Derived == \E s \in Sales : unit'.legal_status = derived_legal_status(sale'[s].events)
<1>0. sale \in [Sales -> SaleRow] /\ unit \in UnitRow
  BY DEF Inv
<1>1. CASE return_unit_to_market
  BY <1>0, <1>1 DEF return_unit_to_market, UnitRow
<1>2. ASSUME NEW s \in Sales, submit_sale(s) \/ activate_sale(s) PROVE Untouched
  <2>1. CASE submit_sale(s)
    BY <1>0, <2>1 DEF SaleRow, submit_sale, UnitRow
  <2>2. CASE activate_sale(s)
    BY <1>0, <2>2 DEF SaleRow, activate_sale, UnitRow
  <2> QED
    BY <1>2, <2>1, <2>2
<1>4. ASSUME NEW s \in Sales, confirm_receipt(s) \/ reverse_receipt(s) PROVE Untouched
  <2>1. CASE confirm_receipt(s)
    BY <1>0, <2>1 DEF SaleRow, confirm_receipt, Recalculated
  <2>2. CASE reverse_receipt(s)
    BY <1>0, <2>2 DEF SaleRow, reverse_receipt, Recalculated
  <2> QED
    BY <1>4, <2>1, <2>2
<1>5. ASSUME NEW s \in Sales, start_cancellation(s) \/ approve_cancellation_terms(s) PROVE Untouched
  <2>1. CASE start_cancellation(s)
    BY <1>0, <2>1 DEF SaleRow, start_cancellation
  <2>2. CASE approve_cancellation_terms(s)
    BY <1>0, <2>2 DEF SaleRow, approve_cancellation_terms
  <2> QED
    BY <1>5, <2>1, <2>2
<1>8. ASSUME NEW s \in Sales, read_for_handover(s) \/ create_handover(s) PROVE Untouched
  <2>1. CASE read_for_handover(s)
    BY <1>0, <2>1 DEF SaleRow, read_for_handover
  <2>2. CASE create_handover(s)
    BY <1>0, <2>2 DEF SaleRow, create_handover
  <2> QED
    BY <1>8, <2>1, <2>2
<1>11. ASSUME NEW s \in Sales, grant_collection_clearance(s) \/ complete_handover(s) PROVE Untouched
  <2>1. CASE grant_collection_clearance(s)
    BY <1>0, <2>1 DEF SaleRow, grant_collection_clearance, UnitRow
  <2>2. CASE complete_handover(s)
    BY <1>0, <2>2 DEF SaleRow, complete_handover, UnitRow
  <2> QED
    BY <1>11, <2>1, <2>2
<1>7. ASSUME NEW s \in Sales, complete_cancellation(s) PROVE Untouched
  <2>1. CASE complete_cancellation(s)
    BY <1>0, <2>1 DEF SaleRow, complete_cancellation, Complete, UnitRow
  <2> QED
    BY <1>7, <2>1
<1>3. ASSUME NEW s \in Sales, NEW e \in Milestones,
             record_legal_event(s, e) \/ reverse_legal_event(s, e)
      PROVE  Derived
  <2>1. CASE record_legal_event(s, e)
    <3>1. /\ sale'[s].events = sale[s].events \cup {e}
          /\ unit'.legal_status = derived_legal_status(sale[s].events \cup {e})
      BY <1>0, <2>1 DEF SaleRow, UnitRow, record_legal_event
    <3> QED
      BY <3>1
  <2>2. CASE reverse_legal_event(s, e)
    <3>1. /\ sale'[s].events = sale[s].events \ {e}
          /\ unit'.legal_status = derived_legal_status(sale[s].events \ {e})
      BY <1>0, <2>2 DEF SaleRow, UnitRow, reverse_legal_event
    <3> QED
      BY <3>1
  <2> QED
    BY <1>3, <2>1, <2>2
<1>6. ASSUME NEW s \in Sales, NEW to \in CancellationOpen \cup {"withdrawn"},
             advance_cancellation(s, to)
      PROVE  Untouched
  BY <1>0, <1>6 DEF SaleRow, advance_cancellation
<1>9. ASSUME NEW s \in Sales, NEW to \in HandoverStatuses, update_handover(s, to)
      PROVE  Untouched
  BY <1>0, <1>9 DEF SaleRow, update_handover
<1>10. ASSUME NEW s \in Sales, NEW type \in ClearanceTypes,
              grant_clearance(s, type) \/ revoke_clearance(s, type)
       PROVE  Untouched
  <2>1. CASE grant_clearance(s, type)
    BY <1>0, <2>1 DEF SaleRow, grant_clearance
  <2>2. CASE revoke_clearance(s, type)
    BY <1>0, <2>2 DEF SaleRow, revoke_clearance
  <2> QED
    BY <1>10, <2>1, <2>2
<1>12. CASE UNCHANGED vars
  BY <1>12 DEF vars
<1> QED
  BY <1>1, <1>2, <1>3, <1>4, <1>5, <1>6, <1>7, <1>8, <1>9, <1>10, <1>11, <1>12 DEF Next

\* The unit's legal status is always one that some contract's timeline, as it
\* stands, establishes, through every correction.  (_apply_derived_legal_status)
THEOREM StatusEvidenced == Spec => []LegalStatusEvidenced
<1>1. Init => LegalStatusEvidenced
  BY DEF Init, LegalStatusEvidenced
<1>2. Inv /\ LegalStatusEvidenced /\ [Next]_vars => LegalStatusEvidenced'
  <2> SUFFICES ASSUME Inv, LegalStatusEvidenced, [Next]_vars PROVE LegalStatusEvidenced'
    OBVIOUS
  <2>1. CASE /\ \A t \in Sales : sale'[t].events = sale[t].events
             /\ unit'.legal_status = unit.legal_status
    BY <2>1 DEF LegalStatusEvidenced
  <2>2. CASE \E s \in Sales : unit'.legal_status = derived_legal_status(sale'[s].events)
    BY <2>2 DEF LegalStatusEvidenced
  <2> QED
    BY <2>1, <2>2, TimelineStep
<1> QED
  BY <1>1, <1>2, Invariant, PTL DEF Spec

=============================================================================
