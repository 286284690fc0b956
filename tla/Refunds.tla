------------------------------ MODULE Refunds ------------------------------
(***************************************************************************)
(* The money that goes back when a contract ends: the terms of a           *)
(* cancellation in app/modules/sales/service.py and its refunds in         *)
(* app/modules/collections/service.py.                                     *)
(*                                                                         *)
(* Every operation takes the project lock and is one action.  A case is    *)
(* open from its start to its withdrawal or completion; what happens to it *)
(* in between, and the unit, are in SaleClosing.  Receipts move here only  *)
(* as the cash they hold.  Amounts are whole units, a date is a number, 0  *)
(* when not set; who signs, currencies and numbers are left out.           *)
(***************************************************************************)
EXTENDS Naturals, FiniteSets, Functions

CONSTANTS
    MaxDeposits, MaxCases, MaxRefunds,
    Payments,       \* amounts paid in and out
    Deductions,     \* what a case keeps: the amount kept of an eligible amount
    LastRefundDay

ASSUME RefundAssumption ==
    /\ {MaxDeposits, MaxCases, MaxRefunds} \subseteq Nat
    /\ Payments \subseteq Nat \ {0} /\ LastRefundDay \in Nat \ {0}
    /\ Deductions \subseteq {"nothing", "half", "all"}

VARIABLES
    deposit,        \* collection_receipts of the contract
    case,           \* sale_cancellations of the contract
    refund,         \* collection_refunds
    refund_day      \* the business day

refundVars == <<deposit, case, refund, refund_day>>

-----------------------------------------------------------------------------
(* Rows *)

Deposits == 1..MaxDeposits
Cases == 1..MaxCases
Refunded == 1..MaxRefunds
RefundDays == 1..LastRefundDay

DepositRow ==
    [status : {"none", "recorded", "confirmed", "reversed"}, amount : {0} \cup Payments]

\* keeps: the deduction; required and approved: of the financial terms; due:
\* refund_due_amount; returned: unit_return_date.
CaseRow ==
    [status : {"none", "open", "withdrawn", "completed"}, keeps : {"nothing"} \cup Deductions,
     required : BOOLEAN, approved : BOOLEAN, due : Nat, returned : {0} \cup RefundDays]

RefundRow ==
    [status : {"none", "recorded", "confirmed", "reversed"}, case : {0} \cup Cases,
     amount : {0} \cup Payments, date : {0} \cup RefundDays]

NoDeposit == [status |-> "none", amount |-> 0]
NoCase ==
    [status |-> "none", keeps |-> "nothing", required |-> FALSE, approved |-> FALSE,
     due |-> 0, returned |-> 0]
NoRefund == [status |-> "none", case |-> 0, amount |-> 0, date |-> 0]

-----------------------------------------------------------------------------
(* What the services read *)

InConfirmed(table) == {r \in DOMAIN table : table[r].status = "confirmed"}
ConfirmedTotal(table) == SumFunction([r \in InConfirmed(table) |-> table[r].amount])

\* eligible_cancellation_cash, refused when more was repaid than is held.
CashIn == ConfirmedTotal(deposit)
CashOut == ConfirmedTotal(refund)
Held == CashIn - CashOut

\* calculate_cancellation_terms: half is rounded up to the unit.
Kept(deduction, amount) ==
    CASE deduction = "nothing" -> 0
      [] deduction = "half" -> (amount + 1) \div 2
      [] deduction = "all" -> amount

Open == {c \in Cases : case[c].status = "open"}
NoCaseLive == \A c \in Cases : case[c].status \notin {"open", "completed"}

\* require_cancellation_cash_change_allowed
CashFree == \A c \in Open : ~case[c].approved

\* require_refund_authority and _require_refund_headroom
RefundAuthorised(c, date) ==
    /\ case[c].status = "completed"
    /\ case[c].required /\ case[c].approved
    /\ case[c].returned <= refund_day
    /\ date >= case[c].returned
PaidBack(c) ==
    SumFunction([f \in {g \in InConfirmed(refund) : refund[g].case = c} |-> refund[f].amount])
Headroom(c, amount) == PaidBack(c) + amount <= case[c].due

RefundInit ==
    /\ deposit = [d \in Deposits |-> NoDeposit]
    /\ case = [c \in Cases |-> NoCase]
    /\ refund = [f \in Refunded |-> NoRefund]
    /\ refund_day = 1

-----------------------------------------------------------------------------
(* The cash held *)

ChangeDeposit(d, row) ==
    /\ deposit' = [deposit EXCEPT ![d] = row]
    /\ UNCHANGED <<case, refund, refund_day>>

\* Recorded on a contract that is not cancelled, confirmed or reversed whenever no
\* signed case is open.
record_deposit(d, amount) ==
    /\ deposit[d].status = "none"
    /\ \A c \in Cases : case[c].status # "completed"
    /\ ChangeDeposit(d, [status |-> "recorded", amount |-> amount])
confirm_deposit(d) ==
    /\ deposit[d].status = "recorded"
    /\ CashFree
    /\ ChangeDeposit(d, [deposit[d] EXCEPT !.status = "confirmed"])
reverse_deposit(d) ==
    /\ deposit[d].status = "confirmed"
    /\ CashFree
    /\ ChangeDeposit(d, [deposit[d] EXCEPT !.status = "reversed"])

-----------------------------------------------------------------------------
(* The case and its terms *)

ChangeCase(c, row) ==
    /\ case' = [case EXCEPT ![c] = row]
    /\ UNCHANGED <<deposit, refund, refund_day>>

open_case(c, deduction) ==
    /\ case[c].status = "none"
    /\ NoCaseLive
    /\ CashIn >= CashOut
    /\ ChangeCase(c, [NoCase EXCEPT
          !.status = "open", !.keeps = deduction, !.required = Held > 0,
          !.due = Held - Kept(deduction, Held)])

\* Not asked: whether the case is still open.
approve_terms(c) ==
    /\ case[c].status # "none"
    /\ ~case[c].approved
    /\ CashIn > CashOut
    /\ ChangeCase(c, [case[c] EXCEPT
          !.required = TRUE, !.approved = TRUE, !.due = Held - Kept(case[c].keeps, Held)])

withdraw_case(c) ==
    /\ case[c].status = "open"
    /\ ChangeCase(c, [case[c] EXCEPT !.status = "withdrawn"])

complete_case(c, date) ==
    /\ case[c].status = "open"
    /\ case[c].approved \/ (~case[c].required /\ CashIn = CashOut)
    /\ date <= refund_day
    /\ ChangeCase(c, [case[c] EXCEPT !.status = "completed", !.returned = date])

-----------------------------------------------------------------------------
(* Refunds *)

ChangeRefund(f, row) ==
    /\ refund' = [refund EXCEPT ![f] = row]
    /\ UNCHANGED <<deposit, case, refund_day>>

record_refund(f, c, amount, date) ==
    /\ refund[f].status = "none"
    /\ date <= refund_day
    /\ RefundAuthorised(c, date)
    /\ Headroom(c, amount)
    /\ ChangeRefund(f, [status |-> "recorded", case |-> c, amount |-> amount, date |-> date])

\* Mutant of confirm_refund: the room there was when it was recorded.
ConfirmAsRecorded(f) ==
    /\ refund[f].status = "recorded"
    /\ RefundAuthorised(refund[f].case, refund[f].date)
    /\ ChangeRefund(f, [refund[f] EXCEPT !.status = "confirmed"])

confirm_refund(f) ==
    /\ refund[f].status = "recorded"
    /\ RefundAuthorised(refund[f].case, refund[f].date)
    /\ Headroom(refund[f].case, refund[f].amount)
    /\ ChangeRefund(f, [refund[f] EXCEPT !.status = "confirmed"])

\* void_refund and reverse_refund
reverse_refund(f) ==
    /\ refund[f].status \in {"recorded", "confirmed"}
    /\ ChangeRefund(f, [refund[f] EXCEPT !.status = "reversed"])

next_refund_day ==
    /\ refund_day < LastRefundDay
    /\ refund_day' = refund_day + 1
    /\ UNCHANGED <<deposit, case, refund>>

-----------------------------------------------------------------------------
RefundNext ==
    \/ \E d \in Deposits :
          \/ \E amount \in Payments : record_deposit(d, amount)
          \/ confirm_deposit(d) \/ reverse_deposit(d)
    \/ \E c \in Cases :
          \/ \E deduction \in Deductions : open_case(c, deduction)
          \/ approve_terms(c) \/ withdraw_case(c)
          \/ \E date \in RefundDays : complete_case(c, date)
    \/ \E f \in Refunded :
          \/ \E c \in Cases, amount \in Payments, date \in RefundDays :
                record_refund(f, c, amount, date)
          \/ confirm_refund(f) \/ reverse_refund(f)
    \/ next_refund_day

RefundSpec == RefundInit /\ [][RefundNext]_refundVars

-----------------------------------------------------------------------------
(* Properties *)

\* Every table keeps its columns' types.
RefundTypeOK ==
    /\ deposit \in [Deposits -> DepositRow]
    /\ case \in [Cases -> CaseRow]
    /\ refund \in [Refunded -> RefundRow]
    /\ refund_day \in RefundDays

\* What left the bank for a case fits inside what its approver signed, on a case
\* that ended and is not live again, and none of it left before the unit came back,
\* however many refunds were recorded, signed and taken back in between.
\* (require_refund_authority, _require_refund_headroom)
RefundsWithinTerms ==
    \A c \in Cases :
        /\ PaidBack(c) <= case[c].due
        /\ \A f \in InConfirmed(refund) : refund[f].case = c =>
              /\ case[c].status = "completed" /\ case[c].approved
              /\ refund[f].date \in case[c].returned..refund_day
=============================================================================
