---------------------------- MODULE MCSaleLedger ----------------------------
(* SaleLedger on small instances. *)
EXTENDS SaleLedger, TLC

\* Schedules of a contract worth two: one payment, two, and one short of it.
Two == {<<2>>, <<1, 1>>, <<1>>}

\* Schedules of a contract worth three: a first payment of one or of two, and one
\* that falls short.
Three == {<<1, 2>>, <<2, 1>>, <<1>>}

\* One receipt through three versions, in pieces and disputed; or two receipts
\* carried whole from one version to another.
Drawn(schedules) ==
    \A v \in Versions : version[v].schedule \in schedules \cup {<<>>}

OneReceipt ==
    /\ receipt[2].status = "none"
    /\ Drawn({<<1, 2>>, <<1>>})
TwoReceipts ==
    /\ version[3].status = "none"
    /\ Drawn({<<1, 2>>, <<2, 1>>})
    /\ disputed = {} /\ waived = {}
    /\ \A a \in allocations : a.row = 1

CashNext == Next /\ (OneReceipt' \/ TwoReceipts')

CashSpec == Init /\ [][CashNext]_vars
=============================================================================
