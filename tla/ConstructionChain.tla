-------------------------- MODULE ConstructionChain --------------------------
(***************************************************************************)
(* The money of one construction contract:                                 *)
(* app/modules/construction/service.py, from the signed contract and its   *)
(* variations through certificates and invoices to the payments.           *)
(*                                                                         *)
(* Every operation takes the project lock first and commits once, so it is *)
(* one action.  Amounts are whole units and tax is left out.  A row that   *)
(* was rejected, withdrawn, reversed or voided is "closed": nothing reads  *)
(* its figures again, so the model forgets them.  Rows of one table are    *)
(* given in order.  Who submits and who decides is left out: a second      *)
(* person is always there to take the decision.                            *)
(***************************************************************************)
EXTENDS Integers, FiniteSets, FiniteSetsExt, Functions

CONSTANTS
    Codes,          \* cost codes the clerks use
    OwnCode,        \* the code a signed registration opens for the contract
    MaxVariations, MaxCertificates, MaxInvoices, MaxPayments,
    Values, Entitlements,           \* amounts entered on the contract,
    Deltas,                         \* on its variations,
    Works, Releases, Recoveries,    \* on its certificates,
    Claims, Sums,                   \* on its invoices and payments
    RateNum, RateDen                \* retention_rate_fraction

ASSUME ChainAssumption ==
    /\ IsFiniteSet(Codes) /\ OwnCode \in Codes
    /\ MaxVariations \in Nat /\ MaxCertificates \in Nat
    /\ MaxInvoices \in Nat /\ MaxPayments \in Nat
    /\ Values \subseteq Nat /\ Entitlements \subseteq Nat /\ Deltas \subseteq Int
    /\ Works \subseteq Nat /\ Releases \subseteq Nat /\ Recoveries \subseteq Nat
    /\ Claims \subseteq Nat /\ Sums \subseteq Nat
    /\ RateNum \in Nat /\ RateDen \in Nat \ {0} /\ RateNum <= RateDen

VARIABLES
    contract,       \* construction_contracts, and its lines
    variation,      \* construction_variations, with their lines
    certificate,    \* construction_certificates, with their lines
    invoice,        \* construction_invoices
    payment,        \* construction_payments, with their allocations
    evidencing      \* certificates a certified milestone names

vars == <<contract, variation, certificate, invoice, payment, evidencing>>

-----------------------------------------------------------------------------
(* Rows *)

Variations == 1..MaxVariations
Certificates == 1..MaxCertificates
Invoices == 1..MaxInvoices
Payments == 1..MaxPayments

Lines(S) == UNION {[D -> S] : D \in SUBSET Codes}
Allocations == UNION {[D -> Sums] : D \in SUBSET Invoices}
NoLines == [c \in {} |-> 0]
Put(lines, c, amount) == [d \in DOMAIN lines \cup {c} |-> IF d = c THEN amount ELSE lines[d]]

ContractRow ==
    [status : {"none", "draft", "submitted", "active", "ended", "cancelled"},
     value : Nat, entitlement : Nat, lines : Lines(Nat)]

VariationRow ==
    [status : {"none", "draft", "submitted", "approved", "closed"}, lines : Lines(Deltas)]

CertificateRow ==
    [status : {"none", "draft", "submitted", "certified", "closed"},
     lines : Lines(Works), release : Nat, recovery : Nat]

\* certificate = 0 is an advance.
InvoiceRow ==
    [status : {"none", "recorded", "approved", "disputed", "closed"},
     certificate : {0} \cup Certificates, amount : Nat]

PaymentRow ==
    [status : {"none", "recorded", "confirmed", "closed"},
     direct : BOOLEAN, amount : Nat, allocations : Allocations]

NoContract == [status |-> "none", value |-> 0, entitlement |-> 0, lines |-> NoLines]
Variation(status) == [status |-> status, lines |-> NoLines]
Certificate(status) ==
    [status |-> status, lines |-> NoLines, release |-> 0, recovery |-> 0]
Invoice(status) == [status |-> status, certificate |-> 0, amount |-> 0]
Payment(status) ==
    [status |-> status, direct |-> FALSE, amount |-> 0, allocations |-> NoLines]

\* n is the next free row of a table.
NextRow(table, n) ==
    \A m \in DOMAIN table : (m < n => table[m].status # "none")
                         /\ (m >= n => table[m].status = "none")

-----------------------------------------------------------------------------
(* What the service reads *)

Committing == contract.status \in {"active", "ended"}

At(lines, c) == IF c \in DOMAIN lines THEN lines[c] ELSE 0
TotalOf(lines) == SumFunction(lines)

Approved == {v \in Variations : variation[v].status = "approved"}
Certified == {k \in Certificates : certificate[k].status = "certified"}
Standing == {i \in Invoices : invoice[i].status \in {"approved", "disputed"}}
Confirmed == {p \in Payments : payment[p].status = "confirmed"}

\* contract_committed_by_cost_code and certified_by_cost_code
Committed(c) ==
    At(contract.lines, c) + SumFunction([v \in Approved |-> At(variation[v].lines, c)])
CertifiedWork(c) == SumFunction([k \in Certified |-> At(certificate[k].lines, c)])

\* Retention withheld from one certificate, half up.
Held(k) == (2 * TotalOf(certificate[k].lines) * RateNum + RateDen) \div (2 * RateDen)

\* retention_position
RetentionHeld == SumFunction([k \in Certified |-> Held(k)])
RetentionReleased == SumFunction([k \in Certified |-> certificate[k].release])

NetDue(k) ==
    TotalOf(certificate[k].lines) + certificate[k].release - Held(k)
        - certificate[k].recovery

\* Standing claims against certificate k, or against the entitlement (k = 0).
ClaimsOn(k) ==
    SumFunction([i \in {j \in Standing : invoice[j].certificate = k} |-> invoice[i].amount])

\* invoice_allocated: confirmed cash on one invoice.
Paid(i) == SumFunction([p \in Confirmed |-> At(payment[p].allocations, i)])
Outstanding(i) == invoice[i].amount - Paid(i)

\* advance_position
Advances == {i \in Invoices : invoice[i].certificate = 0}
AdvancePaid == SumFunction([i \in Advances \cap Standing |-> Paid(i)])
AdvanceRecovered == SumFunction([k \in Certified |-> certificate[k].recovery])
AdvanceOf(p) == SumFunction([i \in Advances |-> At(payment[p].allocations, i)])

\* Something hangs on the contract: a variation, certificate, invoice or payment.
Linked ==
    \/ \E v \in Variations : variation[v].status # "none"
    \/ \E k \in Certificates : certificate[k].status # "none"
    \/ \E i \in Invoices : invoice[i].status # "none"
    \/ \E p \in Payments : payment[p].status # "none"

Reconciled == TotalOf(contract.lines) = contract.value

Init ==
    /\ contract = NoContract
    /\ variation = [v \in Variations |-> Variation("none")]
    /\ certificate = [k \in Certificates |-> Certificate("none")]
    /\ invoice = [i \in Invoices |-> Invoice("none")]
    /\ payment = [p \in Payments |-> Payment("none")]
    /\ evidencing = {}

rest_of_contract == <<variation, certificate, invoice, payment, evidencing>>

-----------------------------------------------------------------------------
(* The contract *)

create_contract(value, entitlement) ==
    /\ contract.status = "none"
    /\ contract' = [NoContract EXCEPT !.status = "draft", !.value = value,
                                      !.entitlement = entitlement]
    /\ UNCHANGED rest_of_contract

update_contract(value, entitlement) ==
    /\ contract.status = "draft"
    /\ contract' = [contract EXCEPT !.value = value, !.entitlement = entitlement]
    /\ UNCHANGED rest_of_contract

set_contract_line(c, amount) ==
    /\ contract.status = "draft"
    /\ contract' = [contract EXCEPT !.lines = Put(@, c, amount)]
    /\ UNCHANGED rest_of_contract

remove_contract_line(c) ==
    /\ contract.status = "draft"
    /\ c \in DOMAIN contract.lines
    /\ contract' = [contract EXCEPT !.lines = Restrict(@, DOMAIN @ \ {c})]
    /\ UNCHANGED rest_of_contract

submit_contract ==
    /\ contract.status = "draft"
    /\ Reconciled
    /\ contract' = [contract EXCEPT !.status = "submitted"]
    /\ UNCHANGED rest_of_contract

activate_contract ==
    /\ contract.status = "submitted"
    /\ Reconciled
    /\ contract' = [contract EXCEPT !.status = "active"]
    /\ UNCHANGED rest_of_contract

\* Already signed: lines that do not add up are replaced by one on its own code.
register_signed_contract ==
    /\ contract.status \in {"draft", "submitted"}
    /\ Reconciled \/ ~Linked
    /\ contract' = [contract EXCEPT
          !.status = "active",
          !.lines = IF Reconciled /\ @ # NoLines THEN @
                    ELSE Put(NoLines, OwnCode, contract.value)]
    /\ UNCHANGED rest_of_contract

delete_unused_contract ==
    /\ contract.status \in {"draft", "submitted", "active"}
    /\ ~Linked
    /\ contract' = IF contract.status = "draft" THEN NoContract
                   ELSE [contract EXCEPT !.status = "cancelled"]
    /\ UNCHANGED rest_of_contract

\* complete_contract and terminate_contract, which everything reads alike, and
\* cancel_contract: what was committed stays as it is.
close_contract(to) ==
    /\ contract.status \in IF to = "cancelled" THEN {"draft", "submitted"} ELSE {"active"}
    /\ contract' = [contract EXCEPT !.status = to]
    /\ UNCHANGED rest_of_contract

-----------------------------------------------------------------------------
(* Variations *)

ChangeVariation(v, row) ==
    /\ variation' = [variation EXCEPT ![v] = row]
    /\ UNCHANGED <<contract, certificate, invoice, payment, evidencing>>

create_variation(v) ==
    /\ Committing
    /\ NextRow(variation, v)
    /\ ChangeVariation(v, Variation("draft"))

set_variation_line(v, c, delta) ==
    /\ variation[v].status = "draft"
    /\ delta # 0
    /\ ChangeVariation(v, [variation[v] EXCEPT !.lines = Put(@, c, delta)])

remove_variation_line(v, c) ==
    /\ variation[v].status = "draft"
    /\ c \in DOMAIN variation[v].lines
    /\ ChangeVariation(v, [variation[v] EXCEPT !.lines = Restrict(@, DOMAIN @ \ {c})])

\* The row goes; the model keeps its number taken.
delete_draft_variation(v) ==
    /\ variation[v].status = "draft"
    /\ ChangeVariation(v, Variation("closed"))

submit_variation(v) ==
    /\ variation[v].status = "draft"
    /\ variation[v].lines # NoLines
    /\ ChangeVariation(v, [variation[v] EXCEPT !.status = "submitted"])

\* A reduction leaves what was certified, and nothing below zero.
FloorsHold(v) ==
    \A c \in DOMAIN variation[v].lines :
        variation[v].lines[c] < 0 =>
            Committed(c) + variation[v].lines[c] >= Max({0, CertifiedWork(c)})

\* Mutant of approve_variation: only the zero floor.
ApproveBelowCertified(v) ==
    /\ variation[v].status = "submitted"
    /\ \A c \in DOMAIN variation[v].lines : Committed(c) + variation[v].lines[c] >= 0
    /\ ChangeVariation(v, [variation[v] EXCEPT !.status = "approved"])

approve_variation(v) ==
    /\ variation[v].status = "submitted"
    /\ FloorsHold(v)
    /\ ChangeVariation(v, [variation[v] EXCEPT !.status = "approved"])

\* reject_variation and withdraw_variation
refuse_variation(v) ==
    /\ variation[v].status = "submitted"
    /\ ChangeVariation(v, Variation("closed"))

-----------------------------------------------------------------------------
(* Certificates *)

ChangeCertificate(k, row) ==
    /\ certificate' = [certificate EXCEPT ![k] = row]
    /\ UNCHANGED <<contract, variation, invoice, payment, evidencing>>

create_certificate(k, release, recovery) ==
    /\ Committing
    /\ NextRow(certificate, k)
    /\ ChangeCertificate(k, [Certificate("draft") EXCEPT !.release = release,
                                                         !.recovery = recovery])

set_certificate_line(k, c, work) ==
    /\ certificate[k].status = "draft"
    /\ ChangeCertificate(k, [certificate[k] EXCEPT !.lines = Put(@, c, work)])

delete_draft_certificate(k) ==
    /\ certificate[k].status = "draft"
    /\ \A i \in Invoices : invoice[i].status # "none" => invoice[i].certificate # k
    /\ ChangeCertificate(k, Certificate("closed"))

submit_certificate(k) ==
    /\ certificate[k].status = "draft"
    /\ certificate[k].lines # NoLines
    /\ ChangeCertificate(k, [certificate[k] EXCEPT !.status = "submitted"])

\* Mutant of certify_certificate: the advance is checked against what was
\* invoiced, not against what was paid.
CertifyOnInvoicedAdvance(k) ==
    /\ certificate[k].status = "submitted"
    /\ \A c \in DOMAIN certificate[k].lines :
          CertifiedWork(c) + certificate[k].lines[c] <= Committed(c)
    /\ certificate[k].release <= RetentionHeld - RetentionReleased
    /\ certificate[k].recovery <= ClaimsOn(0) - AdvanceRecovered
    /\ NetDue(k) >= 0
    /\ ChangeCertificate(k, [certificate[k] EXCEPT !.status = "certified"])

certify_certificate(k) ==
    /\ certificate[k].status = "submitted"
    /\ \A c \in DOMAIN certificate[k].lines :
          CertifiedWork(c) + certificate[k].lines[c] <= Committed(c)
    /\ certificate[k].release <= RetentionHeld - RetentionReleased
    /\ certificate[k].recovery <= AdvancePaid - AdvanceRecovered
    /\ NetDue(k) >= 0
    /\ ChangeCertificate(k, [certificate[k] EXCEPT !.status = "certified"])

reject_certificate(k) ==
    /\ certificate[k].status = "submitted"
    /\ ChangeCertificate(k, Certificate("closed"))

\* Mutant of reverse_certificate: a disputed invoice is not in the way.
ReverseUnderDispute(k) ==
    /\ k \in Certified \ evidencing
    /\ \A i \in Standing : invoice[i].certificate = k => invoice[i].status = "disputed"
    /\ ChangeCertificate(k, Certificate("closed"))

\* Nothing asks whether a later certificate released what this one held.
reverse_certificate(k) ==
    /\ k \in Certified \ evidencing
    /\ \A i \in Standing : invoice[i].certificate # k
    /\ ChangeCertificate(k, Certificate("closed"))

\* certify_milestone, for the milestones linked to certificate k; it is final.
certify_milestone(k) ==
    /\ k \in Certified \ evidencing
    /\ evidencing' = evidencing \cup {k}
    /\ UNCHANGED <<contract, variation, certificate, invoice, payment>>

-----------------------------------------------------------------------------
(* Invoices *)

ChangeInvoice(i, row) ==
    /\ invoice' = [invoice EXCEPT ![i] = row]
    /\ UNCHANGED <<contract, variation, certificate, payment, evidencing>>

\* An advance asks nothing of the contract, not even that it is signed.
record_invoice(i, k, amount) ==
    /\ contract.status # "none"
    /\ NextRow(invoice, i)
    /\ k \in Certified \cup {0}
    /\ ChangeInvoice(i, [status |-> "recorded", certificate |-> k, amount |-> amount])

approve_invoice(i) ==
    /\ invoice[i].status = "recorded"
    /\ IF invoice[i].certificate = 0
       THEN ClaimsOn(0) + invoice[i].amount <= contract.entitlement
       ELSE /\ invoice[i].certificate \in Certified
            /\ ClaimsOn(invoice[i].certificate) + invoice[i].amount
                  <= NetDue(invoice[i].certificate)
    /\ ChangeInvoice(i, [invoice[i] EXCEPT !.status = "approved"])

dispute_invoice(i) ==
    /\ invoice[i].status = "approved"
    /\ ChangeInvoice(i, [invoice[i] EXCEPT !.status = "disputed"])

resolve_invoice_dispute(i) ==
    /\ invoice[i].status = "disputed"
    /\ ChangeInvoice(i, [invoice[i] EXCEPT !.status = "approved"])

\* Its kind stays on the row, for the advance_here of reverse_payment.
void_invoice(i) ==
    /\ invoice[i].status \in {"recorded", "approved", "disputed"}
    /\ \A p \in Confirmed : i \notin DOMAIN payment[p].allocations
    /\ ChangeInvoice(i, [invoice[i] EXCEPT !.status = "closed", !.amount = 0])

-----------------------------------------------------------------------------
(* Payments *)

ChangePayment(p, row) ==
    /\ payment' = [payment EXCEPT ![p] = row]
    /\ UNCHANGED <<contract, variation, certificate, invoice, evidencing>>

record_payment(p, amount) ==
    /\ contract.status # "none"
    /\ NextRow(payment, p)
    /\ amount > 0
    /\ ChangePayment(p, [Payment("recorded") EXCEPT !.amount = amount])

\* Money already paid is confirmed at once, on one invoice or on none.
record_direct_payment(p, amount, settled) ==
    /\ Committing
    /\ NextRow(payment, p)
    /\ amount > 0
    /\ \A i \in settled : invoice[i].status = "approved" /\ amount <= Outstanding(i)
    /\ ChangePayment(p, [status |-> "confirmed", direct |-> TRUE, amount |-> amount,
                         allocations |-> [i \in settled |-> amount]])

allocate_payment(p, i, amount) ==
    /\ payment[p].status = "recorded"
    /\ invoice[i].status # "none"
    /\ amount > 0
    /\ ChangePayment(p, [payment[p] EXCEPT !.allocations = Put(@, i, amount)])

remove_allocation(p, i) ==
    /\ payment[p].status = "recorded"
    /\ i \in DOMAIN payment[p].allocations
    /\ ChangePayment(p, [payment[p] EXCEPT !.allocations = Restrict(@, DOMAIN @ \ {i})])

confirm_payment(p) ==
    /\ payment[p].status = "recorded"
    /\ TotalOf(payment[p].allocations) = payment[p].amount
    /\ \A i \in DOMAIN payment[p].allocations :
          /\ invoice[i].status = "approved"
          /\ payment[p].allocations[i] <= Outstanding(i)
    /\ ChangePayment(p, [payment[p] EXCEPT !.status = "confirmed"])

MayReverse(p) == AdvanceOf(p) > 0 => AdvancePaid - AdvanceOf(p) >= AdvanceRecovered

reverse_payment(p) ==
    /\ p \in Confirmed
    /\ MayReverse(p)
    /\ ChangePayment(p, Payment("closed"))

-----------------------------------------------------------------------------
ContractNext ==
    \/ \E value \in Values, entitlement \in Entitlements :
          create_contract(value, entitlement) \/ update_contract(value, entitlement)
    \/ \E c \in Codes :
          \/ remove_contract_line(c)
          \/ \E amount \in Values : set_contract_line(c, amount)
    \/ submit_contract \/ activate_contract \/ register_signed_contract
    \/ delete_unused_contract
    \/ \E to \in {"ended", "cancelled"} : close_contract(to)

VariationNext ==
    \E v \in Variations :
        \/ create_variation(v) \/ delete_draft_variation(v) \/ submit_variation(v)
        \/ approve_variation(v) \/ refuse_variation(v)
        \/ \E c \in Codes :
              \/ remove_variation_line(v, c)
              \/ \E delta \in Deltas : set_variation_line(v, c, delta)

CertificateNext ==
    \E k \in Certificates :
        \/ \E release \in Releases, recovery \in Recoveries : create_certificate(k, release, recovery)
        \/ \E c \in Codes, work \in Works : set_certificate_line(k, c, work)
        \/ delete_draft_certificate(k) \/ submit_certificate(k) \/ certify_certificate(k)
        \/ reject_certificate(k) \/ reverse_certificate(k) \/ certify_milestone(k)

InvoiceNext ==
    \E i \in Invoices :
        \/ \E k \in {0} \cup Certificates, amount \in Claims : record_invoice(i, k, amount)
        \/ approve_invoice(i) \/ dispute_invoice(i) \/ resolve_invoice_dispute(i)
        \/ void_invoice(i)

PaymentNext ==
    \E p \in Payments :
        \/ \E amount \in Sums :
              \/ record_payment(p, amount)
              \/ \E settled \in {{}} \cup {{i} : i \in Invoices} :
                    record_direct_payment(p, amount, settled)
              \/ \E i \in Invoices : allocate_payment(p, i, amount)
        \/ \E i \in Invoices : remove_allocation(p, i)
        \/ confirm_payment(p) \/ reverse_payment(p)

Next == ContractNext \/ VariationNext \/ CertificateNext \/ InvoiceNext \/ PaymentNext

Spec == Init /\ [][Next]_vars

-----------------------------------------------------------------------------
(* Properties *)

\* Every table keeps its columns' types.
TypeOK ==
    /\ contract \in ContractRow
    /\ variation \in [Variations -> VariationRow]
    /\ certificate \in [Certificates -> CertificateRow]
    /\ invoice \in [Invoices -> InvoiceRow]
    /\ payment \in [Payments -> PaymentRow]
    /\ evidencing \subseteq Certificates

\* Nothing standing rests on something taken back: a claim on a certificate, a
\* milestone on its evidence, confirmed cash on the invoice it settled.
NothingStandsOnAir ==
    /\ evidencing \subseteq Certified
    /\ \A i \in Standing : invoice[i].certificate \in Certified \cup {0}
    /\ \A p \in Confirmed : DOMAIN payment[p].allocations \subseteq Standing

\* Money nests: what left the bank fits inside the claims it settled, the claims of
\* a certificate inside its net due, and certified work, per cost code, inside the
\* commitment, in whatever order variations, certificates, invoices and payments
\* were drawn up, approved and taken back.
MoneyNests ==
    /\ \A i \in Standing : Paid(i) <= invoice[i].amount
    /\ \A k \in Certified : ClaimsOn(k) <= NetDue(k)
    /\ \A c \in Codes : CertifiedWork(c) <= Committed(c)

\* Advance is recovered only out of advance cash that left the bank and did not
\* come back.
AdvanceRecoveredWithinPaid == AdvanceRecovered <= AdvancePaid

\* Every refusal to undo names what to undo first, so as long as no milestone
\* rests on a certificate, something of what stands can be undone.
SomethingCanBeUndone ==
    evidencing = {} /\ (Certified # {} \/ Standing # {} \/ Confirmed # {}) =>
        \/ \E k \in Certified : ENABLED reverse_certificate(k)
        \/ \E i \in Standing : ENABLED void_invoice(i)
        \/ \E p \in Confirmed : ENABLED reverse_payment(p)
=============================================================================
