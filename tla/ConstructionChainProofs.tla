---------------------- MODULE ConstructionChainProofs -----------------------
(***************************************************************************)
(* What ConstructionChain guarantees for any cost codes and amounts and    *)
(* any number of variations, certificates, invoices and payments: what     *)
(* each document stands on first, then the money, whose sums SumLemmas     *)
(* adds up.                                                                *)
(***************************************************************************)
EXTENDS ConstructionChain, SumLemmas, TLAPS

Inv == TypeOK /\ NothingStandsOnAir

-----------------------------------------------------------------------------
(* Lines *)

LEMMA PutTyped ==
    ASSUME NEW K, NEW S, NEW lines \in UNION {[D -> S] : D \in SUBSET K},
           NEW c \in K, NEW amount \in S
    PROVE  Put(lines, c, amount) \in UNION {[D -> S] : D \in SUBSET K}
<1>1. PICK D \in SUBSET K : lines \in [D -> S]
  OBVIOUS
<1>2. Put(lines, c, amount) \in [D \cup {c} -> S]
  BY <1>1 DEF Put
<1> QED
  BY <1>2

LEMMA RestrictTyped ==
    ASSUME NEW K, NEW S, NEW lines \in UNION {[D -> S] : D \in SUBSET K}, NEW c
    PROVE  Restrict(lines, DOMAIN lines \ {c}) \in UNION {[D -> S] : D \in SUBSET K}
<1>1. PICK D \in SUBSET K : lines \in [D -> S]
  OBVIOUS
<1>2. Restrict(lines, DOMAIN lines \ {c}) \in [D \ {c} -> S]
  BY <1>1 DEF Restrict
<1> QED
  BY <1>2

LEMMA NoLinesTyped ==
    ASSUME NEW S
    PROVE  NoLines \in Lines(S) /\ NoLines \in Allocations
<1>1. NoLines \in [{} -> S] /\ NoLines \in [{} -> Sums]
  BY DEF NoLines
<1> QED
  BY <1>1 DEF Lines, Allocations

LEMMA PutLines ==
    ASSUME NEW S, NEW lines \in Lines(S), NEW c \in Codes, NEW amount \in S
    PROVE  Put(lines, c, amount) \in Lines(S)
BY PutTyped DEF Lines

LEMMA RestrictLines ==
    ASSUME NEW S, NEW lines \in Lines(S), NEW c
    PROVE  Restrict(lines, DOMAIN lines \ {c}) \in Lines(S)
BY RestrictTyped DEF Lines

-----------------------------------------------------------------------------
(* The contract *)

LEMMA ContractStep ==
    ASSUME Inv, ContractNext
    PROVE  Inv'
<1>1. UNCHANGED rest_of_contract
  BY DEF ContractNext, create_contract, update_contract, set_contract_line,
         remove_contract_line, submit_contract, activate_contract,
         register_signed_contract, delete_unused_contract, close_contract
<1>2. NothingStandsOnAir'
  BY <1>1 DEF Inv, NothingStandsOnAir, Certified, Standing, Confirmed, rest_of_contract
<1>3. SUFFICES contract' \in ContractRow
  BY <1>1, <1>2 DEF Inv, TypeOK, rest_of_contract
<1>4. contract \in ContractRow
  BY DEF Inv, TypeOK
<1>5. contract.lines \in Lines(Nat) /\ contract.value \in Nat
  BY <1>4 DEF ContractRow
<1>6. ASSUME NEW lines \in Lines(Nat)
      PROVE  [contract EXCEPT !.lines = lines] \in ContractRow
  BY <1>4, <1>6 DEF ContractRow
<1>7. ASSUME NEW status \in {"draft", "submitted", "active", "ended", "cancelled"}
      PROVE  [contract EXCEPT !.status = status] \in ContractRow
  BY <1>4 DEF ContractRow
<1>8. NoContract \in ContractRow
  BY NoLinesTyped DEF NoContract, ContractRow
<1>9. ASSUME NEW value \in Values, NEW entitlement \in Entitlements
      PROVE  /\ create_contract(value, entitlement) => contract' \in ContractRow
             /\ update_contract(value, entitlement) => contract' \in ContractRow
  <2>1. value \in Nat /\ entitlement \in Nat
    BY ChainAssumption
  <2>2. [NoContract EXCEPT !.status = "draft", !.value = value,
                           !.entitlement = entitlement] \in ContractRow
    BY <1>8, <2>1 DEF ContractRow
  <2>3. [contract EXCEPT !.value = value, !.entitlement = entitlement] \in ContractRow
    BY <1>4, <2>1 DEF ContractRow
  <2> QED
    BY <2>2, <2>3 DEF create_contract, update_contract
<1>10. ASSUME NEW c \in Codes
       PROVE  /\ remove_contract_line(c) => contract' \in ContractRow
              /\ \A amount \in Values :
                    set_contract_line(c, amount) => contract' \in ContractRow
  <2>1. \A amount \in Values : Put(contract.lines, c, amount) \in Lines(Nat)
    BY <1>5, PutLines, ChainAssumption
  <2>2. Restrict(contract.lines, DOMAIN contract.lines \ {c}) \in Lines(Nat)
    BY <1>5, RestrictLines
  <2> QED
    BY <1>6, <2>1, <2>2 DEF remove_contract_line, set_contract_line
<1>11. ASSUME submit_contract \/ activate_contract
       PROVE  contract' \in ContractRow
  BY <1>7, <1>11 DEF submit_contract, activate_contract
<1>12. CASE register_signed_contract
  <2> DEFINE lines == IF Reconciled /\ contract.lines # NoLines THEN contract.lines
                      ELSE Put(NoLines, OwnCode, contract.value)
  <2>1. lines \in Lines(Nat)
    BY <1>5, PutLines, NoLinesTyped, ChainAssumption
  <2>2. contract' = [contract EXCEPT !.status = "active", !.lines = lines]
    BY <1>12 DEF register_signed_contract
  <2> HIDE DEF lines
  <2> QED
    BY <1>4, <2>1, <2>2 DEF ContractRow
<1>13. CASE delete_unused_contract
  BY <1>7, <1>8, <1>13 DEF delete_unused_contract
<1>14. ASSUME NEW to \in {"ended", "cancelled"}, close_contract(to)
       PROVE  contract' \in ContractRow
  BY <1>7, <1>14 DEF close_contract
<1> QED
  BY <1>9, <1>10, <1>11, <1>12, <1>13, <1>14 DEF ContractNext

-----------------------------------------------------------------------------
(* Variations *)

LEMMA VariationStep ==
    ASSUME Inv, VariationNext
    PROVE  Inv'
<1>1. UNCHANGED <<contract, certificate, invoice, payment, evidencing>>
  BY DEF VariationNext, create_variation, delete_draft_variation, submit_variation,
         approve_variation, refuse_variation, remove_variation_line, set_variation_line,
         ChangeVariation
<1>2. NothingStandsOnAir'
  BY <1>1 DEF Inv, NothingStandsOnAir, Certified, Standing, Confirmed
<1>3. variation \in [Variations -> VariationRow]
  BY DEF Inv, TypeOK
<1>4. ASSUME NEW v \in Variations, NEW row \in VariationRow, ChangeVariation(v, row)
      PROVE  Inv'
  BY <1>1, <1>2, <1>3, <1>4 DEF ChangeVariation, Inv, TypeOK
<1>5. PICK v \in Variations :
        \/ create_variation(v) \/ delete_draft_variation(v) \/ submit_variation(v)
        \/ approve_variation(v) \/ refuse_variation(v)
        \/ \E c \in Codes :
              \/ remove_variation_line(v, c)
              \/ \E delta \in Deltas : set_variation_line(v, c, delta)
  BY DEF VariationNext
<1>6. \A status \in {"draft", "closed"} : Variation(status) \in VariationRow
  BY NoLinesTyped DEF Variation, VariationRow
<1>7. \A status \in {"submitted", "approved"} :
        [variation[v] EXCEPT !.status = status] \in VariationRow
  BY <1>3 DEF VariationRow
<1>8. variation[v].lines \in Lines(Deltas)
  BY <1>3 DEF VariationRow
<1>9. ASSUME NEW lines \in Lines(Deltas)
      PROVE  [variation[v] EXCEPT !.lines = lines] \in VariationRow
  BY <1>3 DEF VariationRow
<1>10. ASSUME NEW c \in Codes, remove_variation_line(v, c) PROVE Inv'
  <2>1. Restrict(variation[v].lines, DOMAIN variation[v].lines \ {c}) \in Lines(Deltas)
    BY <1>8, RestrictLines
  <2> QED
    BY <1>4, <1>9, <1>10, <2>1 DEF remove_variation_line
<1>11. ASSUME NEW c \in Codes, NEW delta \in Deltas, set_variation_line(v, c, delta)
       PROVE  Inv'
  <2>1. Put(variation[v].lines, c, delta) \in Lines(Deltas)
    BY <1>8, PutLines
  <2> QED
    BY <1>4, <1>9, <1>11, <2>1 DEF set_variation_line
<1> QED
  BY <1>4, <1>5, <1>6, <1>7, <1>10, <1>11 DEF create_variation, delete_draft_variation,
     submit_variation, approve_variation, refuse_variation

-----------------------------------------------------------------------------
(* Certificates *)

\* A certificate may change that carries no claim and no milestone.
LEMMA CertificateRowStep ==
    ASSUME Inv, NEW k \in Certificates, NEW row \in CertificateRow,
           ChangeCertificate(k, row),
           \/ k \notin Certified
           \/ k \notin evidencing /\ \A i \in Standing : invoice[i].certificate # k
    PROVE  Inv'
<1>1. /\ certificate' \in [Certificates -> CertificateRow]
      /\ \A j \in Certificates \ {k} : certificate'[j] = certificate[j]
      /\ UNCHANGED <<contract, variation, invoice, payment, evidencing>>
  BY DEF ChangeCertificate, Inv, TypeOK
<1>2. Standing' = Standing /\ Confirmed' = Confirmed
  BY <1>1 DEF Standing, Confirmed
<1>3. Certified \ {k} \subseteq Certified'
  BY <1>1 DEF Certified
<1>4. 0 # k
  BY DEF Certificates
<1>5. evidencing' \subseteq Certified'
  BY <1>1, <1>3 DEF Inv, NothingStandsOnAir
<1>6. \A i \in Standing' : invoice'[i].certificate \in Certified' \cup {0}
  BY <1>1, <1>2, <1>3, <1>4 DEF Inv, NothingStandsOnAir
<1> QED
  BY <1>1, <1>2, <1>5, <1>6 DEF Inv, TypeOK, NothingStandsOnAir

LEMMA CertificateStep ==
    ASSUME Inv, CertificateNext
    PROVE  Inv'
<1>1. certificate \in [Certificates -> CertificateRow]
  BY DEF Inv, TypeOK
<1>2. PICK k \in Certificates :
        \/ \E rel \in Releases, rec \in Recoveries : create_certificate(k, rel, rec)
        \/ \E c \in Codes, work \in Works : set_certificate_line(k, c, work)
        \/ delete_draft_certificate(k) \/ submit_certificate(k) \/ certify_certificate(k)
        \/ reject_certificate(k) \/ reverse_certificate(k) \/ certify_milestone(k)
  BY DEF CertificateNext
<1>3. \A status \in {"draft", "closed"} : Certificate(status) \in CertificateRow
  BY NoLinesTyped DEF Certificate, CertificateRow
<1>4. \A status \in {"submitted", "certified"} :
        [certificate[k] EXCEPT !.status = status] \in CertificateRow
  BY <1>1 DEF CertificateRow
<1>5. ASSUME certificate[k].status # "certified" PROVE k \notin Certified
  BY <1>5 DEF Certified
<1>6. ASSUME NEW rel \in Releases, NEW rec \in Recoveries, create_certificate(k, rel, rec)
      PROVE  Inv'
  <2>1. [Certificate("draft") EXCEPT !.release = rel, !.recovery = rec] \in CertificateRow
    BY <1>3, ChainAssumption DEF CertificateRow
  <2>2. certificate[k].status = "none"
    BY <1>1, <1>6 DEF create_certificate, NextRow, Certificates
  <2> QED
    BY <1>5, <1>6, <2>1, <2>2, CertificateRowStep DEF create_certificate
<1>7. ASSUME NEW c \in Codes, NEW work \in Works, set_certificate_line(k, c, work)
      PROVE  Inv'
  <2>1. Put(certificate[k].lines, c, work) \in Lines(Works)
    BY <1>1, PutLines DEF CertificateRow
  <2>2. [certificate[k] EXCEPT !.lines = Put(certificate[k].lines, c, work)]
          \in CertificateRow
    BY <1>1, <2>1 DEF CertificateRow
  <2> QED
    BY <1>5, <1>7, <2>2, CertificateRowStep DEF set_certificate_line
<1>8. ASSUME \/ delete_draft_certificate(k) \/ submit_certificate(k)
             \/ certify_certificate(k) \/ reject_certificate(k)
      PROVE  Inv'
  BY <1>3, <1>4, <1>5, <1>8, CertificateRowStep DEF delete_draft_certificate,
     submit_certificate, certify_certificate, reject_certificate
<1>9. CASE reverse_certificate(k)
  BY <1>3, <1>9, CertificateRowStep DEF reverse_certificate
<1>10. CASE certify_milestone(k)
  BY <1>10 DEF certify_milestone, Inv, TypeOK, NothingStandsOnAir, Certified, Standing,
               Confirmed
<1> QED
  BY <1>2, <1>6, <1>7, <1>8, <1>9, <1>10

-----------------------------------------------------------------------------
(* Invoices *)

\* A claim comes to stand only on a certificate that does, and stops standing
\* only when no confirmed cash rests on it.
LEMMA InvoiceRowStep ==
    ASSUME Inv, NEW i \in Invoices, NEW row \in InvoiceRow, ChangeInvoice(i, row),
           row.status \in {"approved", "disputed"} => row.certificate \in Certified \cup {0},
           row.status \notin {"approved", "disputed"} /\ i \in Standing
               => \A p \in Confirmed : i \notin DOMAIN payment[p].allocations
    PROVE  Inv'
<1>1. /\ invoice' \in [Invoices -> InvoiceRow] /\ invoice'[i] = row
      /\ \A j \in Invoices \ {i} : invoice'[j] = invoice[j]
      /\ UNCHANGED <<contract, variation, certificate, payment, evidencing>>
  BY DEF ChangeInvoice, Inv, TypeOK
<1>2. Certified' = Certified /\ Confirmed' = Confirmed
  BY <1>1 DEF Certified, Confirmed
<1>3. /\ Standing \ {i} \subseteq Standing' /\ Standing' \subseteq Standing \cup {i}
      /\ i \in Standing' <=> row.status \in {"approved", "disputed"}
      /\ Standing \subseteq Invoices
  BY <1>1 DEF Standing
<1>4. ASSUME NEW j \in Standing' PROVE invoice'[j].certificate \in Certified \cup {0}
  BY <1>1, <1>3 DEF Inv, NothingStandsOnAir
<1>5. \A p \in Confirmed : DOMAIN payment[p].allocations \subseteq Standing'
  BY <1>1, <1>3 DEF Inv, NothingStandsOnAir
<1> QED
  BY <1>1, <1>2, <1>4, <1>5 DEF Inv, TypeOK, NothingStandsOnAir

LEMMA InvoiceStep ==
    ASSUME Inv, InvoiceNext
    PROVE  Inv'
<1>1. invoice \in [Invoices -> InvoiceRow]
  BY DEF Inv, TypeOK
<1>2. PICK i \in Invoices :
        \/ \E k \in {0} \cup Certificates, amount \in Claims : record_invoice(i, k, amount)
        \/ approve_invoice(i) \/ dispute_invoice(i) \/ resolve_invoice_dispute(i)
        \/ void_invoice(i)
  BY DEF InvoiceNext
<1>3. ASSUME NEW status \in {"approved", "disputed"}
      PROVE  LET row == [invoice[i] EXCEPT !.status = status] IN
             /\ row \in InvoiceRow /\ row.status = status
             /\ row.certificate = invoice[i].certificate
  BY <1>1 DEF InvoiceRow
<1>4. ASSUME NEW k \in {0} \cup Certificates, NEW amount \in Claims,
             record_invoice(i, k, amount)
      PROVE  Inv'
  <2>1. invoice[i].status = "none"
    BY <1>1, <1>4 DEF record_invoice, NextRow, Invoices
  <2>2. i \notin Standing
    BY <2>1 DEF Standing
  <2>3. [status |-> "recorded", certificate |-> k, amount |-> amount] \in InvoiceRow
    BY ChainAssumption DEF InvoiceRow
  <2> QED
    BY <1>4, <2>2, <2>3, InvoiceRowStep DEF record_invoice
<1>5. CASE approve_invoice(i)
  BY <1>3, <1>5, InvoiceRowStep DEF approve_invoice
<1>6. CASE dispute_invoice(i) \/ resolve_invoice_dispute(i)
  <2>1. i \in Standing
    BY <1>6 DEF dispute_invoice, resolve_invoice_dispute, Standing
  <2>2. invoice[i].certificate \in Certified \cup {0}
    BY <2>1 DEF Inv, NothingStandsOnAir
  <2> QED
    BY <1>3, <1>6, <2>2, InvoiceRowStep DEF dispute_invoice, resolve_invoice_dispute
<1>7. CASE void_invoice(i)
  <2>1. LET row == [invoice[i] EXCEPT !.status = "closed", !.amount = 0] IN
        row \in InvoiceRow /\ row.status = "closed"
    BY <1>1 DEF InvoiceRow
  <2> QED
    BY <1>7, <2>1, InvoiceRowStep DEF void_invoice
<1> QED
  BY <1>2, <1>4, <1>5, <1>6, <1>7

-----------------------------------------------------------------------------
(* Payments *)

LEMMA PaymentRowStep ==
    ASSUME Inv, NEW p \in Payments, NEW row \in PaymentRow, ChangePayment(p, row),
           row.status = "confirmed" => DOMAIN row.allocations \subseteq Standing
    PROVE  Inv'
<1>1. /\ payment' \in [Payments -> PaymentRow] /\ payment'[p] = row
      /\ \A q \in Payments \ {p} : payment'[q] = payment[q]
      /\ UNCHANGED <<contract, variation, certificate, invoice, evidencing>>
  BY DEF ChangePayment, Inv, TypeOK
<1>2. Certified' = Certified /\ Standing' = Standing
  BY <1>1 DEF Certified, Standing
<1>3. \A q \in Confirmed' : DOMAIN payment'[q].allocations \subseteq Standing
  BY <1>1 DEF Confirmed, Inv, NothingStandsOnAir
<1> QED
  BY <1>1, <1>2, <1>3 DEF Inv, TypeOK, NothingStandsOnAir

LEMMA PaymentStep ==
    ASSUME Inv, PaymentNext
    PROVE  Inv'
<1>1. payment \in [Payments -> PaymentRow]
  BY DEF Inv, TypeOK
<1>2. PICK p \in Payments :
        \/ \E amount \in Sums :
              \/ record_payment(p, amount)
              \/ \E settled \in {{}} \cup {{i} : i \in Invoices} :
                    record_direct_payment(p, amount, settled)
              \/ \E i \in Invoices : allocate_payment(p, i, amount)
        \/ \E i \in Invoices : remove_allocation(p, i)
        \/ confirm_payment(p) \/ reverse_payment(p)
  BY DEF PaymentNext
<1>3. \A status \in {"recorded", "closed"} : Payment(status) \in PaymentRow
  BY NoLinesTyped DEF Payment, PaymentRow
<1>4. payment[p].allocations \in Allocations
  BY <1>1 DEF PaymentRow
<1>5. ASSUME NEW lines \in Allocations
      PROVE  LET row == [payment[p] EXCEPT !.allocations = lines] IN
             row \in PaymentRow /\ row.status = payment[p].status
  BY <1>1 DEF PaymentRow
<1>6. ASSUME NEW amount \in Sums, record_payment(p, amount) PROVE Inv'
  <2>1. LET row == [Payment("recorded") EXCEPT !.amount = amount] IN
        row \in PaymentRow /\ row.status = "recorded"
    BY <1>3, ChainAssumption DEF Payment, PaymentRow
  <2> QED
    BY <1>6, <2>1, PaymentRowStep DEF record_payment
<1>7. ASSUME NEW amount \in Sums, NEW settled \in {{}} \cup {{i} : i \in Invoices},
             record_direct_payment(p, amount, settled)
      PROVE  Inv'
  <2> DEFINE lines == [i \in settled |-> amount]
             row == [status |-> "confirmed", direct |-> TRUE, amount |-> amount,
                     allocations |-> lines]
  <2>1. settled \in SUBSET Invoices /\ lines \in [settled -> Sums]
    OBVIOUS
  <2>2. lines \in Allocations
    BY <2>1 DEF Allocations
  <2>3. settled \subseteq Standing
    BY <1>7, <2>1 DEF record_direct_payment, Standing
  <2>4. row \in PaymentRow /\ DOMAIN row.allocations \subseteq Standing
    BY <2>2, <2>3, ChainAssumption DEF PaymentRow
  <2>5. ChangePayment(p, row)
    BY <1>7 DEF record_direct_payment
  <2> QED
    BY <2>4, <2>5, PaymentRowStep
<1>8. ASSUME NEW amount \in Sums, NEW i \in Invoices, allocate_payment(p, i, amount)
      PROVE  Inv'
  <2>1. Put(payment[p].allocations, i, amount) \in Allocations
    BY <1>4, PutTyped DEF Allocations
  <2> QED
    BY <1>5, <1>8, <2>1, PaymentRowStep DEF allocate_payment
<1>9. ASSUME NEW i \in Invoices, remove_allocation(p, i) PROVE Inv'
  <2>1. Restrict(payment[p].allocations, DOMAIN payment[p].allocations \ {i}) \in Allocations
    BY <1>4, RestrictTyped DEF Allocations
  <2> QED
    BY <1>5, <1>9, <2>1, PaymentRowStep DEF remove_allocation
<1>10. CASE confirm_payment(p)
  <2>1. LET row == [payment[p] EXCEPT !.status = "confirmed"] IN
        row \in PaymentRow /\ row.allocations = payment[p].allocations
    BY <1>1 DEF PaymentRow
  <2>2. DOMAIN payment[p].allocations \subseteq Invoices
    BY <1>4 DEF Allocations
  <2>3. DOMAIN payment[p].allocations \subseteq Standing
    BY <1>10, <2>2 DEF confirm_payment, Standing
  <2> QED
    BY <1>10, <2>1, <2>3, PaymentRowStep DEF confirm_payment
<1>11. CASE reverse_payment(p)
  <2>1. Payment("closed").status # "confirmed"
    BY DEF Payment
  <2> QED
    BY <1>3, <1>11, <2>1, PaymentRowStep DEF reverse_payment
<1> QED
  BY <1>2, <1>6, <1>7, <1>8, <1>9, <1>10, <1>11

-----------------------------------------------------------------------------
(* The specification *)

LEMMA InitEstablishes ==
    ASSUME Init
    PROVE  Inv
<1>1. TypeOK
  BY NoLinesTyped DEF Init, TypeOK, NoContract, ContractRow, Variation, VariationRow,
     Certificate, CertificateRow, Invoice, InvoiceRow, Payment, PaymentRow
<1>2. NothingStandsOnAir
  BY DEF Init, NothingStandsOnAir, Certified, Standing, Confirmed, Invoice, Payment
<1> QED
  BY <1>1, <1>2 DEF Inv

\* Every state is well typed, and no document stands on one that does not.
THEOREM AlwaysInv == Spec => []Inv
<1>1. Init => Inv
  BY InitEstablishes
<1>2. Inv /\ [Next]_vars => Inv'
  <2>1. Inv /\ Next => Inv'
    BY ContractStep, VariationStep, CertificateStep, InvoiceStep, PaymentStep DEF Next
  <2>2. Inv /\ UNCHANGED vars => Inv'
    BY DEF vars, Inv, TypeOK, NothingStandsOnAir, Certified, Standing, Confirmed
  <2> QED
    BY <2>1, <2>2
<1> QED
  BY <1>1, <1>2, PTL DEF Spec

\* Every table keeps its columns' types.
THEOREM TypeCorrect == Spec => []TypeOK
<1>1. Inv => TypeOK
  BY DEF Inv
<1> QED
  BY <1>1, AlwaysInv, PTL

\* However many certificates, invoices and payments a contract has, none that
\* stands rests on one that was taken back.
THEOREM StandsOnSomething == Spec => []NothingStandsOnAir
<1>1. Inv => NothingStandsOnAir
  BY DEF Inv
<1> QED
  BY <1>1, AlwaysInv, PTL

-----------------------------------------------------------------------------
(* What the sums add up *)

LEMMA LinesCounted ==
    ASSUME NEW S, NEW lines \in Lines(S), NEW c
    PROVE  /\ S \subseteq Int => At(lines, c) \in Int /\ TotalOf(lines) \in Int
           /\ S \subseteq Nat => At(lines, c) \in Nat /\ TotalOf(lines) \in Nat
<1>1. PICK D \in SUBSET Codes : lines \in [D -> S]
  BY DEF Lines
<1>2. IsFiniteSet(D)
  BY FS_Subset, ChainAssumption
<1>3. DOMAIN lines = D /\ \A x \in D : lines[x] \in S
  BY <1>1
<1>4. ASSUME S \subseteq Int PROVE At(lines, c) \in Int /\ TotalOf(lines) \in Int
  <2>1. \A x \in D : lines[x] \in Int
    BY <1>3, <1>4
  <2>2. At(lines, c) \in Int
    BY <1>3, <2>1 DEF At
  <2> QED
    BY <1>2, <1>3, <2>1, <2>2, TableInt DEF TotalOf
<1>5. ASSUME S \subseteq Nat PROVE At(lines, c) \in Nat /\ TotalOf(lines) \in Nat
  <2>1. \A x \in D : lines[x] \in Nat
    BY <1>3, <1>5
  <2>2. At(lines, c) \in Nat
    BY <1>3, <2>1 DEF At
  <2> QED
    BY <1>2, <1>3, <2>1, <2>2, TableNat DEF TotalOf
<1> QED
  BY <1>4, <1>5

LEMMA SettlementCounted ==
    ASSUME NEW lines \in Allocations, NEW i
    PROVE  At(lines, i) \in Nat
<1>1. PICK D \in SUBSET Invoices : lines \in [D -> Sums]
  BY DEF Allocations
<1> QED
  BY <1>1, ChainAssumption DEF At

LEMMA RowsFinite ==
    /\ IsFiniteSet(Variations) /\ IsFiniteSet(Certificates)
    /\ IsFiniteSet(Invoices) /\ IsFiniteSet(Payments)
<1>1. \A n \in Nat : IsFiniteSet(1..n)
  BY FS_Interval
<1> QED
  BY <1>1, ChainAssumption DEF Variations, Certificates, Invoices, Payments

LEMMA StandingFinite ==
    /\ IsFiniteSet(Approved) /\ Approved \subseteq Variations
    /\ IsFiniteSet(Certified) /\ Certified \subseteq Certificates
    /\ IsFiniteSet(Standing) /\ Standing \subseteq Invoices
    /\ IsFiniteSet(Confirmed) /\ Confirmed \subseteq Payments
    /\ IsFiniteSet(Advances) /\ Advances \subseteq Invoices
    /\ IsFiniteSet(Advances \cap Standing)
    /\ \A k : IsFiniteSet({i \in Standing : invoice[i].certificate = k})
<1>1. /\ Approved \subseteq Variations /\ Certified \subseteq Certificates
      /\ Standing \subseteq Invoices /\ Confirmed \subseteq Payments
      /\ Advances \subseteq Invoices /\ Advances \cap Standing \subseteq Invoices
      /\ \A k : {i \in Standing : invoice[i].certificate = k} \subseteq Invoices
  BY DEF Approved, Certified, Standing, Confirmed, Advances
<1>2. \A T, S : IsFiniteSet(S) /\ T \subseteq S => IsFiniteSet(T)
  BY FS_Subset
<1> QED
  BY <1>1, <1>2, RowsFinite

LEMMA Rounding ==
    ASSUME NEW work \in Nat
    PROVE  (2 * work * RateNum + RateDen) \div (2 * RateDen) \in Int
<1>1. RateNum \in Nat /\ RateDen \in Nat \ {0}
  BY ChainAssumption
<1>2. PICK n \in Nat : n = RateNum
  BY <1>1
<1>3. PICK d \in Nat \ {0} : d = RateDen
  BY <1>1
<1>4. 2 * work * n \in Nat
  OBVIOUS
<1>5. PICK a \in Nat : a = 2 * work * n + d
  BY <1>4
<1>6. PICK b \in Nat \ {0} : b = 2 * d
  OBVIOUS
<1>7. a \div b \in Int
  OBVIOUS
<1> QED
  BY <1>2, <1>3, <1>5, <1>6, <1>7

\* What each certificate, variation and payment counts for.
LEMMA RowsCounted ==
    ASSUME TypeOK
    PROVE  /\ \A c : At(contract.lines, c) \in Nat
           /\ \A v \in Variations : \A c : At(variation[v].lines, c) \in Int
           /\ \A k \in Certificates : \A c : At(certificate[k].lines, c) \in Nat
           /\ \A k \in Certificates :
                 /\ TotalOf(certificate[k].lines) \in Nat /\ Held(k) \in Int
                 /\ certificate[k].release \in Nat /\ certificate[k].recovery \in Nat
                 /\ NetDue(k) \in Int
           /\ \A i \in Invoices : invoice[i].amount \in Nat
           /\ \A p \in Payments : \A i : At(payment[p].allocations, i) \in Nat
<1>1. Nat \subseteq Int /\ Deltas \subseteq Int /\ Works \subseteq Nat /\ Works \subseteq Int
  BY ChainAssumption
<1>2. \A c : At(contract.lines, c) \in Nat
  BY <1>1, LinesCounted DEF TypeOK, ContractRow
<1>3. \A v \in Variations : \A c : At(variation[v].lines, c) \in Int
  BY <1>1, LinesCounted DEF TypeOK, VariationRow
<1>4. \A k \in Certificates : \A c : /\ At(certificate[k].lines, c) \in Nat
                                 /\ TotalOf(certificate[k].lines) \in Nat
  BY <1>1, LinesCounted DEF TypeOK, CertificateRow
<1>5. \A k \in Certificates : certificate[k].release \in Nat /\ certificate[k].recovery \in Nat
  BY DEF TypeOK, CertificateRow
<1>6. \A k \in Certificates : Held(k) \in Int
  BY <1>4, Rounding DEF Held
<1>7. \A k \in Certificates : NetDue(k) \in Int
  BY <1>4, <1>5, <1>6 DEF NetDue
<1>8. \A i \in Invoices : invoice[i].amount \in Nat
  BY DEF TypeOK, InvoiceRow
<1>9. \A p \in Payments : \A i : At(payment[p].allocations, i) \in Nat
  BY SettlementCounted DEF TypeOK, PaymentRow
<1> QED
  BY <1>2, <1>3, <1>4, <1>5, <1>6, <1>7, <1>8, <1>9

\* And what they add up to.
LEMMA SumsCounted ==
    ASSUME TypeOK
    PROVE  /\ \A c : Committed(c) \in Int /\ CertifiedWork(c) \in Nat
           /\ \A k : ClaimsOn(k) \in Nat
           /\ \A i : Paid(i) \in Nat
           /\ AdvancePaid \in Nat /\ AdvanceRecovered \in Nat
           /\ \A p \in Payments : AdvanceOf(p) \in Nat
<1> USE StandingFinite
<1>1. ASSUME NEW c PROVE Committed(c) \in Int /\ CertifiedWork(c) \in Nat
  <2>1. PICK g : g = [v \in Approved |-> At(variation[v].lines, c)]
    OBVIOUS
  <2>2. SumFunction(g) \in Int
    BY <2>1, TableInt, RowsCounted
  <2>3. PICK h : h = [k \in Certified |-> At(certificate[k].lines, c)]
    OBVIOUS
  <2>4. SumFunction(h) \in Nat
    BY <2>3, TableNat, RowsCounted
  <2> QED
    BY <2>1, <2>2, <2>3, <2>4, RowsCounted DEF Committed, CertifiedWork
<1>2. ASSUME NEW k PROVE ClaimsOn(k) \in Nat
  <2>1. PICK g : g = [i \in {j \in Standing : invoice[j].certificate = k} |-> invoice[i].amount]
    OBVIOUS
  <2>2. SumFunction(g) \in Nat
    BY <2>1, TableNat, RowsCounted
  <2> QED
    BY <2>1, <2>2 DEF ClaimsOn
<1>3. ASSUME NEW i PROVE Paid(i) \in Nat
  <2>1. PICK g : g = [p \in Confirmed |-> At(payment[p].allocations, i)]
    OBVIOUS
  <2>2. SumFunction(g) \in Nat
    BY <2>1, TableNat, RowsCounted
  <2> QED
    BY <2>1, <2>2 DEF Paid
<1>4. AdvancePaid \in Nat
  <2>1. PICK g : g = [i \in Advances \cap Standing |-> Paid(i)]
    OBVIOUS
  <2>2. SumFunction(g) \in Nat
    BY <2>1, <1>3, TableNat
  <2> QED
    BY <2>1, <2>2 DEF AdvancePaid
<1>5. AdvanceRecovered \in Nat
  <2>1. PICK g : g = [k \in Certified |-> certificate[k].recovery]
    OBVIOUS
  <2>2. SumFunction(g) \in Nat
    BY <2>1, TableNat, RowsCounted
  <2> QED
    BY <2>1, <2>2 DEF AdvanceRecovered
<1>6. ASSUME NEW p \in Payments PROVE AdvanceOf(p) \in Nat
  <2>1. PICK g : g = [i \in Advances |-> At(payment[p].allocations, i)]
    OBVIOUS
  <2>2. SumFunction(g) \in Nat
    BY <2>1, TableNat, RowsCounted
  <2> QED
    BY <2>1, <2>2 DEF AdvanceOf
<1> QED
  BY <1>1, <1>2, <1>3, <1>4, <1>5, <1>6

\* No variation or certificate is drawn up before the contract is signed.
SignedFirst ==
    Committing \/ /\ \A v \in Variations : variation[v].status = "none"
                  /\ \A k \in Certificates : certificate[k].status = "none"

MoneyInv == Inv /\ MoneyNests /\ AdvanceRecoveredWithinPaid /\ SignedFirst

-----------------------------------------------------------------------------
(* Sums whose rows stay as they are *)

CommitmentStays ==
    /\ contract'.lines = contract.lines
    /\ Approved' = Approved /\ \A v \in Approved : variation'[v] = variation[v]

CertificatesStay ==
    Certified' = Certified /\ \A k \in Certified : certificate'[k] = certificate[k]

ClaimsStay ==
    /\ Standing' = Standing
    /\ \A i \in Standing : /\ invoice'[i].certificate = invoice[i].certificate
                           /\ invoice'[i].amount = invoice[i].amount

CashStays == Confirmed' = Confirmed /\ \A p \in Confirmed : payment'[p] = payment[p]

LEMMA CommitmentKept ==
    ASSUME CommitmentStays
    PROVE  \A c : Committed(c)' = Committed(c)
<1>1. ASSUME NEW c PROVE [v \in Approved' |-> At(variation'[v].lines, c)]
                           = [v \in Approved |-> At(variation[v].lines, c)]
  BY DEF CommitmentStays
<1> QED
  BY <1>1 DEF Committed, CommitmentStays

LEMMA WorkKept ==
    ASSUME CertificatesStay
    PROVE  /\ \A c : CertifiedWork(c)' = CertifiedWork(c)
           /\ \A k \in Certified : NetDue(k)' = NetDue(k)
           /\ AdvanceRecovered' = AdvanceRecovered
<1>1. ASSUME NEW c PROVE [k \in Certified' |-> At(certificate'[k].lines, c)]
                           = [k \in Certified |-> At(certificate[k].lines, c)]
  BY DEF CertificatesStay
<1>2. [k \in Certified' |-> certificate'[k].recovery]
        = [k \in Certified |-> certificate[k].recovery]
  BY DEF CertificatesStay
<1>3. \A k \in Certified : NetDue(k)' = NetDue(k)
  BY DEF CertificatesStay, NetDue, Held
<1> QED
  BY <1>1, <1>2, <1>3 DEF CertifiedWork, AdvanceRecovered

LEMMA ClaimsKept ==
    ASSUME ClaimsStay
    PROVE  /\ \A k : ClaimsOn(k)' = ClaimsOn(k)
           /\ (Advances \cap Standing)' = Advances \cap Standing
<1>1. ASSUME NEW k PROVE ClaimsOn(k)' = ClaimsOn(k)
  <2>1. {j \in Standing' : invoice'[j].certificate = k} = {j \in Standing : invoice[j].certificate = k}
    BY DEF ClaimsStay
  <2>2. [i \in {j \in Standing' : invoice'[j].certificate = k} |-> invoice'[i].amount]
          = [i \in {j \in Standing : invoice[j].certificate = k} |-> invoice[i].amount]
    BY <2>1 DEF ClaimsStay
  <2> QED
    BY <2>2 DEF ClaimsOn
<1>2. (Advances \cap Standing)' = Advances \cap Standing
  BY DEF ClaimsStay, Advances, Standing
<1> QED
  BY <1>1, <1>2

LEMMA CashKept ==
    ASSUME CashStays
    PROVE  \A i : Paid(i)' = Paid(i)
<1>1. ASSUME NEW i PROVE [p \in Confirmed' |-> At(payment'[p].allocations, i)]
                           = [p \in Confirmed |-> At(payment[p].allocations, i)]
  BY DEF CashStays
<1> QED
  BY <1>1 DEF Paid

LEMMA AdvanceKept ==
    ASSUME ClaimsStay, CashStays
    PROVE  AdvancePaid' = AdvancePaid
<1>1. [i \in (Advances \cap Standing)' |-> Paid(i)'] = [i \in Advances \cap Standing |-> Paid(i)]
  BY ClaimsKept, CashKept
<1> QED
  BY <1>1 DEF AdvancePaid

\* Cash rests on the standing claims only.
LEMMA UnpaidOtherwise ==
    ASSUME Inv
    PROVE  \A i : i \notin Standing => Paid(i) = 0
<1> SUFFICES ASSUME NEW i, i \notin Standing PROVE Paid(i) = 0
  OBVIOUS
<1>1. PICK g : g = [p \in Confirmed |-> At(payment[p].allocations, i)]
  OBVIOUS
<1>2. \A p \in Confirmed : g[p] = 0
  BY <1>1 DEF Inv, NothingStandsOnAir, At
<1>3. SumFunction(g) = 0
  BY <1>1, <1>2, TableZero, StandingFinite
<1> QED
  BY <1>1, <1>3 DEF Paid

\* Nothing is claimed on a certificate that does not stand.
LEMMA UnclaimedOtherwise ==
    ASSUME Inv
    PROVE  \A k \in Certificates \ Certified : ClaimsOn(k) = 0
<1> SUFFICES ASSUME NEW k \in Certificates \ Certified PROVE ClaimsOn(k) = 0
  OBVIOUS
<1>1. {i \in Standing : invoice[i].certificate = k} = {}
  BY DEF Inv, NothingStandsOnAir, Certificates
<1>2. PICK g : g = [i \in {j \in Standing : invoice[j].certificate = k} |-> invoice[i].amount]
  OBVIOUS
<1>3. SumFunction(g) = 0
  BY <1>1, <1>2, TableZero, FS_EmptySet
<1> QED
  BY <1>2, <1>3 DEF ClaimsOn

-----------------------------------------------------------------------------
(* The contract and its variations *)

LEMMA ContractMoney ==
    ASSUME MoneyInv, ContractNext
    PROVE  MoneyInv'
<1>1. Inv'
  BY ContractStep DEF MoneyInv
<1>2. UNCHANGED rest_of_contract
  BY DEF ContractNext, create_contract, update_contract, set_contract_line,
         remove_contract_line, submit_contract, activate_contract,
         register_signed_contract, delete_unused_contract, close_contract
<1>3. CertificatesStay /\ ClaimsStay /\ CashStays
  BY <1>2 DEF CertificatesStay, ClaimsStay, CashStays, rest_of_contract, Certified, Standing,
     Confirmed
<1>4. /\ \A i \in Standing' : Paid(i)' <= invoice'[i].amount
      /\ \A k \in Certified' : ClaimsOn(k)' <= NetDue(k)'
      /\ AdvanceRecoveredWithinPaid'
  BY <1>2, <1>3, WorkKept, ClaimsKept, CashKept, AdvanceKept
     DEF rest_of_contract, MoneyInv, MoneyNests, AdvanceRecoveredWithinPaid, ClaimsStay,
         CertificatesStay
<1>5. (\A c \in Codes : CertifiedWork(c)' <= Committed(c)') /\ SignedFirst'
  <2>1. CASE Committing /\ Linked
    <3>1. contract' = [contract EXCEPT !.status = "ended"]
      BY <2>1 DEF Committing, ContractNext, create_contract, update_contract,
         set_contract_line, remove_contract_line, submit_contract, activate_contract,
         register_signed_contract, delete_unused_contract, close_contract
    <3>2. contract'.lines = contract.lines /\ contract'.status = "ended"
      BY <3>1 DEF MoneyInv, Inv, TypeOK, ContractRow
    <3>3. CommitmentStays
      BY <1>2, <3>2 DEF CommitmentStays, rest_of_contract, Approved
    <3> QED
      BY <1>3, <3>2, <3>3, CommitmentKept, WorkKept DEF MoneyInv, MoneyNests, SignedFirst, Committing
  <2>2. CASE ~(Committing /\ Linked)
    <3>1. /\ \A v \in Variations : variation[v].status = "none"
          /\ \A k \in Certificates : certificate[k].status = "none"
      BY <2>2 DEF MoneyInv, SignedFirst, Linked
    <3>2. SignedFirst'
      BY <1>2, <3>1 DEF SignedFirst, rest_of_contract
    <3>3. Approved' = {} /\ Certified' = {}
      BY <1>2, <3>1 DEF rest_of_contract, Approved, Certified
    <3>4. ASSUME NEW c \in Codes PROVE CertifiedWork(c)' <= Committed(c)'
      <4>1. PICK g : g = [v \in Approved' |-> At(variation'[v].lines, c)]
        OBVIOUS
      <4>2. PICK h : h = [k \in Certified' |-> At(certificate'[k].lines, c)]
        OBVIOUS
      <4>3. DOMAIN g = {} /\ DOMAIN h = {}
        BY <3>3, <4>1, <4>2
      <4>4. SumFunction(g) = 0 /\ SumFunction(h) = 0
        BY <4>3, TableZero, FS_EmptySet
      <4>5. contract'.lines \in Lines(Nat)
        BY <1>1 DEF Inv, TypeOK, ContractRow
      <4>6. PICK a \in Nat : a = At(contract'.lines, c)
        BY <4>5, LinesCounted
      <4> QED
        BY <4>1, <4>2, <4>4, <4>6 DEF CertifiedWork, Committed
    <3> QED
      BY <3>2, <3>4
  <2> QED
    BY <2>1, <2>2
<1> QED
  BY <1>1, <1>4, <1>5 DEF MoneyInv, MoneyNests

LEMMA LargestOfTwo ==
    ASSUME NEW a \in Int, NEW b \in Int
    PROVE  Max({a, b}) >= a /\ Max({a, b}) >= b
<1>1. \E x \in {a, b} : \A y \in {a, b} : x >= y
  <2>1. CASE a >= b
    BY <2>1
  <2>2. CASE b >= a
    BY <2>2
  <2> QED
    BY <2>1, <2>2
<1>2. \A y \in {a, b} : Max({a, b}) >= y
  BY <1>1 DEF Max
<1> QED
  BY <1>2

LEMMA ApprovalMoney ==
    ASSUME MoneyInv, NEW v \in Variations, approve_variation(v)
    PROVE  \A c \in Codes : CertifiedWork(c)' <= Committed(c)'
<1>1. TypeOK
  BY DEF MoneyInv, Inv
<1>2. UNCHANGED <<contract, certificate, invoice, payment, evidencing>>
  BY DEF approve_variation, ChangeVariation
<1>3. variation' = [variation EXCEPT ![v].status = "approved"]
  BY DEF approve_variation, ChangeVariation
<1>4. /\ variation \in [Variations -> VariationRow]
      /\ variation'[v].status = "approved" /\ variation'[v].lines = variation[v].lines
      /\ \A w \in Variations \ {v} : variation'[w] = variation[w]
  BY <1>1, <1>3 DEF TypeOK, VariationRow
<1>5. v \notin Approved /\ Approved' = Approved \cup {v}
  BY <1>4 DEF Approved, approve_variation
<1>6. CertificatesStay
  BY <1>2 DEF CertificatesStay, Certified
<1> SUFFICES ASSUME NEW c \in Codes PROVE CertifiedWork(c)' <= Committed(c)'
  OBVIOUS
<1>7. CertifiedWork(c)' = CertifiedWork(c) /\ CertifiedWork(c) <= Committed(c)
  BY <1>6, WorkKept DEF MoneyInv, MoneyNests
<1>8. Committed(c)' = Committed(c) + At(variation[v].lines, c)
  <2>1. PICK g : g = [w \in Approved |-> At(variation[w].lines, c)]
    OBVIOUS
  <2>2. PICK h : h = [w \in Approved' |-> At(variation'[w].lines, c)]
    OBVIOUS
  <2>3. DOMAIN g = Approved /\ DOMAIN h = DOMAIN g \cup {v} /\ v \notin DOMAIN g
    BY <1>5, <2>1, <2>2
  <2>4. h[v] = At(variation[v].lines, c) /\ h[v] \in Int
    BY <1>1, <1>4, <1>5, <2>2, RowsCounted
  <2>5. \A y \in DOMAIN g : g[y] \in Int /\ h[y] = g[y]
    BY <1>1, <1>4, <1>5, <2>1, <2>2, StandingFinite, RowsCounted
  <2>6. SumFunction(h) = SumFunction(g) + h[v]
    BY <2>3, <2>4, <2>5, TableGrows, StandingFinite
  <2>7. SumFunction(g) \in Int
    BY <2>3, <2>5, TableInt, StandingFinite
  <2>8. At(contract.lines, c) \in Int
    BY <1>1, RowsCounted
  <2> QED
    BY <1>2, <2>1, <2>2, <2>4, <2>6, <2>7, <2>8 DEF Committed
<1>9. PICK a \in Int : a = At(variation[v].lines, c)
  BY <1>1, RowsCounted
<1>10. Committed(c) \in Int /\ CertifiedWork(c) \in Int
  BY <1>1, SumsCounted
<1>11. CASE a >= 0
  BY <1>7, <1>8, <1>9, <1>10, <1>11
<1>12. CASE a < 0
  <2>1. c \in DOMAIN variation[v].lines /\ a = variation[v].lines[c]
    BY <1>9, <1>12 DEF At
  <2>2. Committed(c) + a >= Max({0, CertifiedWork(c)})
    BY <1>12, <2>1 DEF approve_variation, FloorsHold
  <2>3. Max({0, CertifiedWork(c)}) >= CertifiedWork(c) /\ Max({0, CertifiedWork(c)}) \in Int
    <3>1. Max({0, CertifiedWork(c)}) >= CertifiedWork(c)
      BY <1>10, LargestOfTwo
    <3>2. Max({0, CertifiedWork(c)}) \in {0, CertifiedWork(c)}
      BY <1>10, LargestOfTwo DEF Max
    <3> QED
      BY <1>10, <3>1, <3>2
  <2> QED
    BY <1>7, <1>8, <1>9, <1>10, <2>2, <2>3
<1> QED
  BY <1>11, <1>12

LEMMA VariationMoney ==
    ASSUME MoneyInv, VariationNext
    PROVE  MoneyInv'
<1>1. Inv'
  BY VariationStep DEF MoneyInv
<1>2. UNCHANGED <<contract, certificate, invoice, payment, evidencing>>
  BY DEF VariationNext, create_variation, delete_draft_variation, submit_variation,
         approve_variation, refuse_variation, remove_variation_line, set_variation_line,
         ChangeVariation
<1>3. CertificatesStay /\ ClaimsStay /\ CashStays
  BY <1>2 DEF CertificatesStay, ClaimsStay, CashStays, Certified, Standing, Confirmed
<1>4. /\ \A i \in Standing' : Paid(i)' <= invoice'[i].amount
      /\ \A k \in Certified' : ClaimsOn(k)' <= NetDue(k)'
      /\ AdvanceRecoveredWithinPaid'
  BY <1>2, <1>3, WorkKept, ClaimsKept, CashKept, AdvanceKept
     DEF MoneyInv, MoneyNests, AdvanceRecoveredWithinPaid, ClaimsStay, CertificatesStay
<1>5. PICK v \in Variations :
        \/ create_variation(v) \/ delete_draft_variation(v) \/ submit_variation(v)
        \/ approve_variation(v) \/ refuse_variation(v)
        \/ \E c \in Codes :
              \/ remove_variation_line(v, c)
              \/ \E delta \in Deltas : set_variation_line(v, c, delta)
  BY DEF VariationNext
<1>6. Committing
  <2>1. CASE create_variation(v)
    BY <2>1 DEF create_variation
  <2>2. CASE ~create_variation(v)
    BY <1>5, <2>2 DEF delete_draft_variation, submit_variation, approve_variation,
       refuse_variation, remove_variation_line, set_variation_line, MoneyInv, SignedFirst
  <2> QED
    BY <2>1, <2>2
<1>7. SignedFirst'
  BY <1>2, <1>6 DEF SignedFirst, Committing
<1>8. \A c \in Codes : CertifiedWork(c)' <= Committed(c)'
  <2>1. CASE approve_variation(v)
    BY <2>1, ApprovalMoney
  <2>2. CASE ~approve_variation(v)
    <3>1. PICK row : ChangeVariation(v, row) /\ row.status # "approved"
      <4>1. variation \in [Variations -> VariationRow]
        BY DEF MoneyInv, Inv, TypeOK
      <4>2. CASE \/ create_variation(v) \/ delete_draft_variation(v) \/ refuse_variation(v)
        BY <4>2 DEF create_variation, delete_draft_variation, refuse_variation, Variation
      <4>3. CASE submit_variation(v)
        BY <4>1, <4>3 DEF submit_variation, VariationRow
      <4>4. ASSUME NEW c \in Codes,
                   \/ remove_variation_line(v, c)
                   \/ \E delta \in Deltas : set_variation_line(v, c, delta)
            PROVE  \E row : ChangeVariation(v, row) /\ row.status # "approved"
        <5>1. \A lines : [variation[v] EXCEPT !.lines = lines].status = variation[v].status
          BY <4>1 DEF VariationRow
        <5> QED
          BY <4>4, <5>1 DEF remove_variation_line, set_variation_line
      <4> QED
        BY <1>5, <2>2, <4>2, <4>3, <4>4
    <3>2. variation[v].status # "approved"
      <4>1. CASE create_variation(v)
        BY <4>1 DEF create_variation, NextRow, MoneyInv, Inv, TypeOK, Variations
      <4> QED
        BY <1>5, <2>2, <4>1 DEF delete_draft_variation, submit_variation, refuse_variation,
           remove_variation_line, set_variation_line
    <3>3. CommitmentStays
      BY <1>2, <3>1, <3>2 DEF CommitmentStays, ChangeVariation, Approved, MoneyInv, Inv, TypeOK
    <3> QED
      BY <1>3, <3>3, CommitmentKept, WorkKept DEF MoneyInv, MoneyNests
  <2> QED
    BY <2>1, <2>2
<1> QED
  BY <1>1, <1>4, <1>7, <1>8 DEF MoneyInv, MoneyNests

-----------------------------------------------------------------------------
(* Certificates *)

LEMMA CertificationMoney ==
    ASSUME MoneyInv, NEW k \in Certificates, certify_certificate(k)
    PROVE  /\ \A c \in Codes : CertifiedWork(c)' <= Committed(c)
           /\ AdvanceRecovered' <= AdvancePaid
           /\ \A j \in Certified' : ClaimsOn(j) <= NetDue(j)'
<1>1. TypeOK
  BY DEF MoneyInv, Inv
<1>2. certificate' = [certificate EXCEPT ![k].status = "certified"]
  BY DEF certify_certificate, ChangeCertificate
<1>3. /\ certificate \in [Certificates -> CertificateRow]
      /\ certificate'[k].status = "certified" /\ certificate'[k].lines = certificate[k].lines
      /\ certificate'[k].release = certificate[k].release
      /\ certificate'[k].recovery = certificate[k].recovery
      /\ \A j \in Certificates \ {k} : certificate'[j] = certificate[j]
  BY <1>1, <1>2 DEF TypeOK, CertificateRow
<1>4. k \notin Certified /\ Certified' = Certified \cup {k}
  BY <1>3 DEF Certified, certify_certificate
<1>5. ASSUME NEW c \in Codes PROVE CertifiedWork(c)' <= Committed(c)
  <2>1. PICK g : g = [j \in Certified |-> At(certificate[j].lines, c)]
    OBVIOUS
  <2>2. PICK h : h = [j \in Certified' |-> At(certificate'[j].lines, c)]
    OBVIOUS
  <2>3. DOMAIN g = Certified /\ DOMAIN h = DOMAIN g \cup {k} /\ k \notin DOMAIN g
    BY <1>4, <2>1, <2>2
  <2>4. h[k] = At(certificate[k].lines, c) /\ h[k] \in Nat
    BY <1>1, <1>3, <1>4, <2>2, RowsCounted
  <2>5. \A y \in DOMAIN g : g[y] \in Int /\ h[y] = g[y]
    <3>1. \A y \in Certified : At(certificate[y].lines, c) \in Int
      BY <1>1, StandingFinite, RowsCounted
    <3>2. \A y \in Certified : certificate'[y] = certificate[y]
      BY <1>3, <1>4, StandingFinite
    <3> QED
      BY <1>4, <2>1, <2>2, <3>1, <3>2
  <2>6. SumFunction(h) = SumFunction(g) + h[k]
    BY <2>3, <2>4, <2>5, TableGrows, StandingFinite
  <2>7. CertifiedWork(c)' = CertifiedWork(c) + At(certificate[k].lines, c)
    BY <2>1, <2>2, <2>4, <2>6 DEF CertifiedWork
  <2>8. CertifiedWork(c) <= Committed(c) /\ CertifiedWork(c) \in Nat /\ Committed(c) \in Int
    BY <1>1, SumsCounted DEF MoneyInv, MoneyNests
  <2>9. CASE c \in DOMAIN certificate[k].lines
    BY <2>7, <2>9 DEF certify_certificate, At
  <2>10. CASE c \notin DOMAIN certificate[k].lines
    BY <2>7, <2>8, <2>10 DEF At
  <2> QED
    BY <2>9, <2>10
<1>6. AdvanceRecovered' <= AdvancePaid
  <2>1. PICK g : g = [j \in Certified |-> certificate[j].recovery]
    OBVIOUS
  <2>2. PICK h : h = [j \in Certified' |-> certificate'[j].recovery]
    OBVIOUS
  <2>3. DOMAIN g = Certified /\ DOMAIN h = DOMAIN g \cup {k} /\ k \notin DOMAIN g
    BY <1>4, <2>1, <2>2
  <2>4. h[k] = certificate[k].recovery /\ h[k] \in Nat
    BY <1>1, <1>3, <1>4, <2>2, RowsCounted
  <2>5. \A y \in DOMAIN g : g[y] \in Int /\ h[y] = g[y]
    BY <1>1, <1>3, <1>4, <2>1, <2>2, StandingFinite, RowsCounted
  <2>6. SumFunction(h) = SumFunction(g) + h[k]
    BY <2>3, <2>4, <2>5, TableGrows, StandingFinite
  <2>7. AdvanceRecovered' = AdvanceRecovered + certificate[k].recovery
    BY <2>1, <2>2, <2>4, <2>6 DEF AdvanceRecovered
  <2>8. AdvanceRecovered \in Nat /\ AdvancePaid \in Nat
    BY <1>1, SumsCounted
  <2> QED
    BY <2>4, <2>7, <2>8 DEF certify_certificate
<1>7. ASSUME NEW j \in Certified' PROVE ClaimsOn(j) <= NetDue(j)'
  <2>1. CASE j = k
    <3>1. NetDue(j)' = NetDue(j)
      BY <1>3, <2>1 DEF NetDue, Held
    <3>2. ClaimsOn(j) = 0
      BY <1>4, <2>1, UnclaimedOtherwise DEF MoneyInv
    <3> QED
      BY <2>1, <3>1, <3>2 DEF certify_certificate
  <2>2. CASE j # k
    <3>1. j \in Certified /\ certificate'[j] = certificate[j]
      BY <1>3, <1>4, <2>2, StandingFinite
    <3>2. NetDue(j)' = NetDue(j)
      BY <3>1 DEF NetDue, Held
    <3> QED
      BY <3>1, <3>2 DEF MoneyInv, MoneyNests
  <2> QED
    BY <2>1, <2>2
<1> QED
  BY <1>5, <1>6, <1>7

LEMMA ReversalMoney ==
    ASSUME MoneyInv, NEW k \in Certificates, reverse_certificate(k)
    PROVE  /\ \A c \in Codes : CertifiedWork(c)' <= Committed(c)
           /\ AdvanceRecovered' <= AdvancePaid
           /\ \A j \in Certified' : ClaimsOn(j) <= NetDue(j)'
<1>1. TypeOK
  BY DEF MoneyInv, Inv
<1>2. certificate' = [certificate EXCEPT ![k] = Certificate("closed")]
  BY DEF reverse_certificate, ChangeCertificate
<1>3. /\ certificate'[k].status = "closed"
      /\ \A j \in Certificates \ {k} : certificate'[j] = certificate[j]
  BY <1>1, <1>2 DEF TypeOK, Certificate
<1>4. k \in Certified /\ Certified' = Certified \ {k}
  BY <1>3 DEF Certified, reverse_certificate
<1>5. ASSUME NEW c \in Codes PROVE CertifiedWork(c)' <= Committed(c)
  <2>1. PICK g : g = [j \in Certified |-> At(certificate[j].lines, c)]
    OBVIOUS
  <2>2. PICK h : h = [j \in Certified' |-> At(certificate'[j].lines, c)]
    OBVIOUS
  <2>3. DOMAIN g = Certified /\ DOMAIN h = DOMAIN g \ {k} /\ k \in DOMAIN g
    BY <1>4, <2>1, <2>2
  <2>4. \A y \in DOMAIN g : g[y] \in Nat
    BY <1>1, <2>1, StandingFinite, RowsCounted
  <2>5. \A y \in DOMAIN h : h[y] = g[y]
    BY <1>3, <1>4, <2>1, <2>2, StandingFinite
  <2>6. SumFunction(h) = SumFunction(g) - g[k]
    BY <2>3, <2>4, <2>5, TableShrinks, StandingFinite
  <2>7. CertifiedWork(c) <= Committed(c) /\ CertifiedWork(c) \in Nat /\ Committed(c) \in Int
    BY <1>1, SumsCounted DEF MoneyInv, MoneyNests
  <2>8. CertifiedWork(c) = SumFunction(g) /\ CertifiedWork(c)' = SumFunction(h)
    BY <2>1, <2>2 DEF CertifiedWork
  <2>9. g[k] \in Nat
    BY <2>3, <2>4
  <2> QED
    BY <2>6, <2>7, <2>8, <2>9
<1>6. AdvanceRecovered' <= AdvancePaid
  <2>1. PICK g : g = [j \in Certified |-> certificate[j].recovery]
    OBVIOUS
  <2>2. PICK h : h = [j \in Certified' |-> certificate'[j].recovery]
    OBVIOUS
  <2>3. DOMAIN g = Certified /\ DOMAIN h = DOMAIN g \ {k} /\ k \in DOMAIN g
    BY <1>4, <2>1, <2>2
  <2>4. \A y \in DOMAIN g : g[y] \in Nat
    BY <1>1, <2>1, StandingFinite, RowsCounted
  <2>5. \A y \in DOMAIN h : h[y] = g[y]
    BY <1>3, <1>4, <2>1, <2>2, StandingFinite
  <2>6. SumFunction(h) = SumFunction(g) - g[k]
    BY <2>3, <2>4, <2>5, TableShrinks, StandingFinite
  <2>7. AdvanceRecovered = SumFunction(g) /\ AdvanceRecovered' = SumFunction(h)
    BY <2>1, <2>2 DEF AdvanceRecovered
  <2>8. AdvanceRecovered \in Nat /\ AdvancePaid \in Nat /\ AdvanceRecovered <= AdvancePaid
    BY <1>1, SumsCounted DEF MoneyInv, AdvanceRecoveredWithinPaid
  <2>9. g[k] \in Nat
    BY <2>3, <2>4
  <2> QED
    BY <2>6, <2>7, <2>8, <2>9
<1>7. ASSUME NEW j \in Certified' PROVE ClaimsOn(j) <= NetDue(j)'
  <2>1. j \in Certified /\ certificate'[j] = certificate[j]
    BY <1>3, <1>4, StandingFinite
  <2>2. NetDue(j)' = NetDue(j)
    BY <2>1 DEF NetDue, Held
  <2> QED
    BY <2>1, <2>2 DEF MoneyInv, MoneyNests
<1> QED
  BY <1>5, <1>6, <1>7

LEMMA CertificateMoney ==
    ASSUME MoneyInv, CertificateNext
    PROVE  MoneyInv'
<1>1. Inv'
  BY CertificateStep DEF MoneyInv
<1>2. UNCHANGED <<contract, variation, invoice, payment>>
  BY DEF CertificateNext, create_certificate, set_certificate_line, delete_draft_certificate,
         submit_certificate, certify_certificate, reject_certificate, reverse_certificate,
         certify_milestone, ChangeCertificate
<1>3. CommitmentStays /\ ClaimsStay /\ CashStays
  BY <1>2 DEF CommitmentStays, ClaimsStay, CashStays, Approved, Standing, Confirmed
<1>4. /\ \A c : Committed(c)' = Committed(c)
      /\ \A k : ClaimsOn(k)' = ClaimsOn(k)
      /\ \A i : Paid(i)' = Paid(i)
      /\ AdvancePaid' = AdvancePaid
  BY <1>3, CommitmentKept, ClaimsKept, CashKept, AdvanceKept
<1>5. \A i \in Standing' : Paid(i)' <= invoice'[i].amount
  BY <1>2, <1>3, <1>4 DEF ClaimsStay, MoneyInv, MoneyNests
<1>6. PICK k \in Certificates :
        \/ \E rel \in Releases, rec \in Recoveries : create_certificate(k, rel, rec)
        \/ \E c \in Codes, work \in Works : set_certificate_line(k, c, work)
        \/ delete_draft_certificate(k) \/ submit_certificate(k) \/ certify_certificate(k)
        \/ reject_certificate(k) \/ reverse_certificate(k) \/ certify_milestone(k)
  BY DEF CertificateNext
<1>7. SignedFirst'
  <2>1. Committing
    <3>1. CASE \E rel \in Releases, rec \in Recoveries : create_certificate(k, rel, rec)
      BY <3>1 DEF create_certificate
    <3>2. CASE certificate[k].status # "none"
      BY <3>2 DEF MoneyInv, SignedFirst
    <3> QED
      BY <1>6, <3>1, <3>2 DEF set_certificate_line, delete_draft_certificate,
         submit_certificate, certify_certificate, reject_certificate, reverse_certificate,
         certify_milestone, Certified
  <2> QED
    BY <1>2, <2>1 DEF SignedFirst, Committing
<1>8. /\ \A c \in Codes : CertifiedWork(c)' <= Committed(c)
      /\ AdvanceRecovered' <= AdvancePaid
      /\ \A j \in Certified' : ClaimsOn(j) <= NetDue(j)'
  <2>1. CASE certify_certificate(k)
    BY <2>1, CertificationMoney
  <2>2. CASE reverse_certificate(k)
    BY <2>2, ReversalMoney
  <2>3. CASE ~certify_certificate(k) /\ ~reverse_certificate(k)
    <3>1. certificate \in [Certificates -> CertificateRow]
      BY DEF MoneyInv, Inv, TypeOK
    <3>2. ASSUME certify_milestone(k) PROVE CertificatesStay
      BY <3>2 DEF CertificatesStay, Certified, certify_milestone
    <3>3. ASSUME NEW row, row.status # "certified", certificate[k].status # "certified",
                 ChangeCertificate(k, row)
          PROVE  CertificatesStay
      BY <3>1, <3>3 DEF ChangeCertificate, CertificatesStay, Certified
    <3>4. ASSUME NEW rel \in Releases, NEW rec \in Recoveries, create_certificate(k, rel, rec)
          PROVE  CertificatesStay
      <4>1. certificate[k].status = "none"
        BY <3>1, <3>4 DEF create_certificate, NextRow, Certificates
      <4>2. [Certificate("draft") EXCEPT !.release = rel, !.recovery = rec].status = "draft"
        BY DEF Certificate
      <4> QED
        BY <3>3, <3>4, <4>1, <4>2 DEF create_certificate
    <3>5. ASSUME NEW c \in Codes, NEW work \in Works, set_certificate_line(k, c, work)
          PROVE  CertificatesStay
      <4>1. \A lines : [certificate[k] EXCEPT !.lines = lines].status = certificate[k].status
        BY <3>1 DEF CertificateRow
      <4> QED
        BY <3>3, <3>5, <4>1 DEF set_certificate_line
    <3>6. ASSUME submit_certificate(k) PROVE CertificatesStay
      <4>1. [certificate[k] EXCEPT !.status = "submitted"].status = "submitted"
        BY <3>1 DEF CertificateRow
      <4> QED
        BY <3>3, <3>6, <4>1 DEF submit_certificate
    <3>7. ASSUME delete_draft_certificate(k) \/ reject_certificate(k) PROVE CertificatesStay
      BY <3>3, <3>7 DEF delete_draft_certificate, reject_certificate, Certificate
    <3>8. CertificatesStay
      BY <1>6, <2>3, <3>2, <3>4, <3>5, <3>6, <3>7
    <3> QED
      BY <3>8, WorkKept DEF CertificatesStay, MoneyInv, MoneyNests, AdvanceRecoveredWithinPaid
  <2> QED
    BY <2>1, <2>2, <2>3
<1> QED
  BY <1>1, <1>4, <1>5, <1>7, <1>8 DEF MoneyInv, MoneyNests, AdvanceRecoveredWithinPaid

-----------------------------------------------------------------------------
(* Invoices *)

\* A claim begins to stand: it was not paid yet, so only what is claimed changes.
LEMMA ApprovedClaim ==
    ASSUME MoneyInv, NEW i \in Invoices, approve_invoice(i)
    PROVE  /\ \A j \in Standing' : Paid(j) <= invoice'[j].amount
           /\ \A k \in Certified : ClaimsOn(k)' <= NetDue(k)
           /\ AdvancePaid' = AdvancePaid
<1>1. Inv /\ TypeOK
  BY DEF MoneyInv, Inv
<1>2. UNCHANGED payment /\ invoice' = [invoice EXCEPT ![i].status = "approved"]
  BY DEF approve_invoice, ChangeInvoice
<1>3. /\ invoice'[i].status = "approved" /\ invoice'[i].certificate = invoice[i].certificate
      /\ invoice'[i].amount = invoice[i].amount
      /\ \A j \in Invoices \ {i} : invoice'[j] = invoice[j]
  BY <1>1, <1>2 DEF TypeOK, InvoiceRow
<1>4. i \notin Standing /\ Standing' = Standing \cup {i}
  BY <1>3 DEF Standing, approve_invoice
<1>5. Paid(i) = 0
  BY <1>1, <1>4, UnpaidOtherwise
<1>6. ASSUME NEW j \in Standing' PROVE Paid(j) <= invoice'[j].amount
  <2>1. CASE j = i
    BY <1>1, <1>3, <1>5, <2>1, RowsCounted
  <2>2. CASE j # i
    BY <1>3, <1>4, <2>2, StandingFinite DEF MoneyInv, MoneyNests
  <2> QED
    BY <2>1, <2>2
<1>7. ASSUME NEW k \in Certified PROVE ClaimsOn(k)' <= NetDue(k)
  <2> DEFINE before == {j \in Standing : invoice[j].certificate = k}
             after == {j \in Standing' : invoice'[j].certificate = k}
  <2>1. PICK g : g = [j \in before |-> invoice[j].amount]
    OBVIOUS
  <2>2. PICK h : h = [j \in after |-> invoice'[j].amount]
    OBVIOUS
  <2>3. ClaimsOn(k) = SumFunction(g) /\ ClaimsOn(k)' = SumFunction(h)
    BY <2>1, <2>2 DEF ClaimsOn
  <2>4. ClaimsOn(k) <= NetDue(k)
    BY DEF MoneyInv, MoneyNests
  <2>5. CASE invoice[i].certificate # k
    <3>1. after = before
      BY <1>3, <1>4, <2>5, StandingFinite
    <3>2. \A j \in before : invoice'[j] = invoice[j]
      BY <1>3, <1>4, StandingFinite
    <3>3. h = g
      BY <2>1, <2>2, <3>1, <3>2
    <3> QED
      BY <2>3, <2>4, <3>3
  <2>6. CASE invoice[i].certificate = k
    <3>1. after = before \cup {i} /\ i \notin before
      BY <1>3, <1>4, <2>6, StandingFinite
    <3>2. \A j \in before : invoice'[j] = invoice[j] /\ invoice[j].amount \in Int
      BY <1>1, <1>3, <1>4, StandingFinite, RowsCounted
    <3>3. IsFiniteSet(before)
      BY StandingFinite
    <3>4. DOMAIN g = before /\ DOMAIN h = before \cup {i}
      BY <2>1, <2>2, <3>1
    <3>5. \A j \in DOMAIN g : g[j] \in Int /\ h[j] = g[j]
      BY <2>1, <2>2, <3>1, <3>2
    <3>6. h[i] = invoice[i].amount /\ h[i] \in Int
      BY <1>1, <1>3, <2>2, <3>1, RowsCounted
    <3> HIDE DEF before, after
    <3>7. SumFunction(h) = SumFunction(g) + h[i]
      BY <3>1, <3>3, <3>4, <3>5, <3>6, TableGrows
    <3>8. k # 0
      BY StandingFinite DEF Certificates
    <3> QED
      BY <2>3, <2>6, <3>6, <3>7, <3>8 DEF approve_invoice
  <2> QED
    BY <2>5, <2>6
<1>8. AdvancePaid' = AdvancePaid
  <2>1. CashStays
    BY <1>2 DEF CashStays, Confirmed
  <2>2. PICK T : T = Advances \cap Standing
    OBVIOUS
  <2>3. PICK U : U = (Advances \cap Standing)'
    OBVIOUS
  <2>4. PICK g : g = [j \in T |-> Paid(j)]
    OBVIOUS
  <2>5. PICK h : h = [j \in U |-> Paid(j)]
    OBVIOUS
  <2>6. AdvancePaid = SumFunction(g)
    BY <2>2, <2>4 DEF AdvancePaid
  <2>7. AdvancePaid' = SumFunction(h)
    <3>1. [j \in U |-> Paid(j)'] = h
      BY <2>1, <2>5, CashKept
    <3> QED
      BY <2>3, <3>1 DEF AdvancePaid
  <2>8. IsFiniteSet(T) /\ i \notin T /\ \A j : Paid(j) \in Int
    BY <1>1, <1>4, <2>2, StandingFinite, SumsCounted
  <2>9. U = T \/ U = T \cup {i}
    BY <1>3, <1>4, <2>2, <2>3 DEF Advances
  <2>10. CASE U = T \cup {i}
    <3>1. DOMAIN g = T /\ DOMAIN h = T \cup {i} /\ h[i] = 0
      BY <1>5, <2>4, <2>5, <2>10
    <3>2. \A j \in DOMAIN g : g[j] \in Int /\ h[j] = g[j]
      BY <2>4, <2>5, <2>8, <2>10
    <3>3. SumFunction(h) = SumFunction(g) + h[i]
      BY <2>8, <3>1, <3>2, TableGrows
    <3>4. SumFunction(g) \in Int
      BY <2>8, <3>1, <3>2, TableInt
    <3> QED
      BY <2>6, <2>7, <3>1, <3>3, <3>4
  <2> QED
    BY <2>4, <2>5, <2>6, <2>7, <2>9, <2>10
<1> QED
  BY <1>6, <1>7, <1>8

\* A claim stops standing: it was not paid, so only what is claimed changes.
LEMMA VoidedClaim ==
    ASSUME MoneyInv, NEW i \in Standing, void_invoice(i)
    PROVE  /\ \A j \in Standing' : Paid(j) <= invoice'[j].amount
           /\ \A k \in Certified : ClaimsOn(k)' <= NetDue(k)
           /\ AdvancePaid' = AdvancePaid
<1>1. Inv /\ TypeOK /\ i \in Invoices
  BY StandingFinite DEF MoneyInv, Inv
<1>2. UNCHANGED payment /\ invoice' = [invoice EXCEPT ![i] =
                             [invoice[i] EXCEPT !.status = "closed", !.amount = 0]]
  BY DEF void_invoice, ChangeInvoice
<1>3. /\ invoice'[i].status = "closed" /\ invoice'[i].certificate = invoice[i].certificate
      /\ \A j \in Invoices \ {i} : invoice'[j] = invoice[j]
  BY <1>1, <1>2 DEF TypeOK, InvoiceRow
<1>4. Standing' = Standing \ {i}
  BY <1>3 DEF Standing
<1>5. Paid(i) = 0
  <2>1. PICK g : g = [p \in Confirmed |-> At(payment[p].allocations, i)]
    OBVIOUS
  <2>2. \A p \in Confirmed : g[p] = 0
    BY <2>1 DEF void_invoice, At
  <2>3. SumFunction(g) = 0
    BY <2>1, <2>2, TableZero, StandingFinite
  <2> QED
    BY <2>1, <2>3 DEF Paid
<1>6. ASSUME NEW j \in Standing' PROVE Paid(j) <= invoice'[j].amount
  BY <1>3, <1>4, StandingFinite DEF MoneyInv, MoneyNests
<1>7. ASSUME NEW k \in Certified PROVE ClaimsOn(k)' <= NetDue(k)
  <2> DEFINE before == {j \in Standing : invoice[j].certificate = k}
             after == {j \in Standing' : invoice'[j].certificate = k}
  <2>1. PICK g : g = [j \in before |-> invoice[j].amount]
    OBVIOUS
  <2>2. PICK h : h = [j \in after |-> invoice'[j].amount]
    OBVIOUS
  <2>3. ClaimsOn(k) = SumFunction(g) /\ ClaimsOn(k)' = SumFunction(h)
    BY <2>1, <2>2 DEF ClaimsOn
  <2>4. ClaimsOn(k) <= NetDue(k) /\ NetDue(k) \in Int
    BY <1>1, RowsCounted, StandingFinite DEF MoneyInv, MoneyNests
  <2>5. CASE invoice[i].certificate # k
    <3>1. after = before
      BY <1>3, <1>4, <2>5, StandingFinite
    <3>2. \A j \in after : invoice'[j] = invoice[j]
      BY <1>3, <1>4, StandingFinite
    <3>3. h = g
      BY <2>1, <2>2, <3>1, <3>2
    <3> QED
      BY <2>3, <2>4, <3>3
  <2>6. CASE invoice[i].certificate = k
    <3>1. after = before \ {i} /\ i \in before
      BY <1>3, <1>4, <2>6, StandingFinite
    <3>2. /\ \A j \in after : invoice'[j] = invoice[j]
          /\ \A j \in before : invoice[j].amount \in Nat
      BY <1>1, <1>3, <1>4, StandingFinite, RowsCounted
    <3>3. IsFiniteSet(before)
      BY StandingFinite
    <3>4. DOMAIN g = before /\ DOMAIN h = before \ {i}
      BY <2>1, <2>2, <3>1
    <3>5. \A j \in DOMAIN g : g[j] \in Nat
      BY <2>1, <3>2
    <3>6. \A j \in DOMAIN h : h[j] = g[j]
      BY <2>1, <2>2, <3>1, <3>2
    <3> HIDE DEF before, after
    <3>7. SumFunction(h) = SumFunction(g) - g[i]
      BY <3>1, <3>3, <3>4, <3>5, <3>6, TableShrinks
    <3>8. g[i] \in Nat /\ SumFunction(g) \in Nat
      BY <3>1, <3>3, <3>4, <3>5, TableNat
    <3> QED
      BY <2>3, <2>4, <3>7, <3>8
  <2> QED
    BY <2>5, <2>6
<1>8. AdvancePaid' = AdvancePaid
  <2>1. CashStays
    BY <1>2 DEF CashStays, Confirmed
  <2>2. PICK T : T = Advances \cap Standing
    OBVIOUS
  <2>3. PICK U : U = (Advances \cap Standing)'
    OBVIOUS
  <2>4. PICK g : g = [j \in T |-> Paid(j)]
    OBVIOUS
  <2>5. PICK h : h = [j \in U |-> Paid(j)]
    OBVIOUS
  <2>6. AdvancePaid = SumFunction(g)
    BY <2>2, <2>4 DEF AdvancePaid
  <2>7. AdvancePaid' = SumFunction(h)
    <3>1. [j \in U |-> Paid(j)'] = h
      BY <2>1, <2>5, CashKept
    <3> QED
      BY <2>3, <3>1 DEF AdvancePaid
  <2>8. IsFiniteSet(T) /\ \A j : Paid(j) \in Int
    BY <1>1, <2>2, StandingFinite, SumsCounted
  <2>9. U = T \/ (i \in T /\ U = T \ {i})
    BY <1>3, <1>4, <2>2, <2>3 DEF Advances
  <2>10. CASE i \in T /\ U = T \ {i}
    <3>1. DOMAIN g = T /\ DOMAIN h = T \ {i} /\ g[i] = 0
      BY <1>5, <2>4, <2>5, <2>10
    <3>2. (\A j \in DOMAIN g : g[j] \in Int) /\ (\A j \in DOMAIN h : h[j] = g[j])
      BY <2>4, <2>5, <2>8, <2>10
    <3>3. SumFunction(h) = SumFunction(g) - g[i]
      BY <2>8, <2>10, <3>1, <3>2, TableShrinks
    <3>4. SumFunction(g) \in Int
      BY <2>8, <3>1, <3>2, TableInt
    <3> QED
      BY <2>6, <2>7, <3>1, <3>3, <3>4
  <2> QED
    BY <2>4, <2>5, <2>6, <2>7, <2>9, <2>10
<1> QED
  BY <1>6, <1>7, <1>8

LEMMA InvoiceMoney ==
    ASSUME MoneyInv, InvoiceNext
    PROVE  MoneyInv'
<1>1. Inv'
  BY InvoiceStep DEF MoneyInv
<1>2. UNCHANGED <<contract, variation, certificate, payment, evidencing>>
  BY DEF InvoiceNext, record_invoice, approve_invoice, dispute_invoice,
         resolve_invoice_dispute, void_invoice, ChangeInvoice
<1>3. CommitmentStays /\ CertificatesStay /\ CashStays
  BY <1>2 DEF CommitmentStays, CertificatesStay, CashStays, Approved, Certified, Confirmed
<1>4. /\ \A c : Committed(c)' = Committed(c) /\ CertifiedWork(c)' = CertifiedWork(c)
      /\ \A k \in Certified : NetDue(k)' = NetDue(k)
      /\ \A i : Paid(i)' = Paid(i)
      /\ AdvanceRecovered' = AdvanceRecovered
  BY <1>3, CommitmentKept, WorkKept, CashKept
<1>5. SignedFirst'
  BY <1>2 DEF MoneyInv, SignedFirst, Committing
<1>6. PICK i \in Invoices :
        \/ \E k \in {0} \cup Certificates, amount \in Claims : record_invoice(i, k, amount)
        \/ approve_invoice(i) \/ dispute_invoice(i) \/ resolve_invoice_dispute(i)
        \/ void_invoice(i)
  BY DEF InvoiceNext
<1>7. /\ \A j \in Standing' : Paid(j) <= invoice'[j].amount
      /\ \A k \in Certified : ClaimsOn(k)' <= NetDue(k)
      /\ AdvancePaid' = AdvancePaid
  <2>1. CASE approve_invoice(i)
    BY <2>1, ApprovedClaim
  <2>2. CASE void_invoice(i) /\ i \in Standing
    BY <2>2, VoidedClaim
  <2>3. CASE ~approve_invoice(i) /\ ~(void_invoice(i) /\ i \in Standing)
    <3>1. invoice \in [Invoices -> InvoiceRow]
      BY DEF MoneyInv, Inv, TypeOK
    <3>2. ASSUME NEW row, row.status \notin {"approved", "disputed"}, i \notin Standing,
                 ChangeInvoice(i, row)
          PROVE  ClaimsStay
      BY <3>1, <3>2 DEF ChangeInvoice, ClaimsStay, Standing
    <3>3. ASSUME NEW k \in {0} \cup Certificates, NEW amount \in Claims,
                 record_invoice(i, k, amount)
          PROVE  ClaimsStay
      <4>1. invoice[i].status = "none"
        BY <3>1, <3>3 DEF record_invoice, NextRow, Invoices
      <4>2. i \notin Standing
        BY <4>1 DEF Standing
      <4> QED
        BY <3>2, <3>3, <4>2 DEF record_invoice
    <3>4. ASSUME void_invoice(i) PROVE ClaimsStay
      <4>1. [invoice[i] EXCEPT !.status = "closed", !.amount = 0].status = "closed"
        BY <3>1 DEF InvoiceRow
      <4> QED
        BY <2>3, <3>2, <3>4, <4>1 DEF void_invoice
    <3>5. ASSUME dispute_invoice(i) \/ resolve_invoice_dispute(i) PROVE ClaimsStay
      <4>1. PICK status \in {"approved", "disputed"} :
              invoice' = [invoice EXCEPT ![i] = [invoice[i] EXCEPT !.status = status]]
        BY <3>5 DEF dispute_invoice, resolve_invoice_dispute, ChangeInvoice
      <4>2. /\ invoice'[i].status = status /\ invoice'[i].amount = invoice[i].amount
            /\ invoice'[i].certificate = invoice[i].certificate
            /\ \A j \in Invoices \ {i} : invoice'[j] = invoice[j]
        BY <3>1, <4>1 DEF InvoiceRow
      <4>3. i \in Standing
        BY <3>5 DEF dispute_invoice, resolve_invoice_dispute, Standing
      <4> QED
        BY <4>2, <4>3 DEF ClaimsStay, Standing
    <3>6. ClaimsStay
      BY <1>6, <2>3, <3>3, <3>4, <3>5
    <3> QED
      BY <1>3, <3>6, ClaimsKept, AdvanceKept DEF ClaimsStay, MoneyInv, MoneyNests
  <2> QED
    BY <2>1, <2>2, <2>3
<1> QED
  BY <1>1, <1>3, <1>4, <1>5, <1>7
     DEF MoneyInv, MoneyNests, AdvanceRecoveredWithinPaid, CertificatesStay

-----------------------------------------------------------------------------
(* Payments *)

\* Cash leaves the bank, on each claim no more than is outstanding.
LEMMA ConfirmedCash ==
    ASSUME MoneyInv, NEW p \in Payments, p \notin Confirmed, NEW row \in PaymentRow,
           row.status = "confirmed", ChangePayment(p, row),
           \A i \in DOMAIN row.allocations : row.allocations[i] <= Outstanding(i)
    PROVE  /\ \A i \in Standing : Paid(i)' <= invoice[i].amount
           /\ AdvancePaid' >= AdvancePaid
<1>1. TypeOK
  BY DEF MoneyInv, Inv
<1>2. /\ UNCHANGED invoice /\ payment'[p] = row
      /\ \A q \in Payments \ {p} : payment'[q] = payment[q]
  BY <1>1 DEF ChangePayment, TypeOK
<1>3. Confirmed' = Confirmed \cup {p}
  BY <1>2 DEF Confirmed
<1>4. \A i : At(row.allocations, i) \in Nat
  BY SettlementCounted DEF PaymentRow
<1>5. ASSUME NEW i PROVE Paid(i)' = Paid(i) + At(row.allocations, i)
  <2>1. PICK g : g = [q \in Confirmed |-> At(payment[q].allocations, i)]
    OBVIOUS
  <2>2. PICK h : h = [q \in Confirmed' |-> At(payment'[q].allocations, i)]
    OBVIOUS
  <2>3. DOMAIN g = Confirmed /\ DOMAIN h = DOMAIN g \cup {p} /\ p \notin DOMAIN g
    BY <1>3, <2>1, <2>2
  <2>4. h[p] = At(row.allocations, i) /\ h[p] \in Int
    BY <1>2, <1>3, <1>4, <2>2
  <2>5. \A y \in DOMAIN g : g[y] \in Int /\ h[y] = g[y]
    <3>1. \A y \in Confirmed : At(payment[y].allocations, i) \in Int
      BY <1>1, StandingFinite, RowsCounted
    <3>2. \A y \in Confirmed : payment'[y] = payment[y]
      BY <1>2, StandingFinite
    <3> QED
      BY <1>3, <2>1, <2>2, <3>1, <3>2
  <2>6. SumFunction(h) = SumFunction(g) + h[p]
    BY <2>3, <2>4, <2>5, TableGrows, StandingFinite
  <2> QED
    BY <2>1, <2>2, <2>4, <2>6 DEF Paid
<1>6. ASSUME NEW i \in Standing PROVE Paid(i)' <= invoice[i].amount
  <2>1. Paid(i) \in Nat /\ invoice[i].amount \in Nat /\ Paid(i) <= invoice[i].amount
    BY <1>1, SumsCounted, RowsCounted, StandingFinite DEF MoneyInv, MoneyNests
  <2>2. CASE i \in DOMAIN row.allocations
    BY <1>4, <1>5, <2>1, <2>2 DEF Outstanding, At
  <2>3. CASE i \notin DOMAIN row.allocations
    BY <1>5, <2>1, <2>3 DEF At
  <2> QED
    BY <2>2, <2>3
<1>7. AdvancePaid' >= AdvancePaid
  <2>1. PICK T : T = Advances \cap Standing
    OBVIOUS
  <2>2. T = (Advances \cap Standing)'
    BY <1>2, <2>1 DEF Advances, Standing
  <2>3. PICK g : g = [i \in T |-> Paid(i)]
    OBVIOUS
  <2>4. PICK h : h = [i \in T |-> Paid(i) + At(row.allocations, i)]
    OBVIOUS
  <2>5. AdvancePaid = SumFunction(g)
    BY <2>1, <2>3 DEF AdvancePaid
  <2>6. AdvancePaid' = SumFunction(h)
    <3>1. [i \in T |-> Paid(i)'] = h
      BY <1>5, <2>4
    <3> QED
      BY <2>2, <3>1 DEF AdvancePaid
  <2>7. IsFiniteSet(T) /\ DOMAIN g = T /\ DOMAIN h = T
    BY <2>1, <2>3, <2>4, StandingFinite
  <2>8. \A i \in T : g[i] \in Int /\ h[i] \in Int /\ g[i] <= h[i]
    <3>1. \A i : Paid(i) \in Nat
      BY <1>1, SumsCounted
    <3> QED
      BY <1>4, <2>3, <2>4, <3>1
  <2>9. SumFunctionOnSet(g, T) <= SumFunctionOnSet(h, T)
    BY <2>7, <2>8, SumOrder
  <2>10. SumFunctionOnSet(g, T) \in Int /\ SumFunctionOnSet(h, T) \in Int
    BY <2>7, <2>8, SumInt
  <2> QED
    BY <2>5, <2>6, <2>7, <2>9, <2>10 DEF SumFunction
<1> QED
  BY <1>6, <1>7

\* Cash comes back: what was paid on advances falls by what this payment paid on them.
LEMMA ReversedCash ==
    ASSUME MoneyInv, NEW p \in Payments, reverse_payment(p)
    PROVE  /\ \A i \in Standing : Paid(i)' <= invoice[i].amount
           /\ AdvanceRecovered <= AdvancePaid'
<1>1. Inv /\ TypeOK
  BY DEF MoneyInv, Inv
<1>2. /\ UNCHANGED invoice /\ payment'[p].status = "closed" /\ p \in Confirmed
      /\ \A q \in Payments \ {p} : payment'[q] = payment[q]
  BY <1>1 DEF reverse_payment, ChangePayment, TypeOK, Payment
<1>3. Confirmed' = Confirmed \ {p}
  BY <1>2 DEF Confirmed
<1>4. \A i : At(payment[p].allocations, i) \in Nat
  BY <1>1, RowsCounted
<1>5. ASSUME NEW i PROVE Paid(i)' = Paid(i) - At(payment[p].allocations, i)
  <2>1. PICK g : g = [q \in Confirmed |-> At(payment[q].allocations, i)]
    OBVIOUS
  <2>2. PICK h : h = [q \in Confirmed' |-> At(payment'[q].allocations, i)]
    OBVIOUS
  <2>3. DOMAIN g = Confirmed /\ DOMAIN h = DOMAIN g \ {p} /\ p \in DOMAIN g
    BY <1>2, <1>3, <2>1, <2>2
  <2>4. g[p] = At(payment[p].allocations, i)
    BY <1>2, <2>1
  <2>5. \A y \in DOMAIN g : g[y] \in Int
    <3>1. \A y \in Confirmed : At(payment[y].allocations, i) \in Int
      BY <1>1, StandingFinite, RowsCounted
    <3> QED
      BY <2>1, <3>1
  <2>6. \A y \in DOMAIN h : h[y] = g[y]
    <3>1. \A y \in Confirmed' : payment'[y] = payment[y]
      BY <1>2, <1>3, StandingFinite
    <3> QED
      BY <1>3, <2>1, <2>2, <3>1
  <2>7. SumFunction(h) = SumFunction(g) - g[p]
    BY <2>3, <2>5, <2>6, TableShrinks, StandingFinite
  <2> QED
    BY <2>1, <2>2, <2>4, <2>7 DEF Paid
<1>6. ASSUME NEW i \in Standing PROVE Paid(i)' <= invoice[i].amount
  <2>1. Paid(i) \in Nat /\ invoice[i].amount \in Nat /\ Paid(i) <= invoice[i].amount
    BY <1>1, SumsCounted, RowsCounted, StandingFinite DEF MoneyInv, MoneyNests
  <2> QED
    BY <1>4, <1>5, <2>1
<1>7. AdvancePaid' = AdvancePaid - AdvanceOf(p)
  <2>1. PICK T : T = Advances \cap Standing
    OBVIOUS
  <2>2. T = (Advances \cap Standing)'
    BY <1>2, <2>1 DEF Advances, Standing
  <2>3. PICK g : g = [i \in T |-> Paid(i)]
    OBVIOUS
  <2>4. PICK h : h = [i \in T |-> Paid(i) - At(payment[p].allocations, i)]
    OBVIOUS
  <2>5. PICK d : d = [i \in Advances |-> At(payment[p].allocations, i)]
    OBVIOUS
  <2>6. AdvancePaid = SumFunction(g) /\ AdvanceOf(p) = SumFunction(d)
    BY <2>1, <2>3, <2>5 DEF AdvancePaid, AdvanceOf
  <2>7. AdvancePaid' = SumFunction(h)
    <3>1. [i \in T |-> Paid(i)'] = h
      BY <1>5, <2>4
    <3> QED
      BY <2>2, <3>1 DEF AdvancePaid
  <2>8. /\ IsFiniteSet(T) /\ DOMAIN g = T /\ DOMAIN h = T
        /\ IsFiniteSet(Advances) /\ DOMAIN d = Advances /\ T \subseteq Advances
    BY <2>1, <2>3, <2>4, <2>5, StandingFinite
  <2>9. \A i \in Advances : d[i] \in Int
    BY <1>4, <2>5
  <2>10. \A i \in T : h[i] \in Int /\ d[i] \in Int /\ g[i] = h[i] + d[i]
    <3>1. \A i : Paid(i) \in Nat
      BY <1>1, SumsCounted
    <3>2. \A i \in T : /\ h[i] = Paid(i) - d[i] /\ g[i] = Paid(i)
                       /\ d[i] \in Int
      BY <2>3, <2>4, <2>5, <2>8, <2>9
    <3> QED
      BY <3>1, <3>2
  <2>11. \A i \in Advances \ T : d[i] = 0
    BY <1>1, <1>2, <2>1, <2>5 DEF Inv, NothingStandsOnAir, At
  <2>12. SumFunctionOnSet(g, T) = SumFunctionOnSet(h, T) + SumFunctionOnSet(d, T)
    BY <2>8, <2>10, TablesAdd
  <2>13. SumFunctionOnSet(d, T) = SumFunctionOnSet(d, Advances)
    BY <2>8, <2>9, <2>11, SumSupport
  <2>14. SumFunctionOnSet(h, T) \in Int /\ SumFunctionOnSet(d, T) \in Int
    BY <2>8, <2>10, SumInt
  <2> QED
    BY <2>6, <2>7, <2>8, <2>12, <2>13, <2>14 DEF SumFunction
<1>8. AdvanceOf(p) \in Nat /\ AdvancePaid \in Nat /\ AdvanceRecovered \in Nat
  BY <1>1, SumsCounted
<1>9. AdvanceRecovered <= AdvancePaid
  BY DEF MoneyInv, AdvanceRecoveredWithinPaid
<1>10. AdvanceRecovered <= AdvancePaid'
  BY <1>7, <1>8, <1>9 DEF reverse_payment, MayReverse
<1> QED
  BY <1>6, <1>10

\* Advance cash is a count after a step as before it.
AdvanceCount == AdvancePaid \in Nat

LEMMA AdvanceCounted == TypeOK' => AdvanceCount'
<1>1. TypeOK => AdvanceCount
  BY SumsCounted DEF AdvanceCount
<1> QED
  BY <1>1, PTL

LEMMA PaymentMoney ==
    ASSUME MoneyInv, PaymentNext
    PROVE  MoneyInv'
<1>1. Inv'
  BY PaymentStep DEF MoneyInv
<1>2. UNCHANGED <<contract, variation, certificate, invoice, evidencing>>
  BY DEF PaymentNext, record_payment, record_direct_payment, allocate_payment,
         remove_allocation, confirm_payment, reverse_payment, ChangePayment
<1>3. CommitmentStays /\ CertificatesStay /\ ClaimsStay
  BY <1>2 DEF CommitmentStays, CertificatesStay, ClaimsStay, Approved, Certified, Standing
<1>4. /\ \A c : Committed(c)' = Committed(c) /\ CertifiedWork(c)' = CertifiedWork(c)
      /\ \A k : ClaimsOn(k)' = ClaimsOn(k)
      /\ \A k \in Certified : NetDue(k)' = NetDue(k)
      /\ AdvanceRecovered' = AdvanceRecovered
  BY <1>3, CommitmentKept, WorkKept, ClaimsKept
<1>5. SignedFirst'
  BY <1>2 DEF MoneyInv, SignedFirst, Committing
<1>6. AdvanceRecovered <= AdvancePaid /\ AdvancePaid \in Nat /\ AdvanceRecovered \in Nat
  BY SumsCounted DEF MoneyInv, Inv, AdvanceRecoveredWithinPaid
<1>7. PICK p \in Payments :
        \/ \E amount \in Sums :
              \/ record_payment(p, amount)
              \/ \E settled \in {{}} \cup {{i} : i \in Invoices} :
                    record_direct_payment(p, amount, settled)
              \/ \E i \in Invoices : allocate_payment(p, i, amount)
        \/ \E i \in Invoices : remove_allocation(p, i)
        \/ confirm_payment(p) \/ reverse_payment(p)
  BY DEF PaymentNext
<1>8. payment \in [Payments -> PaymentRow]
  BY DEF MoneyInv, Inv, TypeOK
<1> DEFINE Fits == /\ \A i \in Standing : Paid(i)' <= invoice[i].amount
                   /\ AdvanceRecovered <= AdvancePaid'
<1>9. ASSUME NEW row \in PaymentRow, row.status = "confirmed", p \notin Confirmed,
             ChangePayment(p, row),
             \A i \in DOMAIN row.allocations : row.allocations[i] <= Outstanding(i)
      PROVE  Fits
  <2>1. /\ \A i \in Standing : Paid(i)' <= invoice[i].amount
        /\ AdvancePaid' >= AdvancePaid
    BY <1>9, ConfirmedCash
  <2>2. TypeOK'
    BY <1>1 DEF Inv
  <2>3. AdvancePaid' \in Nat
    BY <2>2, AdvanceCounted DEF AdvanceCount
  <2> QED
    BY <1>6, <2>1, <2>3
<1>10. ASSUME NEW row, row.status # "confirmed", p \notin Confirmed, ChangePayment(p, row)
       PROVE  Fits
  <2>1. CashStays
    BY <1>8, <1>10 DEF ChangePayment, CashStays, Confirmed
  <2> QED
    BY <1>3, <1>6, <2>1, CashKept, AdvanceKept DEF MoneyInv, MoneyNests
<1> HIDE DEF Fits
<1>11. ASSUME NEW amount \in Sums, record_payment(p, amount) PROVE Fits
  <2>1. [Payment("recorded") EXCEPT !.amount = amount].status = "recorded"
    BY DEF Payment
  <2>2. payment[p].status = "none"
    BY <1>8, <1>11 DEF record_payment, NextRow, Payments
  <2>3. p \notin Confirmed
    BY <2>2 DEF Confirmed
  <2> QED
    BY <1>10, <1>11, <2>1, <2>3 DEF record_payment
<1>12. ASSUME NEW amount \in Sums, NEW settled \in {{}} \cup {{i} : i \in Invoices},
              record_direct_payment(p, amount, settled)
       PROVE  Fits
  <2>1. PICK lines : lines = [i \in settled |-> amount]
    OBVIOUS
  <2>2. PICK row : row = [status |-> "confirmed", direct |-> TRUE, amount |-> amount,
                          allocations |-> lines]
    OBVIOUS
  <2>3. settled \in SUBSET Invoices /\ lines \in [settled -> Sums]
    BY <2>1
  <2>4. lines \in Allocations
    BY <2>3 DEF Allocations
  <2>5. row \in PaymentRow /\ row.status = "confirmed" /\ row.allocations = lines
    BY <2>2, <2>4, ChainAssumption DEF PaymentRow
  <2>6. payment[p].status = "none"
    BY <1>8, <1>12 DEF record_direct_payment, NextRow, Payments
  <2>7. p \notin Confirmed
    BY <2>6 DEF Confirmed
  <2>8. \A i \in DOMAIN lines : lines[i] <= Outstanding(i)
    BY <1>12, <2>1 DEF record_direct_payment
  <2>9. ChangePayment(p, row)
    BY <1>12, <2>1, <2>2 DEF record_direct_payment
  <2> QED
    BY <1>9, <2>5, <2>7, <2>8, <2>9
<1>13. ASSUME NEW i \in Invoices,
              \/ remove_allocation(p, i)
              \/ \E amount \in Sums : allocate_payment(p, i, amount)
       PROVE  Fits
  <2>1. \A lines : [payment[p] EXCEPT !.allocations = lines].status = payment[p].status
    BY <1>8 DEF PaymentRow
  <2>2. payment[p].status = "recorded"
    BY <1>13 DEF remove_allocation, allocate_payment
  <2>3. p \notin Confirmed
    BY <2>2 DEF Confirmed
  <2> QED
    BY <1>10, <1>13, <2>1, <2>2, <2>3 DEF remove_allocation, allocate_payment
<1>14. ASSUME confirm_payment(p) PROVE Fits
  <2>1. PICK row : row = [payment[p] EXCEPT !.status = "confirmed"]
    OBVIOUS
  <2>2. /\ row \in PaymentRow /\ row.status = "confirmed"
        /\ row.allocations = payment[p].allocations
    BY <1>8, <2>1 DEF PaymentRow
  <2>3. p \notin Confirmed
    BY <1>14 DEF confirm_payment, Confirmed
  <2>4. /\ ChangePayment(p, row)
        /\ \A i \in DOMAIN row.allocations : row.allocations[i] <= Outstanding(i)
    BY <1>14, <2>1, <2>2 DEF confirm_payment
  <2> QED
    BY <1>9, <2>2, <2>3, <2>4
<1>15. ASSUME reverse_payment(p) PROVE Fits
  BY <1>15, ReversedCash DEF Fits
<1>16. Fits
  BY <1>7, <1>11, <1>12, <1>13, <1>14, <1>15
<1> QED
  BY <1>1, <1>2, <1>3, <1>4, <1>5, <1>16
     DEF MoneyInv, MoneyNests, AdvanceRecoveredWithinPaid, CertificatesStay, ClaimsStay, Fits

-----------------------------------------------------------------------------
(* The specification *)

LEMMA InitMoney ==
    ASSUME Init
    PROVE  MoneyInv
<1>1. Inv
  BY InitEstablishes
<1>2. Approved = {} /\ Certified = {} /\ Standing = {} /\ Confirmed = {}
  BY DEF Init, Approved, Certified, Standing, Confirmed, Variation, Certificate, Invoice, Payment
<1>3. SignedFirst
  BY DEF Init, SignedFirst, Variation, Certificate
<1>4. ASSUME NEW c PROVE CertifiedWork(c) <= Committed(c)
  <2>1. PICK g : g = [v \in Approved |-> At(variation[v].lines, c)]
    OBVIOUS
  <2>2. PICK h : h = [k \in Certified |-> At(certificate[k].lines, c)]
    OBVIOUS
  <2>3. SumFunction(g) = 0 /\ SumFunction(h) = 0
    BY <1>2, <2>1, <2>2, TableZero, FS_EmptySet
  <2>4. PICK a \in Nat : a = At(contract.lines, c)
    BY <1>1, RowsCounted DEF Inv
  <2> QED
    BY <2>1, <2>2, <2>3, <2>4 DEF CertifiedWork, Committed
<1>5. AdvanceRecovered <= AdvancePaid
  <2>1. PICK h : h = [k \in Certified |-> certificate[k].recovery]
    OBVIOUS
  <2>2. SumFunction(h) = 0
    BY <1>2, <2>1, TableZero, FS_EmptySet
  <2>3. AdvancePaid \in Nat
    BY <1>1, SumsCounted DEF Inv
  <2> QED
    BY <2>1, <2>2, <2>3 DEF AdvanceRecovered
<1> QED
  BY <1>1, <1>2, <1>3, <1>4, <1>5 DEF MoneyInv, MoneyNests, AdvanceRecoveredWithinPaid

LEMMA NothingHappens ==
    ASSUME MoneyInv, UNCHANGED vars
    PROVE  MoneyInv'
<1>1. Inv'
  BY DEF vars, MoneyInv, Inv, TypeOK, NothingStandsOnAir, Certified, Standing, Confirmed
<1>2. CommitmentStays /\ CertificatesStay /\ ClaimsStay /\ CashStays
  BY DEF vars, CommitmentStays, CertificatesStay, ClaimsStay, CashStays, Approved, Certified,
         Standing, Confirmed
<1>3. MoneyNests' /\ AdvanceRecoveredWithinPaid'
  BY <1>2, CommitmentKept, WorkKept, ClaimsKept, CashKept, AdvanceKept
     DEF MoneyInv, MoneyNests, AdvanceRecoveredWithinPaid, CertificatesStay, ClaimsStay
<1>4. SignedFirst'
  BY DEF vars, MoneyInv, SignedFirst, Committing
<1> QED
  BY <1>1, <1>3, <1>4 DEF MoneyInv

\* The money of every state nests, on top of what its documents stand on.
THEOREM AlwaysMoney == Spec => []MoneyInv
<1>1. Init => MoneyInv
  BY InitMoney
<1>2. MoneyInv /\ [Next]_vars => MoneyInv'
  BY ContractMoney, VariationMoney, CertificateMoney, InvoiceMoney, PaymentMoney,
     NothingHappens DEF Next
<1> QED
  BY <1>1, <1>2, PTL DEF Spec

\* Whatever the amounts, and in whatever order variations, certificates, invoices and
\* payments are approved and taken back: cash fits inside claims, claims inside what
\* their certificate makes due, certified work inside the commitment, code by code.
THEOREM MoneyAlwaysNests == Spec => []MoneyNests
<1>1. MoneyInv => MoneyNests
  BY DEF MoneyInv
<1> QED
  BY <1>1, AlwaysMoney, PTL

\* No certificate recovers advance money that did not leave the bank or came back:
\* certification asks, and so does the reversal of a payment.
THEOREM AdvanceComesFirst == Spec => []AdvanceRecoveredWithinPaid
<1>1. MoneyInv => AdvanceRecoveredWithinPaid
  BY DEF MoneyInv
<1> QED
  BY <1>1, AlwaysMoney, PTL
=============================================================================
