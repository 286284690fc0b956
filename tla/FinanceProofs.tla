--------------------------- MODULE FinanceProofs ----------------------------
(***************************************************************************)
(* What UnitEconomics, Refunds, Cashflow and Commissions guarantee for any *)
(* number of rows, any amounts and any days. SumLemmas adds up the sums.   *)
(***************************************************************************)
EXTENDS UnitEconomics, Refunds, Cashflow, Commissions, SumLemmas, TLAPS

-----------------------------------------------------------------------------
(* Margins *)

\* The version in force has no end, and there is one once there ever was.
BasisHistory ==
    /\ \A v \in BasisInForce : basis[v].to = 0
    /\ (\E v \in Bases : basis[v].status = "superseded") => BasisInForce # {}

BasisInv == EcoTypeOK /\ BasisHistory

\* What PastMarginsStand says of a step.
PastBasisKept ==
    \A d \in 1..(eco_day - 1) :
        BasisOn(d) # {} =>
            /\ BasisOn(d)' = BasisOn(d)
            /\ \A v \in BasisOn(d) :
                  /\ basis'[v].read = basis[v].read
                  /\ basis'[v].reached = basis[v].reached

LEMMA EcoNumbers == {0} \cup EcoDays \subseteq Nat
BY EconomicsAssumption DEF EcoDays

-----------------------------------------------------------------------------
(* Versions *)

\* A version that was never in force is no day's basis.
LEMMA PreparedStep ==
    ASSUME BasisInv, NEW v \in Bases, NEW row \in BasisVersionRow, ChangeBasis(v, row),
           basis[v].status \notin {"active", "superseded"},
           row.status \notin {"active", "superseded"}
    PROVE  BasisInv' /\ PastBasisKept
<1>1. /\ basis' \in [Bases -> BasisVersionRow] /\ basis'[v] = row
      /\ \A w \in Bases \ {v} : basis'[w] = basis[w]
      /\ UNCHANGED <<source, in_project, eco_day>>
  BY DEF ChangeBasis, BasisInv, EcoTypeOK
<1>2. BasisInForce' = BasisInForce
  BY <1>1 DEF BasisInForce
<1>3. BasisHistory'
  BY <1>1, <1>2 DEF BasisInv, BasisHistory, BasisInForce
<1>4. ASSUME NEW d \in Nat
      PROVE  /\ BasisOn(d)' = BasisOn(d)
             /\ \A w \in BasisOn(d) : basis'[w] = basis[w]
  BY <1>1 DEF BasisOn
<1>5. PastBasisKept
  BY <1>4 DEF PastBasisKept
<1> QED
  BY <1>1, <1>3, <1>5 DEF BasisInv, EcoTypeOK

\* A version that replaces another starts today, so that no day that is over
\* changes hands; the first starts where nothing was.
LEMMA BasisInForceStep ==
    ASSUME BasisInv, NEW v \in Bases, activate_basis(v)
    PROVE  BasisInv' /\ PastBasisKept
<1>1. /\ basis[v].status = "approved"
      /\ BasisInForce # {} => basis[v].from = eco_day
      /\ basis' = [w \in Bases |->
            IF w = v THEN [basis[w] EXCEPT !.status = "active", !.to = 0]
            ELSE IF w \in BasisInForce
            THEN [basis[w] EXCEPT !.status = "superseded", !.to = basis[v].from]
            ELSE basis[w]]
      /\ UNCHANGED <<source, in_project, eco_day>>
  BY DEF activate_basis, TakeOver
<1>2. basis \in [Bases -> BasisVersionRow] /\ eco_day \in EcoDays
  BY DEF BasisInv, EcoTypeOK
<1>3. basis' \in [Bases -> BasisVersionRow]
  BY ZenonT(40), <1>1, <1>2 DEF BasisVersionRow
<1>4. /\ basis'[v].status = "active" /\ basis'[v].to = 0
      /\ basis'[v].from = basis[v].from
  BY <1>1, <1>2 DEF BasisVersionRow
<1>5. \A w \in Bases \ {v} :
        /\ basis'[w].from = basis[w].from /\ basis'[w].read = basis[w].read
        /\ basis'[w].reached = basis[w].reached
        /\ w \in BasisInForce => /\ basis'[w].status = "superseded"
                                 /\ basis'[w].to = basis[v].from
        /\ w \notin BasisInForce => basis'[w] = basis[w]
  BY <1>1, <1>2 DEF BasisVersionRow
<1>6. BasisInForce' = {v}
  BY <1>4, <1>5 DEF BasisInForce
<1>7. BasisHistory'
  BY <1>4, <1>6 DEF BasisHistory
<1>8. PastBasisKept
  <2>1. SUFFICES ASSUME NEW d \in 1..(eco_day - 1), BasisOn(d) # {}
                 PROVE  /\ BasisOn(d)' = BasisOn(d)
                        /\ \A w \in BasisOn(d) : /\ basis'[w].read = basis[w].read
                                                 /\ basis'[w].reached = basis[w].reached
    BY DEF PastBasisKept
  <2>2. BasisInForce # {}
    BY <2>1 DEF BasisOn, BasisInForce, BasisInv, BasisHistory
  <2>3. basis[v].from = eco_day /\ eco_day \in Nat /\ d \in Nat /\ d < eco_day
    <3>1. eco_day \in Nat
      BY <1>2, EconomicsAssumption DEF EcoDays
    <3>2. d \in Nat /\ d < eco_day
      BY <3>1
    <3> QED
      BY <1>1, <2>2, <3>1, <3>2
  <2>4. v \notin BasisOn(d) /\ v \notin BasisOn(d)'
    <3>1. v \notin BasisOn(d)
      BY <1>1 DEF BasisOn
    <3>2. ~(basis'[v].from <= d)
      BY <1>4, <2>3
    <3> QED
      BY <3>1, <3>2 DEF BasisOn
  <2>5. ASSUME NEW w \in Bases \ {v} PROVE w \in BasisOn(d)' <=> w \in BasisOn(d)
    <3>1. CASE w \in BasisInForce
      <4>1. basis[w].status = "active" /\ basis[w].to = 0
        BY <3>1 DEF BasisInForce, BasisInv, BasisHistory
      <4> QED
        BY <1>5, <2>3, <3>1, <4>1 DEF BasisOn
    <3>2. CASE w \notin BasisInForce
      BY <1>5, <3>2 DEF BasisOn
    <3> QED
      BY <3>1, <3>2
  <2>6. BasisOn(d)' = BasisOn(d) /\ BasisOn(d) \subseteq Bases \ {v}
    BY <2>4, <2>5 DEF BasisOn
  <2> QED
    BY <1>5, <2>6
<1> QED
  BY <1>1, <1>3, <1>7, <1>8 DEF BasisInv, EcoTypeOK

LEMMA BasisStep ==
    ASSUME BasisInv, BasisNext
    PROVE  BasisInv' /\ PastBasisKept
<1>1. /\ basis \in [Bases -> BasisVersionRow] /\ source \in Reading
      /\ in_project \subseteq EcoUnits
  BY DEF BasisInv, EcoTypeOK
<1>2. PICK v \in Bases :
        \/ \E day \in EcoDays, original \in {0} \cup Bases : create_basis(v, day, original)
        \/ \E pools \in SUBSET Pools : set_pools(v, pools)
        \/ calculate_version(v) \/ submit_basis(v) \/ approve_basis(v)
        \/ reject_basis(v) \/ activate_basis(v)
  BY DEF BasisNext
<1>3. NoReading \in Reading /\ [p \in Pools |-> {}] \in [Pools -> SUBSET EcoUnits]
  BY EconomicsAssumption DEF NoReading, Reading
<1>4. ASSUME NEW day \in {0} \cup EcoDays, NEW pools \in SUBSET Pools
      PROVE  LET row == [NoBasis EXCEPT !.status = "draft", !.from = day, !.pools = pools]
             IN  row \in BasisVersionRow /\ row.status = "draft"
  BY <1>3 DEF NoBasis, BasisVersionRow
<1>5. ASSUME NEW day \in EcoDays, NEW original \in {0} \cup Bases,
             create_basis(v, day, original)
      PROVE  BasisInv' /\ PastBasisKept
  <2> DEFINE pools == IF original = 0 THEN {} ELSE basis[original].pools
             row == [NoBasis EXCEPT !.status = "draft", !.from = day, !.pools = pools]
  <2>1. pools \in SUBSET Pools
    BY <1>1 DEF BasisVersionRow
  <2>2. basis[v].status = "none"
    BY <1>5 DEF create_basis, Bases
  <2>3. ChangeBasis(v, row)
    BY <1>5 DEF create_basis
  <2> HIDE DEF pools
  <2>4. row \in BasisVersionRow /\ row.status = "draft"
    BY <1>4, <2>1
  <2> QED
    BY <2>2, <2>3, <2>4, PreparedStep
<1>6. ASSUME NEW pools \in SUBSET Pools, set_pools(v, pools)
      PROVE  BasisInv' /\ PastBasisKept
  <2>1. /\ basis[v].status = "draft" /\ basis[v].from \in {0} \cup EcoDays
        /\ ChangeBasis(v, [NoBasis EXCEPT !.status = "draft", !.from = basis[v].from,
                                          !.pools = pools])
    BY <1>1, <1>6 DEF set_pools, BasisVersionRow
  <2> QED
    BY <1>4, <2>1, PreparedStep
<1>7. CASE calculate_version(v)
  <2> DEFINE reached == [p \in Pools |-> IF p \in basis[v].pools THEN Eligible(p) ELSE {}]
             row == [basis[v] EXCEPT !.calculated = TRUE, !.read = source,
                                     !.reached = reached]
  <2>1. basis[v].status = "draft" /\ ChangeBasis(v, row)
    BY <1>7 DEF calculate_version
  <2>2. reached \in [Pools -> SUBSET EcoUnits]
    BY <1>1 DEF Eligible
  <2> HIDE DEF reached
  <2>3. row \in BasisVersionRow /\ row.status = "draft"
    BY <1>1, <2>1, <2>2 DEF BasisVersionRow
  <2> QED
    BY <2>1, <2>3, PreparedStep
<1>8. ASSUME submit_basis(v) \/ approve_basis(v) \/ reject_basis(v)
      PROVE  BasisInv' /\ PastBasisKept
  <2>1. \A status \in {"submitted", "approved", "rejected"} :
          /\ [basis[v] EXCEPT !.status = status] \in BasisVersionRow
          /\ [basis[v] EXCEPT !.status = status].status = status
    BY <1>1 DEF BasisVersionRow
  <2> QED
    BY <1>8, <2>1, PreparedStep DEF submit_basis, approve_basis, reject_basis
<1> QED
  BY <1>2, <1>5, <1>6, <1>7, <1>8, BasisInForceStep

-----------------------------------------------------------------------------
(* The specification *)

LEMMA EcoSourceStep ==
    ASSUME BasisInv,
           \/ \E kind \in {"land", "forecast", "drivers"} : move_source(kind)
           \/ \E u \in EcoUnits : change_population(u)
           \/ next_eco_day
    PROVE  BasisInv' /\ PastBasisKept
<1>1. basis' = basis
  BY DEF move_source, change_population, next_eco_day
<1>2. BasisHistory' /\ PastBasisKept
  BY <1>1 DEF BasisInv, BasisHistory, BasisInForce, PastBasisKept, BasisOn
<1>3. /\ source \in Reading /\ in_project \subseteq EcoUnits /\ eco_day \in EcoDays
      /\ basis \in [Bases -> BasisVersionRow]
  BY DEF BasisInv, EcoTypeOK
<1>4. ASSUME NEW kind \in {"land", "forecast", "drivers"}, move_source(kind)
      PROVE  EcoTypeOK'
  <2>1. source[kind] \in 0..MaxReadings /\ source[kind] < MaxReadings
    BY <1>3, <1>4 DEF move_source, Reading
  <2>2. source[kind] + 1 \in 0..MaxReadings
    BY <2>1, EconomicsAssumption
  <2>3. [source EXCEPT ![kind] = source[kind] + 1] \in Reading
    BY <1>3, <2>2 DEF Reading
  <2> QED
    BY <1>3, <1>4, <2>3 DEF move_source, EcoTypeOK
<1>5. ASSUME NEW u \in EcoUnits, change_population(u)
      PROVE  EcoTypeOK'
  BY <1>3, <1>5 DEF change_population, EcoTypeOK
<1>6. ASSUME next_eco_day PROVE EcoTypeOK'
  BY <1>3, <1>6, EconomicsAssumption DEF next_eco_day, EcoTypeOK, EcoDays
<1>7. EcoTypeOK'
  BY <1>4, <1>5, <1>6
<1> QED
  BY <1>2, <1>7 DEF BasisInv

LEMMA BasisStart ==
    ASSUME EcoInit
    PROVE  BasisInv
<1>1. NoReading \in Reading /\ [p \in Pools |-> {}] \in [Pools -> SUBSET EcoUnits]
  BY EconomicsAssumption DEF NoReading, Reading
<1>2. NoBasis \in BasisVersionRow
  BY <1>1 DEF NoBasis, BasisVersionRow
<1>3. source \in Reading
  BY EconomicsAssumption DEF EcoInit, NoReading, Reading
<1>4. EcoTypeOK
  BY <1>2, <1>3, EconomicsAssumption DEF EcoInit, EcoTypeOK, EcoDays
<1>5. BasisHistory
  BY DEF EcoInit, BasisHistory, BasisInForce, NoBasis
<1> QED
  BY <1>4, <1>5 DEF BasisInv

LEMMA BasisKept ==
    ASSUME BasisInv, [EcoNext]_ecoVars
    PROVE  BasisInv' /\ [PastBasisKept]_ecoVars
<1>1. CASE EcoNext
  BY <1>1, BasisStep, EcoSourceStep DEF EcoNext
<1>2. CASE UNCHANGED ecoVars
  BY <1>2 DEF ecoVars, BasisInv, EcoTypeOK, BasisHistory, BasisInForce
<1> QED
  BY <1>1, <1>2

\* The cost bases are well typed, and the version in force has no end.
THEOREM BasisInvariant == EcoSpec => []BasisInv
<1>1. EcoInit => BasisInv
  BY BasisStart
<1>2. BasisInv /\ [EcoNext]_ecoVars => BasisInv'
  BY BasisKept
<1> QED
  BY <1>1, <1>2, PTL DEF EcoSpec

\* Every table keeps its columns' types.
THEOREM EcoTyped == EcoSpec => []EcoTypeOK
<1>1. BasisInv => EcoTypeOK
  BY DEF BasisInv
<1> QED
  BY <1>1, BasisInvariant, PTL

\* Whatever versions are prepared and put in force, a day that is over keeps the
\* cost basis it had.
THEOREM PastMargins == EcoSpec => PastMarginsStand
<1>1. BasisInv /\ [EcoNext]_ecoVars => [PastBasisKept]_ecoVars
  BY BasisKept
<1>2. EcoSpec => [][PastBasisKept]_ecoVars
  BY <1>1, BasisInvariant, PTL DEF EcoSpec
<1> QED
  BY <1>2 DEF PastMarginsStand, PastBasisKept

-----------------------------------------------------------------------------
(* Cost bases are versions of record *)

\* A row that is written is a version that moves, and no other says anything new.
LEMMA BasisRowMoves ==
    ASSUME basis \in [Bases -> BasisVersionRow], NEW v \in Bases, NEW row, ChangeBasis(v, row)
    PROVE  /\ CostStatus[v] = basis[v].status
           /\ CostStatus' = [CostStatus EXCEPT ![v] = row.status]
           /\ CostRecord!Writes(v)
           /\ row.from = basis[v].from /\ row.pools = basis[v].pools
                 /\ row.calculated = basis[v].calculated
                 /\ row.read = basis[v].read /\ row.reached = basis[v].reached
                 => CostContent' = CostContent
           /\ row.status = basis[v].status => CostStatus' = CostStatus
<1>1. basis'[v] = row /\ \A w \in Bases \ {v} : basis'[w] = basis[w]
  BY DEF ChangeBasis
<1>2. CostStatus' = [CostStatus EXCEPT ![v] = row.status]
  BY <1>1 DEF CostStatus
<1>3. CostRecord!Writes(v)
  BY <1>1 DEF CostContent, CostRecord!Writes
<1>4. row.from = basis[v].from /\ row.pools = basis[v].pools
         /\ row.calculated = basis[v].calculated
         /\ row.read = basis[v].read /\ row.reached = basis[v].reached
         => CostContent' = CostContent
  BY <1>1 DEF CostContent
<1>5. row.status = basis[v].status => CostStatus' = CostStatus
  BY <1>1 DEF CostStatus
<1> QED
  BY <1>2, <1>3, <1>4, <1>5 DEF CostStatus

\* Pools and calculations are rewritten on a draft only; taking over writes days.
LEMMA BasisStepRecorded ==
    ASSUME BasisInv, BasisNext
    PROVE  CostRecord!Next
<1>1. basis \in [Bases -> BasisVersionRow]
  BY DEF BasisInv, EcoTypeOK
<1>2. PICK v \in Bases :
        \/ \E day \in EcoDays, original \in {0} \cup Bases : create_basis(v, day, original)
        \/ \E pools \in SUBSET Pools : set_pools(v, pools)
        \/ calculate_version(v) \/ submit_basis(v) \/ approve_basis(v)
        \/ reject_basis(v) \/ activate_basis(v)
  BY DEF BasisNext
<1>3. ASSUME NEW day \in EcoDays, NEW original \in {0} \cup Bases,
             create_basis(v, day, original)
      PROVE  CostRecord!Draft(v)
  <2> DEFINE row == [NoBasis EXCEPT
                        !.status = "draft", !.from = day,
                        !.pools = IF original = 0 THEN {} ELSE basis[original].pools]
  <2>1. basis[v].status = "none" /\ ChangeBasis(v, row)
    BY <1>3 DEF create_basis, Bases
  <2>2. row.status = "draft"
    BY DEF NoBasis
  <2> HIDE DEF row
  <2> QED
    BY <1>1, <2>1, <2>2, BasisRowMoves DEF CostRecord!Draft
<1>4. ASSUME NEW row, row.status = "draft", basis[v].status = "draft", ChangeBasis(v, row)
      PROVE  CostRecord!Rewrite(v)
  BY <1>1, <1>4, BasisRowMoves DEF CostRecord!Rewrite
<1>5. ASSUME NEW pools \in SUBSET Pools, set_pools(v, pools)
      PROVE  CostRecord!Rewrite(v)
  <2>1. [NoBasis EXCEPT !.status = "draft", !.from = basis[v].from, !.pools = pools].status
           = "draft"
    BY DEF NoBasis
  <2> QED
    BY <1>4, <1>5, <2>1 DEF set_pools
<1>6. ASSUME calculate_version(v)
      PROVE  CostRecord!Rewrite(v)
  <2> DEFINE reached == [p \in Pools |-> IF p \in basis[v].pools THEN Eligible(p) ELSE {}]
             row == [basis[v] EXCEPT !.calculated = TRUE, !.read = source, !.reached = reached]
  <2>1. basis[v].status = "draft" /\ ChangeBasis(v, row)
    BY <1>6 DEF calculate_version
  <2> HIDE DEF reached
  <2>2. row.status = "draft"
    BY <1>1, <2>1 DEF BasisVersionRow
  <2> HIDE DEF row
  <2> QED
    BY <1>4, <2>1, <2>2
<1>7. ASSUME NEW status, NEW before, basis[v].status \in before,
             ChangeBasis(v, [basis[v] EXCEPT !.status = status])
      PROVE  CostRecord!Passes(v, before, status)
  <2> DEFINE row == [basis[v] EXCEPT !.status = status]
  <2>1. /\ row.status = status
        /\ row.from = basis[v].from /\ row.pools = basis[v].pools
        /\ row.calculated = basis[v].calculated
        /\ row.read = basis[v].read /\ row.reached = basis[v].reached
    BY <1>1 DEF BasisVersionRow
  <2>2. ChangeBasis(v, row)
    BY <1>7
  <2> HIDE DEF row
  <2> QED
    BY <1>1, <1>7, <2>1, <2>2, BasisRowMoves DEF CostRecord!Passes
<1>8. ASSUME submit_basis(v) PROVE CostRecord!Submit(v)
  BY <1>7, <1>8 DEF submit_basis, CostRecord!Submit
<1>9. ASSUME approve_basis(v) PROVE CostRecord!Approve(v)
  BY <1>7, <1>9 DEF approve_basis, CostRecord!Approve
<1>10. ASSUME reject_basis(v) PROVE CostRecord!Reject(v)
  <2>1. /\ basis[v].status \in {"draft", "submitted", "approved"}
        /\ ChangeBasis(v, [basis[v] EXCEPT !.status = "rejected"])
    BY <1>10 DEF reject_basis
  <2> QED
    BY <1>7, <2>1 DEF CostRecord!Reject
<1>11. ASSUME activate_basis(v) PROVE CostRecord!PutInForce(v)
  <2>1. /\ basis[v].status = "approved"
        /\ basis' = [w \in Bases |->
              IF w = v THEN [basis[w] EXCEPT !.status = "active", !.to = 0]
              ELSE IF w \in BasisInForce
              THEN [basis[w] EXCEPT !.status = "superseded", !.to = basis[v].from]
              ELSE basis[w]]
    BY <1>11 DEF activate_basis, TakeOver
  <2>2. \A w \in Bases :
          /\ basis'[w].status = IF w = v THEN "active"
                                ELSE IF basis[w].status = "active" THEN "superseded"
                                ELSE basis[w].status
          /\ basis'[w].from = basis[w].from /\ basis'[w].pools = basis[w].pools
          /\ basis'[w].calculated = basis[w].calculated
          /\ basis'[w].read = basis[w].read /\ basis'[w].reached = basis[w].reached
    BY <1>1, <2>1 DEF BasisVersionRow, BasisInForce
  <2>3. CostContent' = CostContent
    BY <2>2 DEF CostContent
  <2>4. CostStatus' = [w \in Bases |->
           IF w = v THEN "active"
           ELSE IF CostStatus[w] = "active" THEN "superseded" ELSE CostStatus[w]]
    BY <2>2 DEF CostStatus
  <2> QED
    BY <2>1, <2>3, <2>4 DEF CostRecord!PutInForce, CostStatus
<1> QED
  BY <1>2, <1>3, <1>5, <1>6, <1>8, <1>9, <1>10, <1>11 DEF CostRecord!Next

\* Cost bases keep the promise of versioned documents for any pools, units and
\* sources: UnitEconomics implements VersionOfRecord.
THEOREM CostsKeepRecord == EcoSpec => CostsOfRecord
<1>1. EcoInit => CostRecord!Init
  BY DEF EcoInit, NoBasis, CostRecord!Init, CostStatus
<1>2. BasisInv /\ [EcoNext]_ecoVars => [CostRecord!Next]_(CostRecord!record)
  <2>1. ASSUME UNCHANGED basis PROVE UNCHANGED CostRecord!record
    BY <2>1 DEF CostRecord!record, CostStatus, CostContent
  <2>2. BasisInv /\ EcoNext => CostRecord!Next \/ UNCHANGED basis
    BY BasisStepRecorded DEF EcoNext, move_source, change_population, next_eco_day
  <2> QED
    BY <2>1, <2>2 DEF ecoVars
<1> QED
  BY <1>1, <1>2, BasisInvariant, PTL DEF EcoSpec, CostsOfRecord, CostRecord!Spec

-----------------------------------------------------------------------------
(* Refunds *)

\* A refund is recorded for a case, on a day that has come.
RecordedInTime ==
    \A f \in Refunded : /\ refund[f].date <= refund_day
                        /\ refund[f].status # "none" => refund[f].case \in Cases

RefundInv == RefundTypeOK /\ RefundsWithinTerms /\ RecordedInTime

\* Refunds signed for case c.
SignedFor(c) == {f \in InConfirmed(refund) : refund[f].case = c}

LEMMA RefundNumbers ==
    /\ \A a \in Payments : a \in Nat /\ a > 0
    /\ LastRefundDay \in Nat \ {0}
    /\ IsFiniteSet(Deposits) /\ IsFiniteSet(Refunded)
<1>1. MaxDeposits \in Nat /\ MaxRefunds \in Nat
  BY RefundAssumption
<1>2. \A n \in Nat : IsFiniteSet(1..n)
  BY FS_Interval
<1> QED
  BY <1>1, <1>2, RefundAssumption DEF Deposits, Refunded

LEMMA TotalCounted ==
    ASSUME NEW table, IsFiniteSet(DOMAIN table), \A r \in DOMAIN table : table[r].amount \in Nat
    PROVE  ConfirmedTotal(table) \in Nat
<1>1. PICK g : g = [r \in InConfirmed(table) |-> table[r].amount]
  OBVIOUS
<1>2. IsFiniteSet(InConfirmed(table)) /\ InConfirmed(table) \subseteq DOMAIN table
  <2>1. InConfirmed(table) \subseteq DOMAIN table
    BY DEF InConfirmed
  <2> QED
    BY <2>1, FS_Subset
<1>3. SumFunction(g) \in Nat
  BY <1>1, <1>2, TableNat
<1> QED
  BY <1>1, <1>3 DEF ConfirmedTotal

LEMMA CashCounted ==
    ASSUME RefundTypeOK
    PROVE  CashIn \in Nat /\ CashOut \in Nat
<1>1. \A d \in Deposits : deposit[d].amount \in Nat
  BY RefundNumbers DEF RefundTypeOK, DepositRow
<1>2. \A f \in Refunded : refund[f].amount \in Nat
  BY RefundNumbers DEF RefundTypeOK, RefundRow
<1>3. DOMAIN deposit = Deposits /\ DOMAIN refund = Refunded
  BY DEF RefundTypeOK
<1> QED
  BY <1>1, <1>2, <1>3, RefundNumbers, TotalCounted DEF CashIn, CashOut

\* What a case keeps is part of what there is.
LEMMA DeductionFits ==
    ASSUME NEW amount \in Nat, NEW deduction \in {"nothing"} \cup Deductions
    PROVE  amount - Kept(deduction, amount) \in Nat
<1>1. deduction \in {"nothing", "half", "all"}
  BY RefundAssumption
<1>2. (amount + 1) \div 2 \in Nat /\ (amount + 1) \div 2 <= amount
  OBVIOUS
<1>3. Kept(deduction, amount) \in Nat /\ Kept(deduction, amount) <= amount
  BY <1>1, <1>2 DEF Kept
<1> QED
  BY <1>3

LEMMA PaidBackCounted ==
    ASSUME RefundTypeOK
    PROVE  /\ \A c : IsFiniteSet(SignedFor(c)) /\ SignedFor(c) \subseteq Refunded
           /\ \A c : PaidBack(c) \in Nat
           /\ \A c : SignedFor(c) = {} => PaidBack(c) = 0
<1> SUFFICES ASSUME NEW c
             PROVE  /\ IsFiniteSet(SignedFor(c)) /\ SignedFor(c) \subseteq Refunded
                    /\ PaidBack(c) \in Nat
                    /\ SignedFor(c) = {} => PaidBack(c) = 0
  OBVIOUS
<1>1. SignedFor(c) \subseteq Refunded
  BY DEF SignedFor, InConfirmed, RefundTypeOK
<1>2. IsFiniteSet(SignedFor(c))
  BY <1>1, RefundNumbers, FS_Subset
<1>3. PICK g : g = [f \in SignedFor(c) |-> refund[f].amount]
  OBVIOUS
<1>4. \A f \in SignedFor(c) : g[f] \in Nat
  BY <1>1, <1>3, RefundNumbers DEF RefundTypeOK, RefundRow
<1>5. SumFunction(g) \in Nat
  BY <1>2, <1>3, <1>4, TableNat
<1>6. SignedFor(c) = {} => SumFunction(g) = 0
  BY <1>2, <1>3, TableZero
<1>7. PaidBack(c) = SumFunction(g)
  BY <1>3 DEF PaidBack, SignedFor
<1> QED
  BY <1>1, <1>2, <1>5, <1>6, <1>7

BackCount == \A c : PaidBack(c) \in Nat

\* And is a count after a step as before it.
LEMMA BackCounted == RefundTypeOK' => BackCount'
<1>1. RefundTypeOK => BackCount
  BY PaidBackCounted DEF BackCount
<1> QED
  BY <1>1, PTL

\* A case that is not closed on signed terms has nothing paid back on it.
LEMMA NothingBackYet ==
    ASSUME RefundInv, NEW c \in Cases, case[c].status # "completed" \/ ~case[c].approved
    PROVE  PaidBack(c) = 0 /\ SignedFor(c) = {}
<1>1. SignedFor(c) = {}
  BY DEF SignedFor, RefundInv, RefundsWithinTerms
<1> QED
  BY <1>1, PaidBackCounted DEF RefundInv

\* The refunds stand, and with them what they add up to.
LEMMA RefundsStand ==
    ASSUME UNCHANGED refund
    PROVE  \A c : PaidBack(c)' = PaidBack(c) /\ SignedFor(c)' = SignedFor(c)
BY DEF PaidBack, SignedFor, InConfirmed

-----------------------------------------------------------------------------
(* Steps *)

LEMMA DepositStep ==
    ASSUME RefundInv, NEW d \in Deposits,
           \/ \E amount \in Payments : record_deposit(d, amount)
           \/ confirm_deposit(d) \/ reverse_deposit(d)
    PROVE  RefundInv'
<1>1. UNCHANGED <<case, refund, refund_day>>
  BY DEF record_deposit, confirm_deposit, reverse_deposit, ChangeDeposit
<1>2. deposit \in [Deposits -> DepositRow]
  BY DEF RefundInv, RefundTypeOK
<1>3. ASSUME NEW row \in DepositRow, ChangeDeposit(d, row)
      PROVE  deposit' \in [Deposits -> DepositRow]
  BY <1>2, <1>3 DEF ChangeDeposit
<1>4. \A amount \in Payments : [status |-> "recorded", amount |-> amount] \in DepositRow
  BY DEF DepositRow
<1>5. \A status \in {"confirmed", "reversed"} : [deposit[d] EXCEPT !.status = status] \in DepositRow
  BY <1>2 DEF DepositRow
<1>6. deposit' \in [Deposits -> DepositRow]
  BY <1>3, <1>4, <1>5 DEF record_deposit, confirm_deposit, reverse_deposit
<1>7. RefundsWithinTerms'
  BY <1>1, RefundsStand DEF RefundInv, RefundsWithinTerms, InConfirmed
<1> QED
  BY <1>1, <1>6, <1>7 DEF RefundInv, RefundTypeOK, RecordedInTime

\* The terms of a case with nothing paid back on it may be drawn up again.
LEMMA CaseRowStep ==
    ASSUME RefundInv, NEW c \in Cases, NEW row \in CaseRow, ChangeCase(c, row),
           case[c].status # "completed" \/ ~case[c].approved
    PROVE  RefundInv'
<1>1. UNCHANGED <<deposit, refund, refund_day>>
  BY DEF ChangeCase
<1>2. /\ case' \in [Cases -> CaseRow] /\ case'[c] = row
      /\ \A o \in Cases \ {c} : case'[o] = case[o]
  BY DEF ChangeCase, RefundInv, RefundTypeOK
<1>3. PaidBack(c) = 0 /\ SignedFor(c) = {}
  BY NothingBackYet
<1>4. row.due \in Nat
  BY DEF CaseRow
<1>5. InConfirmed(refund)' = InConfirmed(refund)
  BY <1>1 DEF InConfirmed
<1>6. ASSUME NEW o \in Cases
      PROVE  /\ PaidBack(o)' <= case'[o].due
             /\ \A f \in InConfirmed(refund)' : refund'[f].case = o =>
                  /\ case'[o].status = "completed" /\ case'[o].approved
                  /\ refund'[f].date \in case'[o].returned..refund_day'
  <2>1. PaidBack(o)' = PaidBack(o)
    BY <1>1, RefundsStand
  <2>2. CASE o = c
    <3>1. PaidBack(o)' <= case'[o].due
      BY <1>2, <1>3, <1>4, <2>1, <2>2
    <3>2. \A f \in InConfirmed(refund) : refund[f].case # o
      BY <1>3, <2>2 DEF SignedFor
    <3> QED
      BY <1>1, <1>5, <3>1, <3>2
  <2>3. CASE o # c
    BY <1>1, <1>2, <1>5, <2>1, <2>3 DEF RefundInv, RefundsWithinTerms
  <2> QED
    BY <2>2, <2>3
<1>7. RefundsWithinTerms'
  BY <1>6 DEF RefundsWithinTerms
<1> QED
  BY <1>1, <1>2, <1>7 DEF RefundInv, RefundTypeOK, RecordedInTime

LEMMA CaseStep ==
    ASSUME RefundInv, NEW c \in Cases,
           \/ \E deduction \in Deductions : open_case(c, deduction)
           \/ approve_terms(c) \/ withdraw_case(c)
           \/ \E date \in RefundDays : complete_case(c, date)
    PROVE  RefundInv'
<1>1. case \in [Cases -> CaseRow] /\ CashIn \in Nat /\ CashOut \in Nat
  BY CashCounted DEF RefundInv, RefundTypeOK
<1>2. case[c].keeps \in {"nothing"} \cup Deductions
  BY <1>1 DEF CaseRow
<1>3. ASSUME NEW deduction \in Deductions, open_case(c, deduction) PROVE RefundInv'
  <2>1. Held \in Nat
    <3>1. CashIn >= CashOut
      BY <1>3 DEF open_case
    <3> QED
      BY <1>1, <3>1 DEF Held
  <2>2. PICK due \in Nat : due = Held - Kept(deduction, Held)
    BY <2>1, DeductionFits
  <2> DEFINE required == Held > 0
             row == [NoCase EXCEPT !.status = "open", !.keeps = deduction,
                                   !.required = required, !.due = due]
  <2>3. required \in BOOLEAN
    OBVIOUS
  <2>4. ChangeCase(c, row) /\ case[c].status = "none"
    BY <1>3, <2>2 DEF open_case
  <2> HIDE DEF required
  <2>5. row \in CaseRow
    BY <2>3 DEF NoCase, CaseRow
  <2> QED
    BY <2>4, <2>5, CaseRowStep
<1>4. CASE approve_terms(c)
  <2>1. Held \in Nat
    BY <1>1, <1>4 DEF approve_terms, Held
  <2>2. PICK due \in Nat : due = Held - Kept(case[c].keeps, Held)
    BY <1>2, <2>1, DeductionFits
  <2>3. PICK row : row = [case[c] EXCEPT !.required = TRUE, !.approved = TRUE, !.due = due]
    OBVIOUS
  <2>4. row \in CaseRow
    BY <1>1, <2>3 DEF CaseRow
  <2>5. ChangeCase(c, row) /\ ~case[c].approved
    BY <1>4, <2>2, <2>3 DEF approve_terms
  <2> QED
    BY <2>4, <2>5, CaseRowStep
<1>5. CASE withdraw_case(c)
  <2>1. [case[c] EXCEPT !.status = "withdrawn"] \in CaseRow
    BY <1>1 DEF CaseRow
  <2> QED
    BY <1>5, <2>1, CaseRowStep DEF withdraw_case
<1>6. ASSUME NEW date \in RefundDays, complete_case(c, date) PROVE RefundInv'
  <2>1. [case[c] EXCEPT !.status = "completed", !.returned = date] \in CaseRow
    BY <1>1 DEF CaseRow
  <2> QED
    BY <1>6, <2>1, CaseRowStep DEF complete_case
<1> QED
  BY <1>3, <1>4, <1>5, <1>6

LEMMA RefundStep ==
    ASSUME RefundInv, NEW f \in Refunded,
           \/ \E c \in Cases, amount \in Payments, date \in RefundDays :
                 record_refund(f, c, amount, date)
           \/ confirm_refund(f) \/ reverse_refund(f)
    PROVE  RefundInv'
<1>1. UNCHANGED <<deposit, case, refund_day>>
  BY DEF record_refund, confirm_refund, reverse_refund, ChangeRefund
<1>2. /\ RefundTypeOK /\ refund \in [Refunded -> RefundRow]
      /\ case \in [Cases -> CaseRow] /\ refund_day \in Nat
  BY RefundNumbers DEF RefundInv, RefundTypeOK, RefundDays
<1>3. \A g \in Refunded : refund[g].amount \in Nat /\ refund[g].date \in Nat
  BY <1>2, RefundNumbers DEF RefundRow, RefundDays
<1>4. ASSUME NEW row \in RefundRow, ChangeRefund(f, row), row.date <= refund_day,
             row.case \in Cases
      PROVE  /\ RefundTypeOK' /\ RecordedInTime' /\ refund'[f] = row
             /\ \A g \in Refunded \ {f} : refund'[g] = refund[g]
             /\ DOMAIN refund' = Refunded
  BY <1>1, <1>2, <1>4 DEF ChangeRefund, RefundTypeOK, RefundInv, RecordedInTime
\* A refund that is not signed is put aside, or is put aside after it was.
<1>5. ASSUME NEW row \in RefundRow, ChangeRefund(f, row), row.date <= refund_day,
             row.case \in Cases, row.status # "confirmed"
      PROVE  RefundInv'
  <2>1. /\ RefundTypeOK' /\ RecordedInTime' /\ refund'[f] = row
        /\ \A g \in Refunded \ {f} : refund'[g] = refund[g]
        /\ DOMAIN refund' = Refunded /\ DOMAIN refund = Refunded
    BY <1>2, <1>4, <1>5
  <2>2. InConfirmed(refund)' = InConfirmed(refund) \ {f}
    BY <1>5, <2>1 DEF InConfirmed
  <2>3. ASSUME NEW c \in Cases PROVE PaidBack(c)' <= PaidBack(c)
    <3>1. PICK S : S = SignedFor(c)
      OBVIOUS
    <3>2. PICK T : T = SignedFor(c)'
      OBVIOUS
    <3>3. IsFiniteSet(S) /\ S \subseteq Refunded
      BY <1>2, <3>1, PaidBackCounted
    <3>4. T = S \ {f}
      BY <2>1, <2>2, <3>1, <3>2 DEF SignedFor, InConfirmed
    <3>5. PICK g : g = [r \in S |-> refund[r].amount]
      OBVIOUS
    <3>6. PICK h : h = [r \in T |-> refund'[r].amount]
      OBVIOUS
    <3>7. PaidBack(c) = SumFunction(g) /\ PaidBack(c)' = SumFunction(h)
      BY <3>1, <3>2, <3>5, <3>6 DEF PaidBack, SignedFor
    <3>8. CASE f \notin S
      <4>1. T = S /\ \A r \in S : refund'[r] = refund[r]
        BY <2>1, <3>3, <3>4, <3>8
      <4>2. h = g
        BY <3>5, <3>6, <4>1
      <4> QED
        BY <1>2, <3>7, <4>2, PaidBackCounted
    <3>9. CASE f \in S
      <4>1. DOMAIN g = S /\ DOMAIN h = S \ {f} /\ \A r \in S : g[r] \in Nat
        BY <1>3, <3>3, <3>4, <3>5, <3>6
      <4>2. \A r \in T : h[r] = g[r]
        BY <2>1, <3>3, <3>4, <3>5, <3>6
      <4>3. SumFunction(h) = SumFunction(g) - g[f]
        BY <3>3, <3>4, <3>9, <4>1, <4>2, TableShrinks
      <4>4. SumFunction(g) \in Nat /\ g[f] \in Nat
        BY <3>3, <3>9, <4>1, TableNat
      <4> QED
        BY <3>7, <4>3, <4>4
    <3> QED
      BY <3>8, <3>9
  <2>4. \A c \in Cases : PaidBack(c) \in Nat /\ case[c].due \in Nat /\ PaidBack(c)' \in Int
    <3>1. \A c : PaidBack(c) \in Nat
      BY <1>2, PaidBackCounted
    <3>2. \A c \in Cases : case[c].due \in Nat
      BY <1>2 DEF CaseRow
    <3> QED
      BY <2>1, <3>1, <3>2, BackCounted DEF BackCount
  <2>5. ASSUME NEW c \in Cases
        PROVE  /\ PaidBack(c)' <= case'[c].due
               /\ \A g \in InConfirmed(refund)' : refund'[g].case = c =>
                    /\ case'[c].status = "completed" /\ case'[c].approved
                    /\ refund'[g].date \in case'[c].returned..refund_day'
    <3>1. PaidBack(c) <= case[c].due
      BY DEF RefundInv, RefundsWithinTerms
    <3>2. PaidBack(c)' <= case'[c].due
      BY <1>1, <2>3, <2>4, <3>1
    <3>3. \A g \in InConfirmed(refund)' : g \in InConfirmed(refund) /\ refund'[g] = refund[g]
      BY <2>1, <2>2 DEF InConfirmed
    <3> QED
      BY <1>1, <3>2, <3>3 DEF RefundInv, RefundsWithinTerms
  <2>6. RefundsWithinTerms'
    BY <2>5 DEF RefundsWithinTerms
  <2> QED
    BY <2>1, <2>6 DEF RefundInv
<1>6. ASSUME NEW c \in Cases, NEW amount \in Payments, NEW date \in RefundDays,
             record_refund(f, c, amount, date)
      PROVE  RefundInv'
  <2>1. [status |-> "recorded", case |-> c, amount |-> amount, date |-> date] \in RefundRow
    BY DEF RefundRow
  <2> QED
    BY <1>5, <1>6, <2>1 DEF record_refund
<1>7. CASE reverse_refund(f)
  <2>1. LET row == [refund[f] EXCEPT !.status = "reversed"] IN
        row \in RefundRow /\ row.status = "reversed"
        /\ row.date = refund[f].date /\ row.case = refund[f].case
    BY <1>2 DEF RefundRow
  <2> QED
    BY <1>5, <1>7, <2>1 DEF reverse_refund, RefundInv, RecordedInTime
<1>8. CASE confirm_refund(f)
  <2>1. PICK row : row = [refund[f] EXCEPT !.status = "confirmed"]
    OBVIOUS
  <2>2. /\ row \in RefundRow /\ row.status = "confirmed" /\ row.date = refund[f].date
        /\ row.case = refund[f].case /\ row.amount = refund[f].amount
    BY <1>2, <2>1 DEF RefundRow
  <2>3. ChangeRefund(f, row)
    BY <1>8, <2>1 DEF confirm_refund
  <2>4. refund[f].date <= refund_day /\ refund[f].case \in Cases
    BY <1>8 DEF RefundInv, RecordedInTime, confirm_refund
  <2>5. /\ RefundTypeOK' /\ RecordedInTime' /\ refund'[f] = row
        /\ \A g \in Refunded \ {f} : refund'[g] = refund[g]
        /\ DOMAIN refund' = Refunded /\ DOMAIN refund = Refunded
    BY <1>2, <1>4, <2>2, <2>3, <2>4
  <2>6. /\ InConfirmed(refund)' = InConfirmed(refund) \cup {f}
        /\ f \notin InConfirmed(refund)
    BY <1>8, <2>2, <2>5 DEF InConfirmed, confirm_refund
  <2>7. PICK o \in Cases : o = refund[f].case
    BY <2>4
  <2>8. ASSUME NEW c \in Cases
        PROVE  /\ PaidBack(c)' <= case'[c].due
               /\ \A g \in InConfirmed(refund)' : refund'[g].case = c =>
                    /\ case'[c].status = "completed" /\ case'[c].approved
                    /\ refund'[g].date \in case'[c].returned..refund_day'
    <3>1. PICK S : S = SignedFor(c)
      OBVIOUS
    <3>2. PICK T : T = SignedFor(c)'
      OBVIOUS
    <3>3. IsFiniteSet(S) /\ S \subseteq Refunded /\ f \notin S
      BY <1>2, <2>6, <3>1, PaidBackCounted DEF SignedFor
    <3>4. /\ o = c => T = S \cup {f}
          /\ o # c => T = S
      BY <2>2, <2>5, <2>6, <2>7, <3>1, <3>2 DEF SignedFor, InConfirmed
    <3>5. PICK g : g = [r \in S |-> refund[r].amount]
      OBVIOUS
    <3>6. PICK h : h = [r \in T |-> refund'[r].amount]
      OBVIOUS
    <3>7. PaidBack(c) = SumFunction(g) /\ PaidBack(c)' = SumFunction(h)
      BY <3>1, <3>2, <3>5, <3>6 DEF PaidBack, SignedFor
    <3>8. PaidBack(c)' <= case'[c].due
      <4>1. CASE o = c
        <5>1. /\ DOMAIN g = S /\ DOMAIN h = S \cup {f}
              /\ h[f] = refund[f].amount /\ h[f] \in Nat
          BY <1>3, <2>2, <2>5, <3>4, <3>5, <3>6, <4>1
        <5>2. \A r \in S : g[r] \in Int /\ h[r] = g[r]
          BY <1>3, <2>5, <3>3, <3>4, <3>5, <3>6, <4>1
        <5>3. SumFunction(h) = SumFunction(g) + h[f]
          BY <3>3, <5>1, <5>2, TableGrows
        <5>4. PaidBack(c) + refund[f].amount <= case[c].due
          BY <1>8, <2>7, <4>1 DEF confirm_refund, Headroom
        <5> QED
          BY <1>1, <3>7, <5>1, <5>3, <5>4
      <4>2. CASE o # c
        <5>1. \A r \in S : refund'[r] = refund[r]
          BY <2>5, <3>3
        <5>2. h = g
          BY <3>4, <3>5, <3>6, <4>2, <5>1
        <5> QED
          BY <1>1, <3>7, <5>2 DEF RefundInv, RefundsWithinTerms
      <4> QED
        BY <4>1, <4>2
    <3>9. ASSUME NEW r \in InConfirmed(refund)', refund'[r].case = c
          PROVE  /\ case'[c].status = "completed" /\ case'[c].approved
                 /\ refund'[r].date \in case'[c].returned..refund_day'
      <4>1. CASE r = f
        <5>1. c = refund[f].case /\ refund'[r].date = refund[f].date
          BY <2>2, <2>5, <3>9, <4>1
        <5>2. /\ case[c].status = "completed" /\ case[c].approved
              /\ refund[f].date >= case[c].returned
          BY <1>8, <5>1 DEF confirm_refund, RefundAuthorised
        <5>3. refund[f].date \in Nat /\ case[c].returned \in Nat
          BY <1>2, <1>3, RefundNumbers DEF CaseRow, RefundDays
        <5> QED
          BY <1>1, <1>2, <2>4, <5>1, <5>2, <5>3
      <4>2. CASE r # f
        <5>1. r \in InConfirmed(refund) /\ refund'[r] = refund[r]
          BY <2>5, <2>6, <4>2 DEF InConfirmed
        <5> QED
          BY <1>1, <3>9, <5>1 DEF RefundInv, RefundsWithinTerms
      <4> QED
        BY <4>1, <4>2
    <3> QED
      BY <3>8, <3>9
  <2>9. RefundsWithinTerms'
    BY <2>8 DEF RefundsWithinTerms
  <2> QED
    BY <2>5, <2>9 DEF RefundInv
<1> QED
  BY <1>6, <1>7, <1>8

LEMMA RefundDayStep ==
    ASSUME RefundInv, next_refund_day
    PROVE  RefundInv'
<1>1. UNCHANGED <<deposit, case, refund>> /\ refund_day' = refund_day + 1
  BY DEF next_refund_day
<1>2. refund_day \in RefundDays /\ refund_day' \in RefundDays /\ refund_day' > refund_day
  BY <1>1, RefundNumbers DEF RefundInv, RefundTypeOK, RefundDays, next_refund_day
<1>3. RefundTypeOK'
  BY <1>1, <1>2 DEF RefundInv, RefundTypeOK
<1>4. \A f \in Refunded : refund[f].date \in Nat
  BY RefundNumbers DEF RefundInv, RefundTypeOK, RefundRow, RefundDays
<1>5. \A c \in Cases : case[c].returned \in Nat
  BY RefundNumbers DEF RefundInv, RefundTypeOK, CaseRow, RefundDays
<1>6. RecordedInTime'
  BY <1>1, <1>2, <1>4 DEF RefundInv, RecordedInTime, RefundDays
<1>7. RefundsWithinTerms'
  <2>1. \A x \in Int : x <= refund_day => x <= refund_day'
    BY <1>2 DEF RefundDays
  <2>2. InConfirmed(refund)' = InConfirmed(refund)
    BY <1>1 DEF InConfirmed
  <2>3. ASSUME NEW c \in Cases, NEW f \in InConfirmed(refund), refund[f].case = c
        PROVE  refund[f].date \in case[c].returned..refund_day'
    <3>1. refund[f].date \in case[c].returned..refund_day
      BY <2>3 DEF RefundInv, RefundsWithinTerms
    <3>2. case[c].returned \in Int /\ refund_day \in Int /\ refund_day' \in Int
      BY <1>2, <1>5 DEF RefundDays
    <3> QED
      BY <1>2, <3>1, <3>2
  <2> QED
    BY <1>1, <2>2, <2>3, RefundsStand DEF RefundInv, RefundsWithinTerms
<1> QED
  BY <1>3, <1>6, <1>7 DEF RefundInv

LEMMA RefundStart ==
    ASSUME RefundInit
    PROVE  RefundInv
<1>1. RefundTypeOK
  BY RefundNumbers DEF RefundInit, RefundTypeOK, NoDeposit, DepositRow, NoCase, CaseRow,
     NoRefund, RefundRow, RefundDays
<1>2. RecordedInTime
  BY DEF RefundInit, RecordedInTime, NoRefund
<1>3. InConfirmed(refund) = {}
  BY DEF RefundInit, InConfirmed, NoRefund
<1>4. \A c : PaidBack(c) = 0
  BY <1>1, <1>3, PaidBackCounted DEF SignedFor
<1>5. \A c \in Cases : case[c].due = 0
  BY DEF RefundInit, NoCase
<1>6. RefundsWithinTerms
  BY <1>3, <1>4, <1>5 DEF RefundsWithinTerms
<1> QED
  BY <1>1, <1>2, <1>6 DEF RefundInv

\* Refunds are within their terms, each for a case and on a day that has come.
THEOREM RefundInvariant == RefundSpec => []RefundInv
<1>1. RefundInit => RefundInv
  BY RefundStart
<1>2. RefundInv /\ [RefundNext]_refundVars => RefundInv'
  <2>1. ASSUME RefundInv, RefundNext PROVE RefundInv'
    BY <2>1, DepositStep, CaseStep, RefundStep, RefundDayStep DEF RefundNext
  <2>2. ASSUME RefundInv, UNCHANGED refundVars PROVE RefundInv'
    <3>1. UNCHANGED <<deposit, case, refund, refund_day>>
      BY <2>2 DEF refundVars
    <3> QED
      BY <2>2, <3>1, RefundsStand DEF RefundInv, RefundTypeOK, RefundsWithinTerms,
         RecordedInTime, InConfirmed
  <2> QED
    BY <2>1, <2>2
<1> QED
  BY <1>1, <1>2, PTL DEF RefundSpec

\* Every table keeps its columns' types.
THEOREM RefundTypesKept == RefundSpec => []RefundTypeOK
<1>1. RefundInv => RefundTypeOK
  BY DEF RefundInv
<1> QED
  BY <1>1, RefundInvariant, PTL

\* Whatever was received, kept, recorded, signed and taken back: what left the bank for
\* a case fits inside what its approver signed, and left after the unit came back.
THEOREM RefundsFitTheirTerms == RefundSpec => []RefundsWithinTerms
<1>1. RefundInv => RefundsWithinTerms
  BY DEF RefundInv
<1> QED
  BY <1>1, RefundInvariant, PTL

-----------------------------------------------------------------------------
(* Cash *)

LEMMA CashNumbers ==
    /\ \A a \in Sums : a \in Nat /\ a # 0
    /\ LastCashDay \in Nat \ {0}
    /\ IsFiniteSet(Restrictions) /\ IsFiniteSet(Releases)
    /\ \A d \in CashDays : d \in Nat /\ d # 0
<1>1. MaxRestrictions \in Nat /\ MaxReleases \in Nat
  BY CashAssumption
<1>2. \A n \in Nat : IsFiniteSet(1..n)
  BY FS_Interval
<1> QED
  BY <1>1, <1>2, CashAssumption DEF Restrictions, Releases, CashDays

MonthsTypeOK ==
    /\ build \in [Builds -> BuildRow]
    /\ buyer_plan \in [BuyerPlans -> BuyerPlanRow]
    /\ cash_forecast \in [CashForecasts -> CashForecastRow]

EscrowTypeOK ==
    /\ received \in [ReceivedCash -> MoneyRow({0})]
    /\ restriction \in [Restrictions -> MoneyRow({0} \cup ReceivedCash)]
    /\ release \in [Releases -> MoneyRow({0} \cup Restrictions)]

MovementTypeOK ==
    /\ movement \in [Movements -> MovementRow]
    /\ reviewing \in [Movements -> {0} \cup Sums]

LEMMA TypesTogether ==
    CashTypeOK <=> MonthsTypeOK /\ EscrowTypeOK /\ MovementTypeOK /\ cash_day \in CashDays
BY DEF CashTypeOK, MonthsTypeOK, EscrowTypeOK, MovementTypeOK

-----------------------------------------------------------------------------
(* Development cash *)

LEMMA MovementTyped ==
    ASSUME CashTypeOK, MovementNext
    PROVE  CashTypeOK'
<1>1. movement \in [Movements -> MovementRow] /\ reviewing \in [Movements -> {0} \cup Sums]
  BY DEF CashTypeOK
<1>2. PICK m \in Movements :
        \/ \E amount \in Sums : record_movement(m, amount) \/ correct_prelaunch_expense(m, amount)
        \/ review_movement(m) \/ confirm_expected(m) \/ confirm_movement(m)
        \/ give_up(m) \/ reverse_movement(m)
  BY DEF MovementNext
<1>3. UNCHANGED <<forecastVars, escrowVars, cash_day>>
  BY <1>2 DEF record_movement, correct_prelaunch_expense, review_movement, confirm_expected,
     confirm_movement, give_up, reverse_movement, ChangeMovement, Confirmed
<1>4. UNCHANGED <<build, buyer_plan, cash_forecast, received, restriction, release, cash_day>>
  BY <1>3 DEF forecastVars, escrowVars
<1>5. SUFFICES movement' \in [Movements -> MovementRow] /\ reviewing' \in [Movements -> {0} \cup Sums]
  BY <1>4 DEF CashTypeOK
<1>6. ASSUME NEW row \in MovementRow, ChangeMovement(m, row)
      PROVE  movement' \in [Movements -> MovementRow]
  BY <1>1, <1>6 DEF ChangeMovement
<1>7. \A status \in {"confirmed", "reversed"} :
        [movement[m] EXCEPT !.status = status] \in MovementRow
  BY <1>1 DEF MovementRow
<1>8. \A amount \in Sums :
        /\ [status |-> "recorded", amount |-> amount] \in MovementRow
        /\ [movement[m] EXCEPT !.amount = amount] \in MovementRow
  BY <1>1 DEF MovementRow
<1>9. movement[m].amount \in {0} \cup Sums
  BY <1>1 DEF MovementRow
<1>10. ASSUME NEW amount \in Sums, record_movement(m, amount) \/ correct_prelaunch_expense(m, amount)
       PROVE  movement' \in [Movements -> MovementRow] /\ reviewing' \in [Movements -> {0} \cup Sums]
  BY <1>1, <1>6, <1>8, <1>10 DEF record_movement, correct_prelaunch_expense
<1>11. CASE review_movement(m)
  BY <1>1, <1>9, <1>11 DEF review_movement
<1>12. CASE confirm_expected(m)
  BY <1>1, <1>6, <1>7, <1>12 DEF confirm_expected, Confirmed
<1>13. CASE confirm_movement(m)
  BY <1>1, <1>6, <1>7, <1>13 DEF confirm_movement, Confirmed
<1>14. CASE give_up(m)
  BY <1>1, <1>14 DEF give_up
<1>15. CASE reverse_movement(m)
  BY <1>1, <1>6, <1>7, <1>15 DEF reverse_movement
<1> QED
  BY <1>2, <1>10, <1>11, <1>12, <1>13, <1>14, <1>15

ReadBeforeConfirmed ==
    \A m \in Movements :
        reviewing[m] # 0 /\ reviewing'[m] = 0 /\ movement'[m] # movement[m]
            => movement'[m].amount = reviewing[m]

LEMMA MovementRead ==
    ASSUME CashTypeOK, MovementNext
    PROVE  ReadBeforeConfirmed
<1>1. movement \in [Movements -> MovementRow] /\ reviewing \in [Movements -> {0} \cup Sums]
  BY DEF CashTypeOK
<1>2. PICK m \in Movements :
        \/ \E amount \in Sums : record_movement(m, amount) \/ correct_prelaunch_expense(m, amount)
        \/ review_movement(m) \/ confirm_expected(m) \/ confirm_movement(m)
        \/ give_up(m) \/ reverse_movement(m)
  BY DEF MovementNext
<1>3. CASE confirm_expected(m)
  <2>1. /\ movement'[m].amount = reviewing[m]
        /\ \A o \in Movements \ {m} : movement'[o] = movement[o]
    BY <1>1, <1>3 DEF confirm_expected, Confirmed, ChangeMovement, MovementRow
  <2> QED
    BY <2>1 DEF ReadBeforeConfirmed
<1>4. CASE review_movement(m) \/ give_up(m)
  BY <1>4 DEF ReadBeforeConfirmed, review_movement, give_up
<1>5. CASE \/ \E amount \in Sums : record_movement(m, amount) \/ correct_prelaunch_expense(m, amount)
           \/ confirm_movement(m) \/ reverse_movement(m)
  <2>1. UNCHANGED reviewing
    BY <1>5 DEF record_movement, correct_prelaunch_expense, confirm_movement, reverse_movement
  <2> QED
    BY <2>1 DEF ReadBeforeConfirmed
<1> QED
  BY <1>2, <1>3, <1>4, <1>5

-----------------------------------------------------------------------------
(* Forecasts *)

\* Whatever step it is, the rows of v before and after it.
SignedStands(v) ==
    LET was == cash_forecast[v]  is == cash_forecast'[v] IN
    /\ was.status \in {"approved", "active", "superseded"}
          => [is EXCEPT !.status = "draft"] = [was EXCEPT !.status = "draft"]
    /\ was.status # "active" /\ is.status = "active"
          => /\ BuildInForce \subseteq {is.pin}
             /\ is.snapshot = GoverningOn(is.as_of)
             /\ is.scheduled = build[is.pin].left

MonthsKept ==
    MonthsTypeOK' /\ \A v \in CashForecasts : SignedStands(v)

LEMMA ForecastsStand ==
    ASSUME MonthsTypeOK, UNCHANGED cash_forecast
    PROVE  \A v \in CashForecasts : SignedStands(v)
BY DEF SignedStands

\* A forecast that is not signed is drawn up.
LEMMA ForecastRowStep ==
    ASSUME MonthsTypeOK, NEW v \in CashForecasts, NEW row \in CashForecastRow,
           ChangeCashForecast(v, row), row.status # "active",
           \/ cash_forecast[v].status \notin {"approved", "active", "superseded"}
           \/ [row EXCEPT !.status = "draft"] = [cash_forecast[v] EXCEPT !.status = "draft"]
    PROVE  MonthsKept
<1>1. /\ cash_forecast' \in [CashForecasts -> CashForecastRow] /\ cash_forecast'[v] = row
      /\ \A w \in CashForecasts \ {v} : cash_forecast'[w] = cash_forecast[w]
      /\ UNCHANGED <<build, buyer_plan>>
  BY DEF MonthsTypeOK, ChangeCashForecast
<1>2. SignedStands(v)
  BY <1>1 DEF SignedStands
<1>3. \A w \in CashForecasts \ {v} : SignedStands(w)
  BY <1>1 DEF SignedStands
<1> QED
  BY <1>1, <1>2, <1>3 DEF MonthsKept, MonthsTypeOK

LEMMA PlacedTyped ==
    ASSUME NEW d
    PROVE  Placed(d) \in SUBSET BuyerPlans
BY DEF Placed, GoverningOn

LEMMA ForecastStep ==
    ASSUME MonthsTypeOK, NEW v \in CashForecasts,
           \/ \E as_of \in CashDays, b \in Builds : create_cash_forecast(v, as_of, b)
           \/ \E amount \in {0} \cup Sums : set_cash_line(v, amount)
           \/ refresh_customer_snapshot(v) \/ submit_cash_forecast(v)
           \/ approve_cash_forecast(v) \/ reject_cash_forecast(v)
    PROVE  MonthsKept
<1>1. cash_forecast[v] \in CashForecastRow
  BY DEF MonthsTypeOK
<1>2. PICK row : row = cash_forecast[v]
  OBVIOUS
<1>3. ASSUME NEW as_of \in CashDays, NEW b \in Builds, create_cash_forecast(v, as_of, b)
      PROVE  MonthsKept
  <2>1. cash_forecast[v].status = "none"
    <3>1. v \in Nat /\ ~(v < v)
      BY DEF CashForecasts
    <3> QED
      BY <1>3, <3>1 DEF create_cash_forecast
  <2>2. [status |-> "draft", as_of |-> as_of, pin |-> b, scheduled |-> 0,
         snapshot |-> Placed(as_of)] \in CashForecastRow
    BY PlacedTyped DEF CashForecastRow, MaybeDay
  <2> QED
    BY <1>3, <2>1, <2>2, ForecastRowStep DEF create_cash_forecast
<1>4. ASSUME NEW amount \in {0} \cup Sums, set_cash_line(v, amount)
      PROVE  MonthsKept
  <2>1. LET new == [row EXCEPT !.scheduled = amount] IN
        new \in CashForecastRow /\ new.status = row.status
    BY <1>1, <1>2 DEF CashForecastRow
  <2> QED
    BY <1>2, <1>4, <2>1, ForecastRowStep DEF set_cash_line
<1>5. CASE refresh_customer_snapshot(v)
  <2>1. LET new == [row EXCEPT !.snapshot = Placed(row.as_of)] IN
        new \in CashForecastRow /\ new.status = row.status
    BY <1>1, <1>2, PlacedTyped DEF CashForecastRow
  <2> QED
    BY <1>2, <1>5, <2>1, ForecastRowStep DEF refresh_customer_snapshot
<1>6. CASE submit_cash_forecast(v) \/ approve_cash_forecast(v) \/ reject_cash_forecast(v)
  <2>1. \A status \in {"submitted", "approved", "rejected"} :
          LET new == [row EXCEPT !.status = status] IN
          /\ new \in CashForecastRow /\ new.status = status
          /\ [new EXCEPT !.status = "draft"] = [row EXCEPT !.status = "draft"]
    BY <1>1, <1>2 DEF CashForecastRow
  <2>2. PICK status \in {"submitted", "approved", "rejected"} :
          ChangeCashForecast(v, [row EXCEPT !.status = status])
    BY <1>2, <1>6 DEF submit_cash_forecast, approve_cash_forecast, reject_cash_forecast
  <2>3. PICK new : new = [row EXCEPT !.status = status]
    OBVIOUS
  <2>4. /\ new \in CashForecastRow /\ new.status = status
        /\ [new EXCEPT !.status = "draft"] = [row EXCEPT !.status = "draft"]
    BY <2>1, <2>3
  <2>5. ChangeCashForecast(v, new)
    BY <2>2, <2>3
  <2> QED
    BY <1>2, <2>4, <2>5, ForecastRowStep
<1> QED
  BY <1>3, <1>4, <1>5, <1>6

\* What comes in force was ready, and what was in force keeps its months.
LEMMA InForceStep ==
    ASSUME MonthsTypeOK, NEW v \in CashForecasts, activate_cash_forecast(v)
    PROVE  MonthsKept
<1>1. UNCHANGED <<build, buyer_plan>>
  BY DEF activate_cash_forecast, Supersede
<1>2. \A w \in CashForecasts : cash_forecast[w] \in CashForecastRow
  BY DEF MonthsTypeOK
<1>3. cash_forecast' = [w \in CashForecasts |->
          IF w = v THEN [cash_forecast[w] EXCEPT !.status = "active"]
          ELSE IF w \in CashForecastInForce
          THEN [cash_forecast[w] EXCEPT !.status = "superseded"]
          ELSE cash_forecast[w]]
  BY DEF activate_cash_forecast, Supersede
<1>4. \A row \in CashForecastRow : \A status \in {"active", "superseded"} :
        LET new == [row EXCEPT !.status = status] IN
        /\ new \in CashForecastRow /\ new.status = status
        /\ [new EXCEPT !.status = "draft"] = [row EXCEPT !.status = "draft"]
        /\ new.pin = row.pin /\ new.snapshot = row.snapshot /\ new.as_of = row.as_of
        /\ new.scheduled = row.scheduled
  BY DEF CashForecastRow
<1>5. /\ cash_forecast'[v] \in CashForecastRow
      /\ SignedStands(v)
  <2>1. PICK row \in CashForecastRow : row = cash_forecast[v]
    BY <1>2
  <2>2. PICK new : new = [row EXCEPT !.status = "active"]
    OBVIOUS
  <2>3. cash_forecast'[v] = new
    BY <1>3, <2>1, <2>2
  <2>4. /\ new \in CashForecastRow
        /\ [new EXCEPT !.status = "draft"] = [row EXCEPT !.status = "draft"]
        /\ new.pin = row.pin /\ new.snapshot = row.snapshot /\ new.as_of = row.as_of
        /\ new.scheduled = row.scheduled
    BY <1>4, <2>2
  <2>5. /\ BuildInForce \subseteq {row.pin} /\ row.snapshot = GoverningOn(row.as_of)
        /\ row.scheduled = build[row.pin].left
    BY <2>1 DEF activate_cash_forecast, Ready, BuildMoved, SchedulesMoved
  <2> QED
    BY <2>1, <2>3, <2>4, <2>5 DEF SignedStands
<1>6. ASSUME NEW w \in CashForecasts, w # v
      PROVE  cash_forecast'[w] \in CashForecastRow /\ SignedStands(w)
  <2>1. CASE w \in CashForecastInForce
    <3>1. PICK row \in CashForecastRow : row = cash_forecast[w]
      BY <1>2
    <3>2. PICK new : new = [row EXCEPT !.status = "superseded"]
      OBVIOUS
    <3>3. cash_forecast'[w] = new
      BY <1>3, <1>6, <2>1, <3>1, <3>2
    <3>4. /\ new \in CashForecastRow /\ new.status = "superseded"
          /\ [new EXCEPT !.status = "draft"] = [row EXCEPT !.status = "draft"]
      BY <1>4, <3>2
    <3> QED
      BY <3>1, <3>3, <3>4 DEF SignedStands
  <2>2. CASE w \notin CashForecastInForce
    <3>1. cash_forecast'[w] = cash_forecast[w]
      BY <1>3, <1>6, <2>2
    <3> QED
      BY <1>2, <3>1 DEF SignedStands
  <2> QED
    BY <2>1, <2>2
<1>7. cash_forecast' \in [CashForecasts -> CashForecastRow]
  BY <1>3, <1>5, <1>6
<1> QED
  BY <1>1, <1>5, <1>6, <1>7 DEF MonthsKept, MonthsTypeOK

LEMMA SourceStep ==
    ASSUME MonthsTypeOK, cash_day \in CashDays,
           \/ \E b \in Builds :
                 \/ \E left \in Sums : prepare_build(b, left)
                 \/ activate_build(b)
           \/ \E p \in BuyerPlans :
                 \/ \E dated \in BOOLEAN : activate_buyer_plan(p, dated)
                 \/ date_instalment(p)
    PROVE  MonthsKept
<1>1. UNCHANGED cash_forecast
  BY DEF prepare_build, activate_build, ChangeBuild, activate_buyer_plan, date_instalment,
         ChangeBuyerPlan
<1>2. SUFFICES /\ build' \in [Builds -> BuildRow]
               /\ buyer_plan' \in [BuyerPlans -> BuyerPlanRow]
  BY <1>1, ForecastsStand DEF MonthsKept, MonthsTypeOK
<1>3. build \in [Builds -> BuildRow] /\ buyer_plan \in [BuyerPlans -> BuyerPlanRow]
  BY DEF MonthsTypeOK
<1>4. ASSUME NEW b \in Builds, NEW left \in Sums, prepare_build(b, left)
      PROVE  /\ build' \in [Builds -> BuildRow]
             /\ buyer_plan' \in [BuyerPlans -> BuyerPlanRow]
  <2>1. [status |-> "preparing", left |-> left] \in BuildRow
    BY CashNumbers DEF BuildRow
  <2> QED
    BY <1>3, <1>4, <2>1 DEF prepare_build, ChangeBuild
<1>5. ASSUME NEW b \in Builds, activate_build(b)
      PROVE  /\ build' \in [Builds -> BuildRow]
             /\ buyer_plan' \in [BuyerPlans -> BuyerPlanRow]
  <2>1. \A c \in Builds, status \in {"active", "superseded"} :
          [build[c] EXCEPT !.status = status] \in BuildRow
    BY <1>3 DEF BuildRow
  <2> QED
    BY <1>3, <1>5, <2>1 DEF activate_build, ChangeBuild
<1>6. ASSUME NEW p \in BuyerPlans, NEW dated \in BOOLEAN, activate_buyer_plan(p, dated)
      PROVE  /\ build' \in [Builds -> BuildRow]
             /\ buyer_plan' \in [BuyerPlans -> BuyerPlanRow]
  <2>1. cash_day \in MaybeDay /\ 0 \in MaybeDay
    BY DEF MaybeDay
  <2>2. [from |-> cash_day, to |-> 0, dated |-> dated] \in BuyerPlanRow
    BY <2>1 DEF BuyerPlanRow
  <2>3. \A q \in BuyerPlans : [buyer_plan[q] EXCEPT !.to = cash_day] \in BuyerPlanRow
    BY <1>3, <2>1 DEF BuyerPlanRow
  <2> QED
    BY <1>3, <1>6, <2>2, <2>3 DEF activate_buyer_plan, ChangeBuyerPlan
<1>7. ASSUME NEW p \in BuyerPlans, date_instalment(p)
      PROVE  /\ build' \in [Builds -> BuildRow]
             /\ buyer_plan' \in [BuyerPlans -> BuyerPlanRow]
  BY <1>3, <1>7 DEF date_instalment, ChangeBuyerPlan, BuyerPlanRow
<1> QED
  BY <1>4, <1>5, <1>6, <1>7

-----------------------------------------------------------------------------
(* Restricted cash *)

Dated(row) == row.confirmed <= cash_day /\ row.reversed <= cash_day

\* The amount released against e and not taken back.
Against(e) == ReleasedAgainst(e, {})

\* What the tables are at any time, of which a report as at today is made: escrow is
\* within its receipt and one stands on it, and releases are within the escrow.
EscrowDated ==
    /\ \A r \in ReceivedCash : Dated(received[r])
    /\ \A e \in Restrictions : Dated(restriction[e])
    /\ \A l \in Releases : Dated(release[l])

EscrowWithinReceipt ==
    \A e \in Restrictions :
        \/ restriction[e] = NoMoney
        \/ /\ restriction[e].amount # 0 /\ restriction[e].on \in ReceivedCash
           /\ received[restriction[e].on].confirmed # 0
           /\ restriction[e].amount <= received[restriction[e].on].amount

ReleasesWritten ==
    \A l \in Releases :
        \/ release[l] = NoMoney
        \/ release[l].amount # 0 /\ release[l].on \in Restrictions

OneEscrow ==
    \A e, f \in Restrictions :
        /\ restriction[e].on # 0 /\ restriction[e].on = restriction[f].on
        /\ restriction[e].reversed = 0 /\ restriction[f].reversed = 0
        => e = f

ReleasedWithin == \A e \in Restrictions : Against(e) <= restriction[e].amount

EscrowInv ==
    /\ EscrowTypeOK /\ cash_day \in CashDays
    /\ EscrowDated /\ EscrowWithinReceipt /\ ReleasesWritten /\ OneEscrow /\ ReleasedWithin

CoveredOn(d) ==
    \A r \in ReceivedCash :
        /\ FreedAt(r, d) <= HeldAt(r, d)
        /\ HeldAt(r, d) <= (IF Stands(received[r], d) THEN received[r].amount ELSE 0)

LEMMA EscrowNumbers ==
    ASSUME EscrowTypeOK, cash_day \in CashDays
    PROVE  /\ cash_day \in Nat /\ cash_day # 0
           /\ \A r \in ReceivedCash : /\ received[r].amount \in Nat
                                      /\ received[r].confirmed \in Nat /\ received[r].reversed \in Nat
           /\ \A e \in Restrictions : /\ restriction[e].amount \in Nat
                                      /\ restriction[e].confirmed \in Nat /\ restriction[e].reversed \in Nat
                                      /\ restriction[e].on \in {0} \cup ReceivedCash
           /\ \A l \in Releases : /\ release[l].amount \in Nat
                                  /\ release[l].confirmed \in Nat /\ release[l].reversed \in Nat
                                  /\ release[l].on \in {0} \cup Restrictions
           /\ \A r \in ReceivedCash : r # 0
           /\ \A e \in Restrictions : e # 0
<1>1. \A d \in MaybeDay : d \in Nat
  BY CashNumbers DEF MaybeDay
<1>2. \A a \in {0} \cup Sums : a \in Nat
  BY CashNumbers
<1>3. cash_day \in Nat /\ cash_day # 0
  BY CashNumbers
<1>4. \A fields : \A row \in MoneyRow(fields) :
        row.amount \in Nat /\ row.confirmed \in Nat /\ row.reversed \in Nat /\ row.on \in fields
  BY <1>1, <1>2 DEF MoneyRow
<1>5. (\A r \in ReceivedCash : r # 0) /\ (\A e \in Restrictions : e # 0)
  BY DEF ReceivedCash, Restrictions
<1> QED
  BY <1>3, <1>4, <1>5 DEF EscrowTypeOK

\* As at the current day a row stands when it is confirmed and not reversed.
LEMMA StandsToday ==
    ASSUME NEW row, NEW d \in Nat, row.confirmed \in Nat, row.confirmed <= d,
           row.reversed \in Nat, row.reversed <= d
    PROVE  Stands(row, d) <=> row.confirmed # 0 /\ row.reversed = 0
BY DEF Stands

LEMMA AgainstCounted ==
    ASSUME EscrowTypeOK, cash_day \in CashDays, NEW e
    PROVE  Against(e) \in Nat
<1>1. PICK U : U = {k \in Releases \ {} : release[k].on = e /\ Recorded(release[k])}
  OBVIOUS
<1>2. U \subseteq Releases /\ IsFiniteSet(U)
  BY <1>1, CashNumbers, FS_Subset
<1>3. PICK g : g = [l \in U |-> release[l].amount]
  OBVIOUS
<1>4. \A l \in U : g[l] \in Nat
  BY <1>2, <1>3, EscrowNumbers
<1>5. SumFunction(g) \in Nat
  BY <1>2, <1>3, <1>4, TableNat
<1> QED
  BY <1>1, <1>3, <1>5 DEF Against, ReleasedAgainst

LEMMA CoveredToday ==
    ASSUME EscrowInv
    PROVE  CoveredOn(cash_day)
<1> SUFFICES ASSUME NEW r \in ReceivedCash
             PROVE  /\ FreedAt(r, cash_day) <= HeldAt(r, cash_day)
                    /\ HeldAt(r, cash_day) <= (IF Stands(received[r], cash_day)
                                               THEN received[r].amount ELSE 0)
  BY DEF CoveredOn
<1>1. EscrowTypeOK /\ cash_day \in CashDays
  BY DEF EscrowInv
<1>2. PICK d \in Nat : d = cash_day
  BY <1>1, EscrowNumbers
<1>3. \A e \in Restrictions : Stands(restriction[e], d)
        <=> restriction[e].confirmed # 0 /\ restriction[e].reversed = 0
  BY <1>1, <1>2, EscrowNumbers, StandsToday DEF EscrowInv, EscrowDated, Dated
<1>4. \A l \in Releases : Stands(release[l], d)
        <=> release[l].confirmed # 0 /\ release[l].reversed = 0
  BY <1>1, <1>2, EscrowNumbers, StandsToday DEF EscrowInv, EscrowDated, Dated
<1>5. PICK S : S = Holding(r, d)
  OBVIOUS
<1>6. PICK T : T = Freeing(r, d)
  OBVIOUS
<1>7. /\ S \subseteq Restrictions /\ IsFiniteSet(S)
      /\ T \subseteq Releases /\ IsFiniteSet(T)
  <2>1. S \subseteq Restrictions /\ T \subseteq Releases
    BY <1>5, <1>6 DEF Holding, Freeing
  <2> QED
    BY <2>1, CashNumbers, FS_Subset
<1>8. PICK g : g = [e \in S |-> restriction[e].amount]
  OBVIOUS
<1>9. PICK h : h = [l \in T |-> release[l].amount]
  OBVIOUS
<1>10. HeldAt(r, d) = SumFunction(g) /\ FreedAt(r, d) = SumFunction(h)
  BY <1>5, <1>6, <1>8, <1>9 DEF HeldAt, FreedAt
<1>11. CASE S = {}
  <2>1. T = {}
    BY <1>5, <1>6, <1>11 DEF Freeing
  <2>2. DOMAIN g = {} /\ DOMAIN h = {}
    BY <1>8, <1>9, <1>11, <2>1
  <2>3. SumFunction(g) = 0 /\ SumFunction(h) = 0
    BY <2>2, TableZero, FS_EmptySet
  <2>4. received[r].amount \in Nat
    BY <1>1, EscrowNumbers
  <2> QED
    BY <1>2, <1>10, <2>3, <2>4
<1>12. CASE S # {}
  <2>1. PICK e \in S : TRUE
    BY <1>12
  <2>2. /\ e \in Restrictions /\ restriction[e].on = r /\ restriction[e].reversed = 0
        /\ Stands(received[r], d)
    BY <1>3, <1>5, <1>7, <2>1 DEF Holding, RestrictionCounts
  <2>3. S = {e}
    <3>1. \A f \in S : restriction[f].on = r /\ restriction[f].reversed = 0 /\ f \in Restrictions
      BY <1>3, <1>5, <1>7 DEF Holding, RestrictionCounts
    <3>2. r # 0
      BY <1>1, EscrowNumbers
    <3> QED
      BY <2>1, <2>2, <3>1, <3>2 DEF EscrowInv, OneEscrow
  <2>4. PICK a \in Nat : a = restriction[e].amount
    BY <1>1, <2>2, EscrowNumbers
  <2>5. SumFunction(g) = a
    <3>1. PICK k : k = [f \in {} |-> 0]
      OBVIOUS
    <3>2. DOMAIN k = {} /\ DOMAIN g = DOMAIN k \cup {e} /\ g[e] = a
      BY <1>8, <2>3, <2>4, <3>1
    <3>3. SumFunction(k) = 0
      BY <3>2, TableZero, FS_EmptySet
    <3>4. SumFunction(g) = SumFunction(k) + g[e]
      BY <3>2, TableGrows, FS_EmptySet
    <3> QED
      BY <3>2, <3>3, <3>4
  <2>6. restriction[e] # NoMoney => a <= received[r].amount
    BY <2>2, <2>4 DEF EscrowInv, EscrowWithinReceipt
  <2>7. restriction[e] # NoMoney
    BY <1>1, <2>2, EscrowNumbers DEF NoMoney
  <2>8. SumFunction(h) <= Against(e)
    <3>1. PICK U : U = {k \in Releases : release[k].on = e /\ Recorded(release[k])}
      OBVIOUS
    <3>2. U \subseteq Releases /\ IsFiniteSet(U)
      BY <3>1, CashNumbers, FS_Subset
    <3>3. T \subseteq U
      <4>1. \A l \in T : release[l].on = e /\ release[l].reversed = 0
        BY <1>4, <1>5, <1>6, <1>7, <2>3 DEF Freeing
      <4>2. \A l \in T : release[l] # NoMoney
        BY <1>1, <2>2, <4>1, EscrowNumbers DEF NoMoney
      <4>3. \A l \in T : release[l].amount # 0
        BY <1>7, <4>2 DEF EscrowInv, ReleasesWritten
      <4> QED
        BY <1>7, <3>1, <4>1, <4>3 DEF Recorded
    <3>4. PICK k : k = [l \in U |-> release[l].amount]
      OBVIOUS
    <3>5. Against(e) = SumFunction(k)
      <4>1. Releases \ {} = Releases
        OBVIOUS
      <4> QED
        BY <3>1, <3>4, <4>1 DEF Against, ReleasedAgainst
    <3>6. DOMAIN k = U /\ \A l \in U : k[l] \in Nat
      BY <1>1, <3>2, <3>4, EscrowNumbers
    <3>7. SumFunctionOnSet(k, T) <= SumFunctionOnSet(k, U)
      BY <3>2, <3>3, <3>6, SumWithin
    <3>8. SumFunction(h) = SumFunctionOnSet(k, T)
      <4>1. DOMAIN h = T /\ \A l \in T : h[l] \in Int /\ k[l] = h[l]
        BY <1>9, <3>3, <3>4, <3>6
      <4> QED
        BY <1>7, <4>1, TableSum
    <3> QED
      BY <3>5, <3>6, <3>7, <3>8 DEF SumFunction
  <2>9. Against(e) <= a
    BY <2>2, <2>4 DEF EscrowInv, ReleasedWithin
  <2>10. SumFunction(h) \in Nat /\ Against(e) \in Nat
    <3>1. \A l \in T : h[l] \in Nat
      BY <1>1, <1>7, <1>9, EscrowNumbers
    <3> QED
      BY <1>1, <1>7, <1>9, <3>1, TableNat, AgainstCounted
  <2> QED
    BY <1>2, <1>10, <2>2, <2>5, <2>6, <2>7, <2>8, <2>9, <2>10
<1> QED
  BY <1>11, <1>12

\* A report as at an earlier day reads the same rows after a step as before it.
PastKept(was, is) ==
    \A d \in 1..(cash_day - 1) :
        /\ Stands(is, d) <=> Stands(was, d)
        /\ Stands(was, d) => is.on = was.on /\ is.amount = was.amount

LEMMA PastCovered ==
    ASSUME \A r \in ReceivedCash : PastKept(received[r], received'[r]),
           \A e \in Restrictions : PastKept(restriction[e], restriction'[e]),
           \A l \in Releases : PastKept(release[l], release'[l]),
           NEW d \in 1..(cash_day - 1), CoveredOn(d)
    PROVE  CoveredOn(d)'
<1> SUFFICES ASSUME NEW r \in ReceivedCash
             PROVE  /\ FreedAt(r, d)' <= HeldAt(r, d)'
                    /\ HeldAt(r, d)' <= (IF Stands(received'[r], d)
                                         THEN received'[r].amount ELSE 0)
  BY DEF CoveredOn
<1>1. \A q \in ReceivedCash :
        /\ Stands(received'[q], d) <=> Stands(received[q], d)
        /\ Stands(received[q], d) => received'[q].amount = received[q].amount
  BY DEF PastKept
<1>2. \A e \in Restrictions :
        /\ Stands(restriction'[e], d) <=> Stands(restriction[e], d)
        /\ Stands(restriction[e], d) => /\ restriction'[e].amount = restriction[e].amount
                                       /\ restriction'[e].on = restriction[e].on
  BY DEF PastKept
<1>3. \A l \in Releases :
        /\ Stands(release'[l], d) <=> Stands(release[l], d)
        /\ Stands(release[l], d) => /\ release'[l].amount = release[l].amount
                                   /\ release'[l].on = release[l].on
  BY DEF PastKept
<1>4. PICK S : S = Holding(r, d)
  OBVIOUS
<1>5. Holding(r, d)' = S
  BY <1>1, <1>2, <1>4 DEF Holding, RestrictionCounts
<1>6. PICK T : T = Freeing(r, d)
  OBVIOUS
<1>7. Freeing(r, d)' = T
  BY <1>3, <1>4, <1>5, <1>6 DEF Freeing
<1>8. \A e \in S : restriction'[e].amount = restriction[e].amount
  BY <1>2, <1>4 DEF Holding, RestrictionCounts
<1>9. \A l \in T : release'[l].amount = release[l].amount
  BY <1>3, <1>6 DEF Freeing
<1>10. HeldAt(r, d)' = HeldAt(r, d)
  <2>1. [e \in S |-> restriction'[e].amount] = [e \in S |-> restriction[e].amount]
    BY <1>8
  <2> QED
    BY <1>4, <1>5, <2>1 DEF HeldAt
<1>11. FreedAt(r, d)' = FreedAt(r, d)
  <2>1. [l \in T |-> release'[l].amount] = [l \in T |-> release[l].amount]
    BY <1>9
  <2> QED
    BY <1>6, <1>7, <2>1 DEF FreedAt
<1> QED
  BY <1>1, <1>10, <1>11 DEF CoveredOn

\* What happens to a row today is not seen as at an earlier day.
LEMMA PastSame ==
    ASSUME NEW row
    PROVE  PastKept(row, row)
BY DEF PastKept

LEMMA PastWritten ==
    ASSUME cash_day \in CashDays, NEW row, row.confirmed \in {0, cash_day}
    PROVE  PastKept(NoMoney, row)
BY CashNumbers DEF PastKept, Stands, NoMoney

LEMMA PastConfirmed ==
    ASSUME cash_day \in CashDays, NEW row, NEW is, row.confirmed = 0, is.confirmed = cash_day
    PROVE  PastKept(row, is)
BY CashNumbers DEF PastKept, Stands

LEMMA PastReversed ==
    ASSUME cash_day \in CashDays, NEW row, NEW is, row.reversed = 0, is.reversed = cash_day,
           is.confirmed = row.confirmed, is.on = row.on, is.amount = row.amount
    PROVE  PastKept(row, is)
BY CashNumbers DEF PastKept, Stands

\* What is released against an escrow, when one release changes.
LEMMA AgainstMoves ==
    ASSUME EscrowTypeOK, cash_day \in CashDays, NEW l \in Releases, NEW row,
           row.amount \in Nat, ChangeRelease(l, row), NEW e
    PROVE  Against(e)' = Against(e)
              + (IF row.on = e /\ Recorded(row) THEN row.amount ELSE 0)
              - (IF release[l].on = e /\ Recorded(release[l]) THEN release[l].amount ELSE 0)
<1>1. PICK U : U = {k \in Releases : release[k].on = e /\ Recorded(release[k])}
  OBVIOUS
<1>2. PICK V : V = {k \in Releases : release'[k].on = e /\ Recorded(release'[k])}
  OBVIOUS
<1>3. PICK g : g = [k \in U |-> release[k].amount]
  OBVIOUS
<1>4. PICK h : h = [k \in V |-> release'[k].amount]
  OBVIOUS
<1>5. Against(e) = SumFunction(g) /\ Against(e)' = SumFunction(h)
  <2>1. Releases \ {} = Releases
    OBVIOUS
  <2> QED
    BY <1>1, <1>2, <1>3, <1>4, <2>1 DEF Against, ReleasedAgainst
<1>6. /\ release'[l] = row
      /\ \A k \in Releases \ {l} : release'[k] = release[k]
  BY DEF ChangeRelease, EscrowTypeOK
<1>7. PICK W : W = U \ {l}
  OBVIOUS
<1>8. /\ W = V \ {l} /\ l \notin W /\ W \subseteq Releases
      /\ l \in U <=> release[l].on = e /\ Recorded(release[l])
      /\ l \in V <=> row.on = e /\ Recorded(row)
  BY <1>1, <1>2, <1>6, <1>7
<1>9. IsFiniteSet(W)
  BY <1>8, CashNumbers, FS_Subset
<1>10. PICK j : j = [k \in W |-> release[k].amount]
  OBVIOUS
<1>11. \A k \in Releases : release[k].amount \in Int
  BY EscrowNumbers
<1>12. DOMAIN j = W /\ \A k \in W : j[k] \in Int
  BY <1>8, <1>10, <1>11
<1>13. SumFunction(j) \in Int
  BY <1>9, <1>12, TableInt
<1>14. SumFunction(g) = SumFunction(j)
          + (IF release[l].on = e /\ Recorded(release[l]) THEN release[l].amount ELSE 0)
  <2>1. CASE l \in U
    <3>1. DOMAIN g = DOMAIN j \cup {l} /\ g[l] = release[l].amount /\ g[l] \in Int
      BY <1>3, <1>7, <1>11, <1>12, <2>1
    <3>2. \A k \in DOMAIN j : g[k] = j[k]
      BY <1>3, <1>7, <1>10
    <3>3. SumFunction(g) = SumFunction(j) + g[l]
      BY <1>8, <1>9, <1>12, <3>1, <3>2, TableGrows
    <3> QED
      BY <1>8, <2>1, <3>1, <3>3
  <2>2. CASE l \notin U
    <3>1. g = j
      BY <1>3, <1>7, <1>10, <2>2
    <3> QED
      BY <1>8, <1>13, <2>2, <3>1
  <2> QED
    BY <2>1, <2>2
<1>15. SumFunction(h) = SumFunction(j) + (IF row.on = e /\ Recorded(row) THEN row.amount ELSE 0)
  <2>1. \A k \in W : release'[k].amount = j[k]
    BY <1>6, <1>8, <1>10
  <2>2. CASE l \in V
    <3>1. DOMAIN h = DOMAIN j \cup {l} /\ h[l] = row.amount /\ h[l] \in Int
      BY <1>4, <1>6, <1>8, <1>12, <2>2
    <3>2. \A k \in DOMAIN j : h[k] = j[k]
      BY <1>4, <1>8, <1>12, <2>1
    <3>3. SumFunction(h) = SumFunction(j) + h[l]
      BY <1>8, <1>9, <1>12, <3>1, <3>2, TableGrows
    <3> QED
      BY <1>8, <2>2, <3>1, <3>3
  <2>3. CASE l \notin V
    <3>1. V = W
      BY <1>8, <2>3
    <3>2. h = j
      BY <1>4, <1>12, <2>1, <3>1, <1>10
    <3> QED
      BY <1>8, <1>13, <2>3, <3>2
  <2> QED
    BY <2>2, <2>3
<1>16. release[l].amount \in Int
  BY <1>11
<1> QED
  BY <1>5, <1>13, <1>14, <1>15, <1>16

\* A step leaves a report as at any earlier day what it was, and today's covered.
EscrowKept ==
    /\ EscrowInv' /\ cash_day' = cash_day
    /\ \A r \in ReceivedCash : PastKept(received[r], received'[r])
    /\ \A e \in Restrictions : PastKept(restriction[e], restriction'[e])
    /\ \A l \in Releases : PastKept(release[l], release'[l])

LEMMA ReceiptRowStep ==
    ASSUME EscrowInv, NEW r \in ReceivedCash, NEW row \in MoneyRow({0}), ChangeReceived(r, row),
           row.confirmed <= cash_day, row.reversed <= cash_day, PastKept(received[r], row),
           received[r].confirmed # 0
              => row.confirmed # 0 /\ row.amount = received[r].amount
    PROVE  EscrowKept
<1>1. UNCHANGED <<restriction, release, cash_day>>
  BY DEF ChangeReceived
<1>2. /\ received' \in [ReceivedCash -> MoneyRow({0})] /\ received'[r] = row
      /\ \A q \in ReceivedCash \ {r} : received'[q] = received[q]
  BY DEF EscrowInv, EscrowTypeOK, ChangeReceived
<1>3. EscrowTypeOK' /\ cash_day' \in CashDays
  BY <1>1, <1>2 DEF EscrowInv, EscrowTypeOK
<1>4. EscrowDated'
  <2>1. \A q \in ReceivedCash : /\ received'[q].confirmed <= cash_day
                                /\ received'[q].reversed <= cash_day
    BY <1>2 DEF EscrowInv, EscrowDated, Dated
  <2> QED
    BY <1>1, <2>1 DEF EscrowInv, EscrowDated, Dated
<1>5. EscrowWithinReceipt'
  <2>1. \A q \in ReceivedCash : received[q].confirmed # 0
          => received'[q].confirmed # 0 /\ received'[q].amount = received[q].amount
    BY <1>2
  <2> QED
    BY <1>1, <2>1 DEF EscrowInv, EscrowWithinReceipt
<1>6. ReleasesWritten' /\ OneEscrow'
  BY <1>1 DEF EscrowInv, ReleasesWritten, OneEscrow
<1>7. ReleasedWithin'
  BY <1>1 DEF EscrowInv, ReleasedWithin, Against, ReleasedAgainst
<1>8. \A q \in ReceivedCash : PastKept(received[q], received'[q])
  BY <1>2, PastSame
<1> QED
  BY <1>1, <1>3, <1>4, <1>5, <1>6, <1>7, <1>8, PastSame DEF EscrowInv, EscrowKept

LEMMA RestrictionRowStep ==
    ASSUME EscrowInv, NEW e \in Restrictions, NEW row \in MoneyRow({0} \cup ReceivedCash),
           ChangeRestriction(e, row),
           row.confirmed <= cash_day, row.reversed <= cash_day, PastKept(restriction[e], row),
           row.amount # 0, row.on \in ReceivedCash, received[row.on].confirmed # 0,
           row.amount <= received[row.on].amount, restriction[e].amount <= row.amount,
           row.reversed = 0 => \A f \in Restrictions \ {e} :
              ~(restriction[f].on = row.on /\ restriction[f].reversed = 0)
    PROVE  EscrowKept
<1>1. UNCHANGED <<received, release, cash_day>>
  BY DEF ChangeRestriction
<1>2. /\ restriction' \in [Restrictions -> MoneyRow({0} \cup ReceivedCash)]
      /\ restriction'[e] = row
      /\ \A f \in Restrictions \ {e} : restriction'[f] = restriction[f]
  BY DEF EscrowInv, EscrowTypeOK, ChangeRestriction
<1>3. EscrowTypeOK' /\ cash_day' \in CashDays
  BY <1>1, <1>2 DEF EscrowInv, EscrowTypeOK
<1>4. EscrowDated'
  <2>1. \A f \in Restrictions : /\ restriction'[f].confirmed <= cash_day
                                /\ restriction'[f].reversed <= cash_day
    BY <1>2 DEF EscrowInv, EscrowDated, Dated
  <2> QED
    BY <1>1, <2>1 DEF EscrowInv, EscrowDated, Dated
<1>5. EscrowWithinReceipt'
  <2>1. ASSUME NEW f \in Restrictions
        PROVE  \/ restriction'[f] = NoMoney
               \/ /\ restriction'[f].amount # 0 /\ restriction'[f].on \in ReceivedCash
                  /\ received[restriction'[f].on].confirmed # 0
                  /\ restriction'[f].amount <= received[restriction'[f].on].amount
    <3>1. CASE f = e
      BY <1>2, <3>1
    <3>2. CASE f # e
      BY <1>2, <3>2 DEF EscrowInv, EscrowWithinReceipt
    <3> QED
      BY <3>1, <3>2
  <2> QED
    BY <1>1, <2>1 DEF EscrowWithinReceipt
<1>6. ReleasesWritten'
  BY <1>1 DEF EscrowInv, ReleasesWritten
<1>7. OneEscrow'
  BY <1>2 DEF EscrowInv, OneEscrow
<1>8. ReleasedWithin'
  <2>1. \A f \in Restrictions : Against(f)' = Against(f) /\ Against(f) \in Nat
    BY <1>1, AgainstCounted DEF Against, ReleasedAgainst, EscrowInv
  <2>2. \A f \in Restrictions : restriction[f].amount \in Nat /\ restriction[f].amount <= restriction'[f].amount
    BY <1>2, EscrowNumbers DEF EscrowInv
  <2>3. row.amount \in Nat
    BY CashNumbers DEF MoneyRow
  <2>4. \A f \in Restrictions : restriction'[f].amount \in Nat
    BY <1>2, <2>2, <2>3
  <2>5. \A f \in Restrictions : Against(f) <= restriction[f].amount
    BY DEF EscrowInv, ReleasedWithin
  <2> QED
    BY <2>1, <2>2, <2>4, <2>5 DEF ReleasedWithin
<1>9. \A f \in Restrictions : PastKept(restriction[f], restriction'[f])
  BY <1>2, PastSame
<1> QED
  BY <1>1, <1>3, <1>4, <1>5, <1>6, <1>7, <1>8, <1>9, PastSame DEF EscrowInv, EscrowKept

LEMMA ReleaseRowStep ==
    ASSUME EscrowInv, NEW l \in Releases, NEW row \in MoneyRow({0} \cup Restrictions),
           ChangeRelease(l, row),
           row.confirmed <= cash_day, row.reversed <= cash_day, PastKept(release[l], row),
           row.amount # 0, row.on \in Restrictions,
           \A e \in Restrictions :
              Against(e) + (IF row.on = e /\ Recorded(row) THEN row.amount ELSE 0)
                - (IF release[l].on = e /\ Recorded(release[l]) THEN release[l].amount ELSE 0)
                <= restriction[e].amount
    PROVE  EscrowKept
<1>1. UNCHANGED <<received, restriction, cash_day>>
  BY DEF ChangeRelease
<1>2. /\ release' \in [Releases -> MoneyRow({0} \cup Restrictions)] /\ release'[l] = row
      /\ \A k \in Releases \ {l} : release'[k] = release[k]
  BY DEF EscrowInv, EscrowTypeOK, ChangeRelease
<1>3. EscrowTypeOK' /\ cash_day' \in CashDays
  BY <1>1, <1>2 DEF EscrowInv, EscrowTypeOK
<1>4. EscrowDated'
  <2>1. \A k \in Releases : release'[k].confirmed <= cash_day /\ release'[k].reversed <= cash_day
    BY <1>2 DEF EscrowInv, EscrowDated, Dated
  <2> QED
    BY <1>1, <2>1 DEF EscrowInv, EscrowDated, Dated
<1>5. EscrowWithinReceipt' /\ OneEscrow'
  BY <1>1 DEF EscrowInv, EscrowWithinReceipt, OneEscrow
<1>6. ReleasesWritten'
  BY <1>2 DEF EscrowInv, ReleasesWritten
<1>7. ReleasedWithin'
  <2>1. row.amount \in Nat
    BY CashNumbers DEF MoneyRow
  <2>2. \A e \in Restrictions : Against(e)' = Against(e)
              + (IF row.on = e /\ Recorded(row) THEN row.amount ELSE 0)
              - (IF release[l].on = e /\ Recorded(release[l]) THEN release[l].amount ELSE 0)
    BY <2>1, AgainstMoves DEF EscrowInv
  <2> QED
    BY <1>1, <2>2 DEF ReleasedWithin
<1>8. \A k \in Releases : PastKept(release[k], release'[k])
  BY <1>2, PastSame
<1> QED
  BY <1>1, <1>3, <1>4, <1>5, <1>6, <1>7, <1>8, PastSame DEF EscrowInv, EscrowKept

LEMMA ReceiptStep ==
    ASSUME EscrowInv, NEW r \in ReceivedCash,
           (\E amount \in Sums : receive(r, amount)) \/ reverse_received(r)
    PROVE  EscrowKept
<1>1. /\ cash_day \in MaybeDay /\ 0 \in MaybeDay /\ cash_day \in Nat /\ cash_day # 0
      /\ cash_day \in CashDays
  BY CashNumbers DEF EscrowInv, MaybeDay
<1>2. received[r] \in MoneyRow({0})
  BY DEF EscrowInv, EscrowTypeOK
<1>3. received[r].confirmed <= cash_day
  BY DEF EscrowInv, EscrowDated, Dated
<1>4. ASSUME NEW amount \in Sums, receive(r, amount) PROVE EscrowKept
  <2>1. PICK row : row = [NoMoney EXCEPT !.amount = amount, !.confirmed = cash_day]
    OBVIOUS
  <2>2. /\ row \in MoneyRow({0}) /\ row.confirmed = cash_day /\ row.reversed = 0
    BY <1>1, <2>1 DEF NoMoney, MoneyRow
  <2>3. received[r] = NoMoney /\ ChangeReceived(r, row)
    BY <1>4, <2>1 DEF receive
  <2>4. PastKept(received[r], row)
    BY <1>1, <2>2, <2>3, PastWritten
  <2>5. received[r].confirmed = 0
    BY <2>3 DEF NoMoney
  <2> QED
    BY <1>1, <2>2, <2>3, <2>4, <2>5, ReceiptRowStep
<1>5. CASE reverse_received(r)
  <2>1. PICK row : row = [received[r] EXCEPT !.reversed = cash_day]
    OBVIOUS
  <2>2. /\ row \in MoneyRow({0}) /\ row.confirmed = received[r].confirmed
        /\ row.reversed = cash_day /\ row.on = received[r].on /\ row.amount = received[r].amount
    BY <1>1, <1>2, <2>1 DEF MoneyRow
  <2>3. received[r].reversed = 0 /\ ChangeReceived(r, row)
    BY <1>5, <2>1 DEF reverse_received
  <2>4. PastKept(received[r], row)
    BY <1>1, <2>2, <2>3, PastReversed
  <2> QED
    BY <1>1, <1>3, <2>2, <2>3, <2>4, ReceiptRowStep
<1> QED
  BY <1>4, <1>5

LEMMA RestrictionStep ==
    ASSUME EscrowInv, NEW e \in Restrictions,
           \/ \E r \in ReceivedCash, amount \in Sums : record_restriction(e, r, amount)
           \/ confirm_restriction(e) \/ reverse_restriction(e)
    PROVE  EscrowKept
<1>1. /\ cash_day \in MaybeDay /\ 0 \in MaybeDay /\ cash_day \in Nat /\ cash_day # 0
      /\ cash_day \in CashDays
  BY CashNumbers DEF EscrowInv, MaybeDay
<1>2. restriction[e] \in MoneyRow({0} \cup ReceivedCash)
  BY DEF EscrowInv, EscrowTypeOK
<1>3. restriction[e].confirmed <= cash_day /\ restriction[e].reversed <= cash_day
  BY DEF EscrowInv, EscrowDated, Dated
<1>4. ASSUME Recorded(restriction[e])
      PROVE  /\ restriction[e].amount # 0 /\ restriction[e].reversed = 0
             /\ restriction[e].on \in ReceivedCash
             /\ received[restriction[e].on].confirmed # 0
             /\ restriction[e].amount <= received[restriction[e].on].amount
             /\ restriction[e].amount <= restriction[e].amount
             /\ \A f \in Restrictions \ {e} :
                   ~(restriction[f].on = restriction[e].on /\ restriction[f].reversed = 0)
  <2>1. restriction[e].amount # 0 /\ restriction[e].reversed = 0 /\ restriction[e] # NoMoney
    BY <1>4 DEF Recorded, NoMoney
  <2>2. /\ restriction[e].on \in ReceivedCash
        /\ received[restriction[e].on].confirmed # 0
        /\ restriction[e].amount <= received[restriction[e].on].amount
    BY <2>1 DEF EscrowInv, EscrowWithinReceipt
  <2>3. restriction[e].on # 0 /\ restriction[e].amount \in Nat
    BY <2>2, EscrowNumbers DEF EscrowInv
  <2> QED
    BY <2>1, <2>2, <2>3 DEF EscrowInv, OneEscrow
<1>5. ASSUME NEW r \in ReceivedCash, NEW amount \in Sums, record_restriction(e, r, amount)
      PROVE  EscrowKept
  <2>1. PICK row : row = [NoMoney EXCEPT !.amount = amount, !.on = r]
    OBVIOUS
  <2>2. /\ row \in MoneyRow({0} \cup ReceivedCash) /\ row.confirmed = 0 /\ row.reversed = 0
        /\ row.amount = amount /\ row.on = r /\ amount # 0
    BY <1>1, <2>1, CashNumbers DEF NoMoney, MoneyRow
  <2>3. /\ received[r].confirmed # 0 /\ amount <= received[r].amount
        /\ ChangeRestriction(e, row)
    BY <1>5, <2>1 DEF record_restriction, NewRestriction
  <2>4. restriction[e] = NoMoney
    <3>1. e \in Nat /\ ~(e < e)
      BY DEF Restrictions
    <3>2. restriction[e].amount = 0
      BY <1>5, <3>1 DEF record_restriction, NewRestriction
    <3> QED
      BY <3>2 DEF EscrowInv, EscrowWithinReceipt
  <2>5. PastKept(restriction[e], row)
    BY <1>1, <2>2, <2>4, PastWritten
  <2>6. \A f \in Restrictions : ~(restriction[f].on = r /\ restriction[f].reversed = 0)
    <3>1. \A f \in Restrictions : ~(restriction[f].on = r /\ Recorded(restriction[f]))
      BY <1>5 DEF record_restriction
    <3>2. r # 0
      BY EscrowNumbers DEF EscrowInv
    <3>3. \A f \in Restrictions : restriction[f].on = r => restriction[f].amount # 0
      BY <3>2 DEF EscrowInv, EscrowWithinReceipt, NoMoney
    <3> QED
      BY <3>1, <3>3 DEF Recorded
  <2>7. restriction[e].amount = 0 /\ amount \in Nat
    BY <2>4, CashNumbers DEF NoMoney
  <2>8. restriction[e].amount <= row.amount
    BY <2>2, <2>7
  <2>9. /\ row.confirmed <= cash_day /\ row.reversed <= cash_day
        /\ row.amount # 0 /\ row.on \in ReceivedCash /\ received[row.on].confirmed # 0
        /\ row.amount <= received[row.on].amount
        /\ row.reversed = 0 => \A f \in Restrictions \ {e} :
              ~(restriction[f].on = row.on /\ restriction[f].reversed = 0)
    BY <1>1, <2>2, <2>3, <2>6
  <2> QED
    BY <2>2, <2>3, <2>5, <2>8, <2>9, RestrictionRowStep
<1>6. CASE confirm_restriction(e)
  <2>1. PICK row : row = [restriction[e] EXCEPT !.confirmed = cash_day]
    OBVIOUS
  <2>2. /\ row \in MoneyRow({0} \cup ReceivedCash) /\ row.confirmed = cash_day
        /\ row.reversed = restriction[e].reversed /\ row.on = restriction[e].on
        /\ row.amount = restriction[e].amount
    BY <1>1, <1>2, <2>1 DEF MoneyRow
  <2>3. /\ Recorded(restriction[e]) /\ restriction[e].confirmed = 0
        /\ ChangeRestriction(e, row)
    BY <1>6, <2>1 DEF confirm_restriction
  <2>4. PastKept(restriction[e], row)
    BY <1>1, <2>2, <2>3, PastConfirmed
  <2>5. /\ row.confirmed <= cash_day /\ row.reversed <= cash_day
        /\ row.amount # 0 /\ row.on \in ReceivedCash /\ received[row.on].confirmed # 0
        /\ row.amount <= received[row.on].amount /\ restriction[e].amount <= row.amount
        /\ row.reversed = 0 => \A f \in Restrictions \ {e} :
              ~(restriction[f].on = row.on /\ restriction[f].reversed = 0)
    BY <1>1, <1>3, <1>4, <2>2, <2>3
  <2> QED
    BY <2>2, <2>3, <2>4, <2>5, RestrictionRowStep
<1>7. CASE reverse_restriction(e)
  <2>1. PICK row : row = [restriction[e] EXCEPT !.reversed = cash_day]
    OBVIOUS
  <2>2. /\ row \in MoneyRow({0} \cup ReceivedCash) /\ row.confirmed = restriction[e].confirmed
        /\ row.reversed = cash_day /\ row.on = restriction[e].on
        /\ row.amount = restriction[e].amount
    BY <1>1, <1>2, <2>1 DEF MoneyRow
  <2>3. Recorded(restriction[e]) /\ ChangeRestriction(e, row)
    BY <1>7, <2>1 DEF reverse_restriction
  <2>4. PastKept(restriction[e], row)
    BY <1>1, <1>4, <2>2, <2>3, PastReversed
  <2>5. /\ row.confirmed <= cash_day /\ row.reversed <= cash_day
        /\ row.amount # 0 /\ row.on \in ReceivedCash /\ received[row.on].confirmed # 0
        /\ row.amount <= received[row.on].amount /\ restriction[e].amount <= row.amount
        /\ row.reversed = 0 => \A f \in Restrictions \ {e} :
              ~(restriction[f].on = row.on /\ restriction[f].reversed = 0)
    BY <1>1, <1>3, <1>4, <2>2, <2>3
  <2> QED
    BY <2>2, <2>3, <2>4, <2>5, RestrictionRowStep
<1> QED
  BY <1>5, <1>6, <1>7

LEMMA ReleaseStep ==
    ASSUME EscrowInv, NEW l \in Releases,
           \/ \E e \in Restrictions, amount \in Sums : record_release(l, e, amount)
           \/ confirm_release(l) \/ reverse_release(l)
    PROVE  EscrowKept
<1>1. /\ cash_day \in MaybeDay /\ 0 \in MaybeDay /\ cash_day \in Nat /\ cash_day # 0
      /\ cash_day \in CashDays
  BY CashNumbers DEF EscrowInv, MaybeDay
<1>2. release[l] \in MoneyRow({0} \cup Restrictions) /\ release[l].amount \in Nat
  BY EscrowNumbers DEF EscrowInv, EscrowTypeOK
<1>3. release[l].confirmed <= cash_day /\ release[l].reversed <= cash_day
  BY DEF EscrowInv, EscrowDated, Dated
<1>4. \A e \in Restrictions : /\ Against(e) \in Nat /\ restriction[e].amount \in Nat
                             /\ Against(e) <= restriction[e].amount
  BY AgainstCounted, EscrowNumbers DEF EscrowInv, ReleasedWithin
<1>5. ASSUME Recorded(release[l])
      PROVE  release[l].amount # 0 /\ release[l].reversed = 0 /\ release[l].on \in Restrictions
  <2>1. release[l] # NoMoney /\ release[l].amount # 0 /\ release[l].reversed = 0
    BY <1>5 DEF Recorded, NoMoney
  <2> QED
    BY <2>1 DEF EscrowInv, ReleasesWritten
<1>6. ASSUME NEW e \in Restrictions, NEW amount \in Sums, record_release(l, e, amount)
      PROVE  EscrowKept
  <2>1. PICK row : row = [NoMoney EXCEPT !.amount = amount, !.on = e]
    OBVIOUS
  <2>2. /\ row \in MoneyRow({0} \cup Restrictions) /\ row.confirmed = 0 /\ row.reversed = 0
        /\ row.amount = amount /\ row.on = e /\ amount # 0 /\ amount \in Nat
    BY <1>1, <2>1, CashNumbers DEF NoMoney, MoneyRow
  <2>3. /\ Against(e) + amount <= restriction[e].amount
        /\ ChangeRelease(l, row)
    BY <1>6, <2>1 DEF record_release, Against
  <2>4. release[l] = NoMoney
    <3>1. l \in Nat /\ ~(l < l)
      BY DEF Releases
    <3>2. release[l].amount = 0
      BY <1>6, <3>1 DEF record_release
    <3> QED
      BY <3>2 DEF EscrowInv, ReleasesWritten
  <2>5. PastKept(release[l], row)
    BY <1>1, <2>2, <2>4, PastWritten
  <2>6. ~Recorded(release[l])
    BY <2>4 DEF Recorded, NoMoney
  <2>7. \A f \in Restrictions :
          Against(f) + (IF row.on = f /\ Recorded(row) THEN row.amount ELSE 0)
            - (IF release[l].on = f /\ Recorded(release[l]) THEN release[l].amount ELSE 0)
            <= restriction[f].amount
    BY <1>4, <2>2, <2>3, <2>6
  <2> QED
    BY <1>1, <2>2, <2>3, <2>5, <2>7, ReleaseRowStep
<1>7. CASE confirm_release(l)
  <2>1. PICK row : row = [release[l] EXCEPT !.confirmed = cash_day]
    OBVIOUS
  <2>2. /\ row \in MoneyRow({0} \cup Restrictions) /\ row.confirmed = cash_day
        /\ row.reversed = release[l].reversed /\ row.on = release[l].on
        /\ row.amount = release[l].amount
    BY <1>1, <1>2, <2>1 DEF MoneyRow
  <2>3. Recorded(release[l]) /\ release[l].confirmed = 0 /\ ChangeRelease(l, row)
    BY <1>7, <2>1 DEF confirm_release
  <2>4. PastKept(release[l], row)
    BY <1>1, <2>2, <2>3, PastConfirmed
  <2>5. Recorded(row)
    BY <2>2, <2>3 DEF Recorded
  <2>6. \A f \in Restrictions :
          Against(f) + (IF row.on = f /\ Recorded(row) THEN row.amount ELSE 0)
            - (IF release[l].on = f /\ Recorded(release[l]) THEN release[l].amount ELSE 0)
            <= restriction[f].amount
    BY <1>2, <1>4, <2>2, <2>3, <2>5
  <2> QED
    BY <1>1, <1>3, <1>5, <2>2, <2>3, <2>4, <2>6, ReleaseRowStep
<1>8. CASE reverse_release(l)
  <2>1. PICK row : row = [release[l] EXCEPT !.reversed = cash_day]
    OBVIOUS
  <2>2. /\ row \in MoneyRow({0} \cup Restrictions) /\ row.confirmed = release[l].confirmed
        /\ row.reversed = cash_day /\ row.on = release[l].on
        /\ row.amount = release[l].amount
    BY <1>1, <1>2, <2>1 DEF MoneyRow
  <2>3. Recorded(release[l]) /\ ChangeRelease(l, row)
    BY <1>8, <2>1 DEF reverse_release
  <2>4. PastKept(release[l], row)
    BY <1>1, <1>5, <2>2, <2>3, PastReversed
  <2>5. ~Recorded(row)
    BY <1>1, <2>2 DEF Recorded
  <2>6. \A f \in Restrictions :
          Against(f) + (IF row.on = f /\ Recorded(row) THEN row.amount ELSE 0)
            - (IF release[l].on = f /\ Recorded(release[l]) THEN release[l].amount ELSE 0)
            <= restriction[f].amount
    BY <1>2, <1>4, <2>2, <2>3, <2>5
  <2>7. /\ row.confirmed <= cash_day /\ row.reversed <= cash_day
        /\ row.amount # 0 /\ row.on \in Restrictions
    BY <1>1, <1>3, <1>5, <2>2, <2>3
  <2> QED
    BY <2>2, <2>3, <2>4, <2>6, <2>7, ReleaseRowStep
<1> QED
  BY <1>6, <1>7, <1>8

TodayCovered == CoveredOn(cash_day)

LEMMA LaterToday == EscrowInv' => TodayCovered'
<1>1. EscrowInv => TodayCovered
  BY CoveredToday DEF TodayCovered
<1> QED
  BY <1>1, PTL

LEMMA CoverKept ==
    ASSUME EscrowInv, RestrictedIsCovered, EscrowKept
    PROVE  EscrowInv' /\ RestrictedIsCovered'
<1>1. EscrowInv' /\ cash_day' = cash_day /\ cash_day \in Nat
  BY EscrowNumbers DEF EscrowKept, EscrowInv
<1>2. TodayCovered'
  BY <1>1, LaterToday
<1>3. \A d \in 1..cash_day : CoveredOn(d)
  BY DEF RestrictedIsCovered, CoveredOn
<1>4. ASSUME NEW d \in 1..cash_day
      PROVE  CoveredOn(d)'
  <2>1. CASE d = cash_day
    BY <1>1, <1>2, <2>1 DEF TodayCovered
  <2>2. CASE d # cash_day
    <3>1. d \in 1..(cash_day - 1)
      BY <1>1, <2>2
    <3>2. CoveredOn(d)
      BY <1>3
    <3> QED
      BY <3>1, <3>2, PastCovered DEF EscrowKept
  <2> QED
    BY <2>1, <2>2
<1> QED
  BY <1>1, <1>4 DEF RestrictedIsCovered, CoveredOn

\* The rows are the same, and a day more is asked about.
LEMMA CoverNextDay ==
    ASSUME EscrowInv, RestrictedIsCovered, next_cash_day
    PROVE  EscrowInv' /\ RestrictedIsCovered'
<1>1. /\ cash_day \in Nat /\ cash_day # 0 /\ cash_day' = cash_day + 1
      /\ cash_day' \in CashDays
      /\ UNCHANGED <<received, restriction, release>>
  <2>1. cash_day \in Nat /\ cash_day # 0 /\ LastCashDay \in Nat
    BY EscrowNumbers, CashNumbers DEF EscrowInv
  <2> QED
    BY <2>1 DEF next_cash_day, escrowVars, CashDays
<1>2. EscrowInv'
  <2>1. EscrowTypeOK' /\ EscrowWithinReceipt' /\ ReleasesWritten' /\ OneEscrow'
    BY <1>1 DEF EscrowInv, EscrowTypeOK, EscrowWithinReceipt, ReleasesWritten, OneEscrow
  <2>2. EscrowDated'
    <3>1. \A n \in Nat : n <= cash_day => n <= cash_day'
      BY <1>1
    <3>2. /\ \A r \in ReceivedCash : received[r].confirmed \in Nat /\ received[r].reversed \in Nat
          /\ \A e \in Restrictions : restriction[e].confirmed \in Nat /\ restriction[e].reversed \in Nat
          /\ \A l \in Releases : release[l].confirmed \in Nat /\ release[l].reversed \in Nat
      BY EscrowNumbers DEF EscrowInv
    <3> QED
      BY <1>1, <3>1, <3>2 DEF EscrowInv, EscrowDated, Dated
  <2>3. ReleasedWithin'
    BY <1>1 DEF EscrowInv, ReleasedWithin, Against, ReleasedAgainst
  <2> QED
    BY <1>1, <2>1, <2>2, <2>3 DEF EscrowInv
<1>3. TodayCovered'
  BY <1>2, LaterToday
<1>4. ASSUME NEW d \in 1..cash_day'
      PROVE  CoveredOn(d)'
  <2>1. CASE d = cash_day'
    BY <1>3, <2>1 DEF TodayCovered
  <2>2. CASE d # cash_day'
    <3>1. d \in 1..cash_day
      BY <1>1, <2>2
    <3>2. CoveredOn(d)
      BY <3>1 DEF RestrictedIsCovered, CoveredOn
    <3> QED
      BY <1>1, <3>2 DEF CoveredOn, FreedAt, HeldAt, Freeing, Holding, RestrictionCounts
  <2> QED
    BY <2>1, <2>2
<1> QED
  BY <1>2, <1>4 DEF RestrictedIsCovered, CoveredOn

-----------------------------------------------------------------------------
(* The project's cash together *)

CashInv == CashTypeOK /\ EscrowInv /\ RestrictedIsCovered

LEMMA EscrowSame ==
    ASSUME EscrowInv, RestrictedIsCovered, UNCHANGED <<received, restriction, release, cash_day>>
    PROVE  EscrowInv' /\ RestrictedIsCovered'
<1>1. EscrowKept
  BY PastSame DEF EscrowKept, EscrowInv, EscrowTypeOK, EscrowDated, Dated, EscrowWithinReceipt,
     ReleasesWritten, OneEscrow, ReleasedWithin, Against, ReleasedAgainst
<1> QED
  BY <1>1, CoverKept

\* What a step does to the forecasts and to the movements.
StepRight == (\A v \in CashForecasts : SignedStands(v)) /\ ReadBeforeConfirmed

LEMMA ForecastSame ==
    ASSUME UNCHANGED forecastVars
    PROVE  \A v \in CashForecasts : SignedStands(v)
BY DEF forecastVars, SignedStands

LEMMA MovementSame ==
    ASSUME UNCHANGED movementVars
    PROVE  ReadBeforeConfirmed
BY DEF movementVars, ReadBeforeConfirmed

LEMMA CashStep ==
    ASSUME CashInv, [CashNext]_cashVars
    PROVE  CashInv' /\ StepRight
<1>1. /\ MonthsTypeOK /\ EscrowTypeOK /\ MovementTypeOK /\ cash_day \in CashDays
      /\ CashTypeOK /\ EscrowInv /\ RestrictedIsCovered
  BY TypesTogether DEF CashInv
<1>2. CASE next_cash_day
  <2>1. EscrowInv' /\ RestrictedIsCovered'
    BY <1>1, <1>2, CoverNextDay
  <2>2. UNCHANGED <<forecastVars, movementVars>>
    BY <1>2 DEF next_cash_day
  <2>3. MonthsTypeOK' /\ MovementTypeOK'
    BY <1>1, <2>2 DEF forecastVars, movementVars, MonthsTypeOK, MovementTypeOK
  <2>4. StepRight
    BY <2>2, ForecastSame, MovementSame DEF StepRight
  <2> QED
    BY <2>1, <2>3, <2>4 DEF CashInv, CashTypeOK, MonthsTypeOK, MovementTypeOK, EscrowInv, EscrowTypeOK
<1>3. CASE MovementNext
  <2>1. UNCHANGED <<forecastVars, escrowVars, cash_day>>
    BY <1>3 DEF MovementNext, record_movement, correct_prelaunch_expense, review_movement,
       confirm_expected, confirm_movement, give_up, reverse_movement, ChangeMovement, Confirmed
  <2>2. CashTypeOK' /\ ReadBeforeConfirmed
    BY <1>1, <1>3, MovementTyped, MovementRead
  <2>3. EscrowInv' /\ RestrictedIsCovered'
    BY <1>1, <2>1, EscrowSame DEF escrowVars
  <2> QED
    BY <2>1, <2>2, <2>3, ForecastSame DEF CashInv, StepRight
<1>4. ASSUME MonthsNext, ~next_cash_day
      PROVE  CashInv' /\ StepRight
  <2>1. UNCHANGED <<escrowVars, movementVars, cash_day>>
    BY <1>4 DEF MonthsNext, create_cash_forecast, set_cash_line, refresh_customer_snapshot,
       submit_cash_forecast, approve_cash_forecast, reject_cash_forecast, activate_cash_forecast,
       ChangeCashForecast, Supersede, prepare_build, activate_build, ChangeBuild,
       activate_buyer_plan, date_instalment, ChangeBuyerPlan
  <2>2. MonthsKept
    BY <1>1, <1>4, ForecastStep, InForceStep, SourceStep DEF MonthsNext
  <2>3. EscrowInv' /\ RestrictedIsCovered'
    BY <1>1, <2>1, EscrowSame DEF escrowVars
  <2>4. ReadBeforeConfirmed
    BY <2>1, MovementSame
  <2>5. CashTypeOK'
    BY <1>1, <2>1, <2>2 DEF MonthsKept, CashTypeOK, MonthsTypeOK, escrowVars, movementVars
  <2> QED
    BY <2>2, <2>3, <2>4, <2>5 DEF CashInv, StepRight, MonthsKept
<1>5. ASSUME EscrowNext, ~next_cash_day
      PROVE  CashInv' /\ StepRight
  <2>1. UNCHANGED <<forecastVars, movementVars, cash_day>>
    BY <1>5 DEF EscrowNext, receive, reverse_received, ChangeReceived, record_restriction,
       NewRestriction, confirm_restriction, reverse_restriction, ChangeRestriction,
       record_release, confirm_release, reverse_release, ChangeRelease
  <2>2. EscrowKept
    BY <1>1, <1>5, ReceiptStep, RestrictionStep, ReleaseStep DEF EscrowNext
  <2>3. EscrowInv' /\ RestrictedIsCovered'
    BY <1>1, <2>2, CoverKept
  <2>4. StepRight
    BY <2>1, ForecastSame, MovementSame DEF StepRight
  <2>5. CashTypeOK'
    BY <1>1, <2>1, <2>3 DEF CashTypeOK, EscrowInv, EscrowTypeOK, forecastVars, movementVars
  <2> QED
    BY <2>3, <2>4, <2>5 DEF CashInv
<1>6. CASE UNCHANGED cashVars
  <2>1. UNCHANGED <<forecastVars, escrowVars, movementVars, cash_day>>
    BY <1>6 DEF cashVars
  <2>2. EscrowInv' /\ RestrictedIsCovered'
    BY <1>1, <2>1, EscrowSame DEF escrowVars
  <2>3. CashTypeOK'
    BY <1>1, <2>1 DEF CashTypeOK, forecastVars, escrowVars, movementVars
  <2> QED
    BY <2>1, <2>2, <2>3, ForecastSame, MovementSame DEF CashInv, StepRight
<1> QED
  BY <1>2, <1>3, <1>4, <1>5, <1>6 DEF CashNext

LEMMA CashStart ==
    ASSUME CashInit
    PROVE  CashInv
<1>1. cash_day = 1 /\ cash_day \in CashDays /\ 0 \in MaybeDay
  BY CashAssumption DEF CashInit, CashDays, MaybeDay
<1>2. /\ NoBuild \in BuildRow /\ NoBuyerPlan \in BuyerPlanRow /\ NoCashForecast \in CashForecastRow
      /\ NoMovement \in MovementRow
  BY <1>1 DEF NoBuild, BuildRow, NoBuyerPlan, BuyerPlanRow, NoCashForecast, CashForecastRow,
     NoMovement, MovementRow
<1>3. \A fields : 0 \in fields => NoMoney \in MoneyRow(fields)
  BY <1>1 DEF NoMoney, MoneyRow
<1>4. EscrowTypeOK /\ CashTypeOK
  BY <1>1, <1>2, <1>3 DEF EscrowTypeOK, CashTypeOK, CashInit
<1>5. EscrowDated /\ EscrowWithinReceipt /\ ReleasesWritten /\ OneEscrow
  <2>1. /\ \A r \in ReceivedCash : received[r] = NoMoney
        /\ \A e \in Restrictions : restriction[e] = NoMoney
        /\ \A l \in Releases : release[l] = NoMoney
    BY DEF CashInit
  <2>2. Dated(NoMoney) /\ NoMoney.on = 0
    BY <1>1 DEF Dated, NoMoney
  <2>3. EscrowDated
    BY <2>1, <2>2 DEF EscrowDated
  <2>4. OneEscrow
    BY <2>1, <2>2 DEF OneEscrow
  <2>5. EscrowWithinReceipt
    BY <2>1 DEF EscrowWithinReceipt
  <2>6. ReleasesWritten
    BY <2>1 DEF ReleasesWritten
  <2> QED
    BY <2>3, <2>4, <2>5, <2>6
<1>6. ReleasedWithin
  <2> SUFFICES ASSUME NEW e \in Restrictions
               PROVE  Against(e) <= restriction[e].amount
    BY DEF ReleasedWithin
  <2>1. {k \in Releases \ {} : release[k].on = e /\ Recorded(release[k])} = {}
    BY DEF CashInit, NoMoney, Recorded
  <2>2. PICK g : g = [l \in {} |-> release[l].amount]
    OBVIOUS
  <2>3. DOMAIN g = {}
    BY <2>2
  <2>4. SumFunction(g) = 0
    BY <2>3, TableZero, FS_EmptySet
  <2>5. Against(e) = 0
    BY <2>1, <2>2, <2>4 DEF Against, ReleasedAgainst
  <2> QED
    BY <2>5 DEF CashInit, NoMoney
<1>7. EscrowInv
  BY <1>1, <1>4, <1>5, <1>6 DEF EscrowInv
<1>8. RestrictedIsCovered
  <2>1. CoveredOn(1)
    BY <1>1, <1>7, CoveredToday
  <2>2. \A d \in 1..cash_day : d = 1
    BY <1>1
  <2> QED
    BY <2>1, <2>2 DEF RestrictedIsCovered, CoveredOn
<1> QED
  BY <1>4, <1>7, <1>8 DEF CashInv

\* The tables are well typed, escrow lies within its receipt, one escrow stands on a
\* receipt, and no release takes more than is held: at every state of the service.
THEOREM CashInvariant == CashSpec => []CashInv
<1>1. CashInit => CashInv
  BY CashStart
<1>2. CashInv /\ [CashNext]_cashVars => CashInv'
  BY CashStep
<1> QED
  BY <1>1, <1>2, PTL DEF CashSpec

\* Every table of cashflow keeps its columns' types.
THEOREM CashTypesKept == CashSpec => []CashTypeOK
<1>1. CashInv => CashTypeOK
  BY DEF CashInv
<1> QED
  BY <1>1, CashInvariant, PTL

\* No sequence of receipts, restrictions, confirmations, releases and reversals leaves
\* a report, as at any day so far, with usable cash the project does not have.
THEOREM EscrowAlwaysCovered == CashSpec => []RestrictedIsCovered
<1>1. CashInv => RestrictedIsCovered
  BY DEF CashInv
<1> QED
  BY <1>1, CashInvariant, PTL

\* A forecast in force keeps what was signed, and came in force on what governed then.
THEOREM SignedMonthsKept == CashSpec => SignedMonthsStand
<1>1. ASSUME CashInv, [CashNext]_cashVars
      PROVE  [\A v \in CashForecasts :
                LET was == cash_forecast[v]  is == cash_forecast'[v] IN
                /\ was.status \in {"approved", "active", "superseded"}
                      => [is EXCEPT !.status = "draft"] = [was EXCEPT !.status = "draft"]
                /\ was.status # "active" /\ is.status = "active"
                      => /\ BuildInForce \subseteq {is.pin}
                         /\ is.snapshot = GoverningOn(is.as_of)
                         /\ is.scheduled = build[is.pin].left]_cashVars
  BY <1>1, CashStep DEF StepRight, SignedStands
<1> QED
  BY <1>1, CashInvariant, PTL DEF CashSpec, SignedMonthsStand

\* An expense corrected while a desk is confirming it is not confirmed unseen.
THEOREM ReadAsConfirmed == CashSpec => ConfirmedAsRead
<1>1. ASSUME CashInv, [CashNext]_cashVars
      PROVE  [\A m \in Movements :
                reviewing[m] # 0 /\ reviewing'[m] = 0 /\ movement'[m] # movement[m]
                  => movement'[m].amount = reviewing[m]]_cashVars
  BY <1>1, CashStep DEF StepRight, ReadBeforeConfirmed
<1> QED
  BY <1>1, CashInvariant, PTL DEF CashSpec, ConfirmedAsRead

-----------------------------------------------------------------------------
(* Cash forecasts are versions of record *)

LEMMA CashRowMoves ==
    ASSUME cash_forecast \in [CashForecasts -> CashForecastRow], NEW v \in CashForecasts,
           NEW row, ChangeCashForecast(v, row)
    PROVE  /\ CashStatus[v] = cash_forecast[v].status
           /\ CashStatus' = [CashStatus EXCEPT ![v] = row.status]
           /\ CashRecord!Writes(v)
           /\ row.as_of = cash_forecast[v].as_of /\ row.pin = cash_forecast[v].pin
                 /\ row.scheduled = cash_forecast[v].scheduled
                 /\ row.snapshot = cash_forecast[v].snapshot
                 => CashContent' = CashContent
           /\ row.status = cash_forecast[v].status => CashStatus' = CashStatus
<1>1. cash_forecast'[v] = row
      /\ \A w \in CashForecasts \ {v} : cash_forecast'[w] = cash_forecast[w]
  BY DEF ChangeCashForecast
<1>2. CashStatus' = [CashStatus EXCEPT ![v] = row.status]
  BY <1>1 DEF CashStatus
<1>3. CashRecord!Writes(v)
  BY <1>1 DEF CashContent, CashRecord!Writes
<1>4. row.as_of = cash_forecast[v].as_of /\ row.pin = cash_forecast[v].pin
         /\ row.scheduled = cash_forecast[v].scheduled
         /\ row.snapshot = cash_forecast[v].snapshot
         => CashContent' = CashContent
  BY <1>1 DEF CashContent
<1>5. row.status = cash_forecast[v].status => CashStatus' = CashStatus
  BY <1>1 DEF CashStatus
<1> QED
  BY <1>2, <1>3, <1>4, <1>5 DEF CashStatus

\* Everything that writes a forecast, of what moves the months.
ForecastsMove ==
    \E v \in CashForecasts :
        \/ \E as_of \in CashDays, b \in Builds : create_cash_forecast(v, as_of, b)
        \/ \E amount \in {0} \cup Sums : set_cash_line(v, amount)
        \/ refresh_customer_snapshot(v) \/ submit_cash_forecast(v)
        \/ approve_cash_forecast(v) \/ reject_cash_forecast(v)
        \/ activate_cash_forecast(v)

LEMMA ForecastsMoveRecorded ==
    ASSUME CashTypeOK, ForecastsMove
    PROVE  CashRecord!Next
<1>1. cash_forecast \in [CashForecasts -> CashForecastRow]
  BY DEF CashTypeOK
<1>2. PICK v \in CashForecasts :
        \/ \E as_of \in CashDays, b \in Builds : create_cash_forecast(v, as_of, b)
        \/ \E amount \in {0} \cup Sums : set_cash_line(v, amount)
        \/ refresh_customer_snapshot(v) \/ submit_cash_forecast(v)
        \/ approve_cash_forecast(v) \/ reject_cash_forecast(v)
        \/ activate_cash_forecast(v)
  BY DEF ForecastsMove
<1>3. CashRecord!Prepared = OpenCashForecast
  BY DEF CashRecord!Prepared, OpenCashForecast, CashStatus
<1>4. ASSUME NEW as_of \in CashDays, NEW b \in Builds, create_cash_forecast(v, as_of, b)
      PROVE  CashRecord!Draft(v)
  <2> DEFINE row == [status |-> "draft", as_of |-> as_of, pin |-> b,
                     scheduled |-> 0, snapshot |-> Placed(as_of)]
  <2>1. cash_forecast[v].status = "none" /\ OpenCashForecast = {} /\ ChangeCashForecast(v, row)
    BY <1>4 DEF create_cash_forecast, CashForecasts
  <2>2. row.status = "draft"
    OBVIOUS
  <2> HIDE DEF row
  <2> QED
    BY <1>1, <1>3, <2>1, <2>2, CashRowMoves DEF CashRecord!Draft
<1>5. ASSUME NEW row, row.status = cash_forecast[v].status,
             cash_forecast[v].status \in {"draft", "submitted"}, ChangeCashForecast(v, row)
      PROVE  CashRecord!Rewrite(v)
  BY <1>1, <1>5, CashRowMoves DEF CashRecord!Rewrite
<1>6. ASSUME NEW amount \in {0} \cup Sums, set_cash_line(v, amount)
      PROVE  CashRecord!Rewrite(v)
  <2>1. [cash_forecast[v] EXCEPT !.scheduled = amount].status = cash_forecast[v].status
    BY <1>1 DEF CashForecastRow
  <2> QED
    BY <1>5, <1>6, <2>1 DEF set_cash_line
<1>7. ASSUME refresh_customer_snapshot(v)
      PROVE  CashRecord!Rewrite(v)
  <2>1. [cash_forecast[v] EXCEPT !.snapshot = Placed(cash_forecast[v].as_of)].status
           = cash_forecast[v].status
    BY <1>1 DEF CashForecastRow
  <2> QED
    BY <1>5, <1>7, <2>1 DEF refresh_customer_snapshot
<1>8. ASSUME NEW status, NEW before, cash_forecast[v].status \in before,
             ChangeCashForecast(v, [cash_forecast[v] EXCEPT !.status = status])
      PROVE  CashRecord!Passes(v, before, status)
  <2> DEFINE row == [cash_forecast[v] EXCEPT !.status = status]
  <2>1. /\ row.status = status
        /\ row.as_of = cash_forecast[v].as_of /\ row.pin = cash_forecast[v].pin
        /\ row.scheduled = cash_forecast[v].scheduled
        /\ row.snapshot = cash_forecast[v].snapshot
    BY <1>1 DEF CashForecastRow
  <2>2. ChangeCashForecast(v, row)
    BY <1>8
  <2> HIDE DEF row
  <2> QED
    BY <1>1, <1>8, <2>1, <2>2, CashRowMoves DEF CashRecord!Passes
<1>9. ASSUME submit_cash_forecast(v) PROVE CashRecord!Submit(v)
  BY <1>8, <1>9 DEF submit_cash_forecast, CashRecord!Submit
<1>10. ASSUME approve_cash_forecast(v) PROVE CashRecord!Approve(v)
  BY <1>8, <1>10 DEF approve_cash_forecast, CashRecord!Approve
<1>11. ASSUME reject_cash_forecast(v) PROVE CashRecord!Reject(v)
  BY <1>8, <1>11 DEF reject_cash_forecast, OpenCashForecast, CashRecord!Reject
<1>12. ASSUME activate_cash_forecast(v) PROVE CashRecord!PutInForce(v)
  <2>1. /\ cash_forecast[v].status = "approved"
        /\ cash_forecast' = [w \in CashForecasts |->
              IF w = v THEN [cash_forecast[w] EXCEPT !.status = "active"]
              ELSE IF w \in CashForecastInForce
              THEN [cash_forecast[w] EXCEPT !.status = "superseded"]
              ELSE cash_forecast[w]]
    BY <1>12 DEF activate_cash_forecast, Supersede
  <2>2. \A w \in CashForecasts :
          /\ cash_forecast'[w].status = IF w = v THEN "active"
                                        ELSE IF cash_forecast[w].status = "active"
                                        THEN "superseded" ELSE cash_forecast[w].status
          /\ cash_forecast'[w].as_of = cash_forecast[w].as_of
          /\ cash_forecast'[w].pin = cash_forecast[w].pin
          /\ cash_forecast'[w].scheduled = cash_forecast[w].scheduled
          /\ cash_forecast'[w].snapshot = cash_forecast[w].snapshot
    BY <1>1, <2>1 DEF CashForecastRow, CashForecastInForce
  <2>3. CashContent' = CashContent
    BY <2>2 DEF CashContent
  <2>4. CashStatus' = [w \in CashForecasts |->
           IF w = v THEN "active"
           ELSE IF CashStatus[w] = "active" THEN "superseded" ELSE CashStatus[w]]
    BY <2>2 DEF CashStatus
  <2> QED
    BY <2>1, <2>3, <2>4 DEF CashRecord!PutInForce, CashStatus
<1> QED
  BY <1>2, <1>4, <1>6, <1>7, <1>9, <1>10, <1>11, <1>12 DEF CashRecord!Next

\* Nothing else writes a forecast: neither its sources, nor escrow, nor expenses.
LEMMA CashStepRecorded ==
    ASSUME CashTypeOK, [CashNext]_cashVars
    PROVE  [CashRecord!Next]_(CashRecord!record)
<1>1. ASSUME UNCHANGED cash_forecast PROVE UNCHANGED CashRecord!record
  BY <1>1 DEF CashRecord!record, CashStatus, CashContent
<1>2. ASSUME MonthsNext PROVE ForecastsMove \/ UNCHANGED cash_forecast
  BY <1>2 DEF MonthsNext, ForecastsMove, prepare_build, activate_build, ChangeBuild,
              activate_buyer_plan, date_instalment, ChangeBuyerPlan, next_cash_day, forecastVars
<1>3. ASSUME EscrowNext PROVE UNCHANGED cash_forecast
  BY <1>3 DEF EscrowNext, receive, reverse_received, ChangeReceived, record_restriction,
              NewRestriction, confirm_restriction, reverse_restriction, ChangeRestriction,
              record_release, confirm_release, reverse_release, ChangeRelease, next_cash_day,
              forecastVars
<1>4. ASSUME MovementNext PROVE UNCHANGED cash_forecast
  BY <1>4 DEF MovementNext, record_movement, correct_prelaunch_expense, review_movement,
              confirm_expected, confirm_movement, Confirmed, give_up, reverse_movement,
              ChangeMovement, forecastVars
<1>5. ASSUME UNCHANGED cashVars PROVE UNCHANGED cash_forecast
  BY <1>5 DEF cashVars, forecastVars
<1> QED
  BY <1>1, <1>2, <1>3, <1>4, <1>5, ForecastsMoveRecorded DEF CashNext

\* Cash forecasts keep the promise of versioned documents for any sources, amounts
\* and days: Cashflow implements VersionOfRecord.
THEOREM CashKeepsRecord == CashSpec => CashOfRecord
<1>1. CashInit => CashRecord!Init
  BY DEF CashInit, NoCashForecast, CashRecord!Init, CashStatus
<1>2. CashTypeOK /\ [CashNext]_cashVars => [CashRecord!Next]_(CashRecord!record)
  BY CashStepRecorded
<1> QED
  BY <1>1, <1>2, CashTypesKept, PTL DEF CashSpec, CashOfRecord, CashRecord!Spec

-----------------------------------------------------------------------------
(* Commissions *)

\* A grant has a rate from the start.
GrantsRated ==
    \A g \in Grants : /\ grant[g].status = "none" => grant[g] = NoGrant
                      /\ grant[g].status # "none" => grant[g].rate # 0

GrantInv == GrantTypeOK /\ GrantsRated /\ SharesMakeTheWhole

LEMMA CommissionNumbers ==
    /\ \A a \in GrantBases \cup GrantRates \cup ShareRates : a \in Nat /\ a # 0
    /\ RateUnit \in Nat \ {0}
BY CommissionAssumption

LEMMA PortionCounted ==
    ASSUME NEW base \in Nat, NEW rate \in Nat
    PROVE  Portion(base, rate) \in Nat
<1>1. PICK u \in Nat \ {0} : u = RateUnit
  BY CommissionNumbers
<1>2. base * rate \in Nat
  OBVIOUS
<1>3. PICK a \in Nat : a = 2 * base * rate + u
  BY <1>2
<1>4. PICK b \in Nat \ {0} : b = 2 * u
  OBVIOUS
<1>5. a \div b \in Nat
  OBVIOUS
<1> QED
  BY <1>1, <1>3, <1>4, <1>5 DEF Portion

\* The rates and the amounts of a row's shares, as numbers.
LEMMA SharesCounted ==
    ASSUME NEW shares \in Seq(Share)
    PROVE  /\ IsFiniteSet(DOMAIN shares) /\ DOMAIN shares = 1..Len(shares) /\ Len(shares) \in Nat
           /\ \A s \in DOMAIN shares : shares[s].rate \in Nat /\ shares[s].amount \in Nat
           /\ RateTotal(shares) \in Nat /\ AmountTotal(shares) \in Nat
<1>1. DOMAIN shares = 1..Len(shares) /\ Len(shares) \in Nat
  OBVIOUS
<1>2. IsFiniteSet(DOMAIN shares)
  BY <1>1, FS_Interval
<1>3. \A s \in DOMAIN shares : shares[s].rate \in Nat /\ shares[s].amount \in Nat
  <2>1. \A s \in DOMAIN shares : shares[s] \in Share
    OBVIOUS
  <2>2. \A x \in Share : x.rate \in Nat /\ x.amount \in Nat
    BY CommissionNumbers DEF Share
  <2> QED
    BY <2>1, <2>2
<1>4. PICK f : f = [s \in DOMAIN shares |-> shares[s].rate]
  OBVIOUS
<1>5. PICK g : g = [s \in DOMAIN shares |-> shares[s].amount]
  OBVIOUS
<1>6. SumFunction(f) \in Nat /\ SumFunction(g) \in Nat
  BY <1>2, <1>3, <1>4, <1>5, TableNat
<1> QED
  BY <1>1, <1>2, <1>3, <1>4, <1>5, <1>6 DEF RateTotal, AmountTotal

LEMMA NoSharesNoRate == RateTotal(<<>>) = 0 /\ AmountTotal(<<>>) = 0
<1>1. PICK f : f = [s \in DOMAIN <<>> |-> <<>>[s].rate]
  OBVIOUS
<1>2. PICK g : g = [s \in DOMAIN <<>> |-> <<>>[s].amount]
  OBVIOUS
<1>3. DOMAIN f = {} /\ DOMAIN g = {}
  BY <1>1, <1>2
<1>4. SumFunction(f) = 0 /\ SumFunction(g) = 0
  BY <1>3, TableZero, FS_EmptySet
<1> QED
  BY <1>1, <1>2, <1>4 DEF RateTotal, AmountTotal

\* The last share's amount apart from those before it.
LEMMA LastApart ==
    ASSUME NEW shares \in Seq(Share), shares # <<>>
    PROVE  AmountTotal(shares)
             = AmountTotal(SubSeq(shares, 1, Len(shares) - 1)) + shares[Len(shares)].amount
<1>1. PICK n \in Nat \ {0} : n = Len(shares) /\ DOMAIN shares = 1..n
  OBVIOUS
<1>2. PICK first : first = SubSeq(shares, 1, n - 1)
  OBVIOUS
<1>3. /\ first \in Seq(Share) /\ DOMAIN first = 1..(n - 1)
      /\ \A s \in DOMAIN first : first[s] = shares[s]
  BY <1>1, <1>2
<1>4. PICK g : g = [s \in DOMAIN first |-> first[s].amount]
  OBVIOUS
<1>5. PICK h : h = [s \in DOMAIN shares |-> shares[s].amount]
  OBVIOUS
<1>6. /\ IsFiniteSet(DOMAIN g) /\ n \notin DOMAIN g
      /\ DOMAIN h = DOMAIN g \cup {n}
      /\ \A y \in DOMAIN g : g[y] \in Int /\ h[y] = g[y]
      /\ h[n] = shares[n].amount /\ h[n] \in Int
  <2>1. DOMAIN g = 1..(n - 1) /\ DOMAIN h = 1..n /\ 1..n = (1..(n - 1)) \cup {n}
    BY <1>1, <1>3, <1>4, <1>5
  <2>2. \A s \in DOMAIN shares : shares[s].amount \in Int
    BY SharesCounted
  <2>3. IsFiniteSet(DOMAIN g) /\ n \notin DOMAIN g
    BY <1>3, <1>4, <2>1, SharesCounted
  <2> QED
    BY <1>1, <1>3, <1>4, <1>5, <2>1, <2>2, <2>3
<1>7. SumFunction(h) = SumFunction(g) + h[n]
  BY <1>6, TableGrows
<1> QED
  BY <1>1, <1>2, <1>4, <1>5, <1>6, <1>7 DEF AmountTotal

\* What _recalculate makes of a row: the same terms and rates, and shares that add up
\* when nothing of what is stored is refused.
LEMMA RecalculatedAdds ==
    ASSUME NEW row \in GrantRow, NEW new, new = Recalculated(row)
    PROVE  /\ new \in GrantRow
           /\ new.status = row.status /\ new.rate = row.rate /\ new.total = row.total
           /\ RateTotal(new.shares) = RateTotal(row.shares)
           /\ Payable(new) /\ row.rate # 0 /\ RateTotal(new.shares) = new.rate
                 => AmountTotal(new.shares) = new.total
<1>1. /\ row.base \in Nat /\ row.rate \in Nat /\ row.total \in Nat /\ row.shares \in Seq(Share)
  BY CommissionNumbers DEF GrantRow
<1>2. PICK n \in Nat : n = Len(row.shares) /\ DOMAIN row.shares = 1..n
  BY <1>1
<1>3. PICK portions : portions = [s \in DOMAIN row.shares |->
                        [row.shares[s] EXCEPT
                            !.amount = Portion(row.base, row.shares[s].rate)]]
  OBVIOUS
<1>4. /\ portions \in Seq(Share) /\ Len(portions) = n /\ DOMAIN portions = 1..n
      /\ \A s \in 1..n : portions[s].rate = row.shares[s].rate
  <2>1. \A s \in 1..n : /\ portions[s] \in Share /\ portions[s].rate = row.shares[s].rate
    <3>1. \A s \in 1..n : row.shares[s] \in Share /\ row.shares[s].rate \in Nat
      BY <1>1, <1>2, SharesCounted
    <3>2. \A s \in 1..n : Portion(row.base, row.shares[s].rate) \in Nat
      BY <1>1, <3>1, PortionCounted
    <3> QED
      BY <1>2, <1>3, <3>1, <3>2 DEF Share
  <2>2. portions \in [1..n -> Share]
    BY <1>2, <1>3, <2>1
  <2> QED
    BY <2>1, <2>2
<1>5. PICK before : before = AmountTotal(SubSeq(portions, 1, Len(portions) - 1))
  OBVIOUS
<1>6. PICK last : last = IF before > row.total THEN 0 ELSE row.total - before
  OBVIOUS
<1>7. new = IF portions # <<>> /\ RateTotal(portions) = row.rate
            THEN [row EXCEPT !.shares = [portions EXCEPT ![Len(portions)].amount = last]]
            ELSE [row EXCEPT !.shares = portions]
  BY <1>3, <1>5, <1>6 DEF Recalculated
<1>8. SubSeq(portions, 1, Len(portions) - 1) \in Seq(Share)
  BY <1>4
<1>9. before \in Nat
  BY <1>5, <1>8, SharesCounted
<1>10. last \in Nat
  BY <1>1, <1>6, <1>9
<1>11. /\ new.status = row.status /\ new.rate = row.rate /\ new.total = row.total
       /\ new.base = row.base /\ new = [row EXCEPT !.shares = new.shares]
  BY <1>7 DEF GrantRow
<1>12. RateTotal(portions) = RateTotal(row.shares)
  <2>1. [s \in DOMAIN portions |-> portions[s].rate]
          = [s \in DOMAIN row.shares |-> row.shares[s].rate]
    BY <1>2, <1>4
  <2> QED
    BY <2>1 DEF RateTotal
<1>13. CASE portions # <<>> /\ RateTotal(portions) = row.rate
  <2>1. new.shares = [portions EXCEPT ![n].amount = last] /\ n # 0 /\ n \in 1..n
    BY <1>4, <1>7, <1>13 DEF GrantRow
  <2>2. /\ new.shares \in Seq(Share) /\ Len(new.shares) = n /\ DOMAIN new.shares = 1..n
        /\ new.shares[n].amount = last
        /\ \A s \in 1..n : new.shares[s].rate = portions[s].rate
        /\ \A s \in 1..(n - 1) : new.shares[s] = portions[s]
    <3>1. PICK share : share = [portions[n] EXCEPT !.amount = last]
      OBVIOUS
    <3>2. share \in Share /\ share.amount = last /\ share.rate = portions[n].rate
      <4>1. portions[n] \in Share
        BY <1>4, <2>1
      <4> QED
        BY <1>10, <3>1, <4>1 DEF Share
    <3>3. new.shares = [portions EXCEPT ![n] = share]
      BY <1>4, <2>1, <3>1
    <3>4. new.shares \in [1..n -> Share] /\ new.shares[n] = share
      BY <1>4, <2>1, <3>2, <3>3
    <3>5. new.shares \in Seq(Share) /\ Len(new.shares) = n /\ DOMAIN new.shares = 1..n
      BY <3>4
    <3>6. \A s \in (1..n) \ {n} : new.shares[s] = portions[s]
      BY <1>4, <3>3
    <3> QED
      BY <3>2, <3>4, <3>5, <3>6
  <2>3. RateTotal(new.shares) = RateTotal(portions)
    <3>1. [s \in DOMAIN portions |-> portions[s].rate]
            = [s \in DOMAIN new.shares |-> new.shares[s].rate]
      BY <1>4, <2>2
    <3> QED
      BY <3>1 DEF RateTotal
  <2>4. SubSeq(new.shares, 1, n - 1) = SubSeq(portions, 1, n - 1)
    BY <1>4, <2>2
  <2>5. AmountTotal(new.shares) = before + last
    <3>1. new.shares # <<>>
      BY <2>1, <2>2
    <3> QED
      BY <1>4, <1>5, <2>2, <2>4, <3>1, LastApart
  <2>6. ASSUME Payable(new)
        PROVE  AmountTotal(new.shares) = new.total
    <3>1. last > 0
      BY <2>1, <2>2, <2>6 DEF Payable
    <3> QED
      BY <1>1, <1>6, <1>9, <1>11, <2>5, <3>1
  <2>7. new \in GrantRow
    BY <1>11, <2>2 DEF GrantRow
  <2> QED
    BY <1>11, <1>12, <2>3, <2>6, <2>7
<1>14. CASE ~(portions # <<>> /\ RateTotal(portions) = row.rate)
  <2>1. new.shares = portions
    BY <1>7, <1>14 DEF GrantRow
  <2>2. new \in GrantRow
    BY <1>4, <1>11, <2>1 DEF GrantRow
  <2>3. portions = <<>> => RateTotal(portions) = 0
    BY NoSharesNoRate
  <2> QED
    BY <1>11, <1>12, <1>14, <2>1, <2>2, <2>3
<1> QED
  BY <1>13, <1>14

-----------------------------------------------------------------------------
(* A grant is changed *)

\* One row changes, and the rest of the sale's grants stay.
LEMMA GrantRowStep ==
    ASSUME GrantInv, NEW g \in Grants, NEW row \in GrantRow, ChangeGrant(g, row),
           row.status # "none", row.rate # 0, Payable(row),
           RateTotal(row.shares) = row.rate => AmountTotal(row.shares) = row.total,
           row.status \in {"released", "reversed"} => Reconciled(row),
           row.status \in {"draft", "released"}
              => \A o \in Grants \ {g} : grant[o].status \notin {"draft", "released"}
    PROVE  GrantInv'
<1>1. /\ grant' \in [Grants -> GrantRow] /\ grant'[g] = row
      /\ \A o \in Grants \ {g} : grant'[o] = grant[o]
      /\ UNCHANGED sold
  BY DEF ChangeGrant, GrantInv, GrantTypeOK
<1>2. GrantTypeOK'
  BY <1>1 DEF GrantInv, GrantTypeOK
<1>3. GrantsRated'
  BY <1>1 DEF GrantInv, GrantsRated
<1>4. ASSUME NEW o \in Grants
      PROVE  /\ Payable(grant'[o]) \/ grant'[o].status = "none"
             /\ RateTotal(grant'[o].shares) = grant'[o].rate
                   => AmountTotal(grant'[o].shares) = grant'[o].total
             /\ grant'[o].status \in {"released", "reversed"} => Reconciled(grant'[o])
  <2>1. CASE o = g
    BY <1>1, <2>1
  <2>2. CASE o # g
    <3>1. grant'[o] = grant[o]
      BY <1>1, <2>2
    <3> QED
      BY <3>1 DEF GrantInv, SharesMakeTheWhole
  <2> QED
    BY <2>1, <2>2
<1>5. ASSUME NEW o \in Grants, NEW p \in Grants,
             {grant'[o].status, grant'[p].status} \subseteq {"draft", "released"}
      PROVE  o = p
  <2>1. \A x, y \in Grants : grant[x].status \in {"draft", "released"}
                          /\ grant[y].status \in {"draft", "released"} => x = y
    BY DEF GrantInv, SharesMakeTheWhole
  <2>2. grant'[o].status \in {"draft", "released"} /\ grant'[p].status \in {"draft", "released"}
    BY <1>5
  <2> QED
    BY <1>1, <2>1, <2>2
<1> QED
  BY <1>2, <1>3, <1>4, <1>5 DEF GrantInv, SharesMakeTheWhole

LEMMA RedrawStep ==
    ASSUME GrantInv, NEW g \in Grants, NEW row \in GrantRow, Redraw(g, row),
           row.rate # 0, row.status \in {"draft", "released"},
           row.status = "released" => RateTotal(row.shares) = row.rate
    PROVE  GrantInv'
<1>1. PICK new : new = Recalculated(row)
  OBVIOUS
<1>2. /\ new \in GrantRow
      /\ new.status = row.status /\ new.rate = row.rate /\ new.total = row.total
      /\ RateTotal(new.shares) = RateTotal(row.shares)
      /\ Payable(new) /\ row.rate # 0 /\ RateTotal(new.shares) = new.rate
            => AmountTotal(new.shares) = new.total
  BY <1>1, RecalculatedAdds
<1>3. grant[g].status = "draft" /\ Payable(new) /\ ChangeGrant(g, new)
  BY <1>1 DEF Redraw
<1>4. new.status = "released" => Reconciled(new)
  BY <1>2, <1>3, NoSharesNoRate DEF Reconciled
<1>5. \A o \in Grants \ {g} : grant[o].status \notin {"draft", "released"}
  <2>1. \A x, y \in Grants : grant[x].status \in {"draft", "released"}
                          /\ grant[y].status \in {"draft", "released"} => x = y
    BY DEF GrantInv, SharesMakeTheWhole
  <2> QED
    BY <1>3, <2>1
<1>6. new.status \notin {"none", "reversed"}
  BY <1>2
<1> QED
  BY <1>2, <1>3, <1>4, <1>5, <1>6, GrantRowStep

LEMMA GrantStep ==
    ASSUME GrantInv, NEW g \in Grants,
           \/ \E base \in GrantBases, rate \in GrantRates :
                 create_grant(g, base, rate) \/ update_grant(g, base, rate)
           \/ \E rate \in ShareRates :
                 \/ add_allocation(g, rate)
                 \/ \E s \in DOMAIN grant[g].shares : update_allocation(g, s, rate)
           \/ \E s \in DOMAIN grant[g].shares : remove_allocation(g, s)
           \/ release_grant(g) \/ reverse_grant(g)
    PROVE  GrantInv'
<1>1. PICK row \in GrantRow : row = grant[g]
  BY DEF GrantInv, GrantTypeOK
<1>2. row.status # "none" => row.rate # 0
  BY <1>1 DEF GrantInv, GrantsRated
<1>3. row.shares \in Seq(Share) /\ DOMAIN row.shares = 1..Len(row.shares) /\ Len(row.shares) \in Nat
  BY DEF GrantRow
<1>4. ASSUME NEW base \in GrantBases, NEW rate \in GrantRates, create_grant(g, base, rate)
      PROVE  GrantInv'
  <2>1. PICK new : new = [status |-> "draft", base |-> base, rate |-> rate,
                          total |-> Portion(base, rate), shares |-> <<>>]
    OBVIOUS
  <2>2. Portion(base, rate) \in Nat
    BY CommissionNumbers, PortionCounted
  <2>3. /\ new \in GrantRow /\ new.status = "draft" /\ new.rate # 0 /\ new.rate \in Nat
        /\ new.shares = <<>> /\ new.total = Portion(base, rate)
    BY <2>1, <2>2, CommissionNumbers DEF GrantRow
  <2>4. /\ ChangeGrant(g, new) /\ Portion(base, rate) > 0
        /\ \A o \in Grants : grant[o].status \notin {"draft", "released"}
    BY <1>4, <2>1 DEF create_grant
  <2>5. Payable(new)
    BY <2>3, <2>4 DEF Payable
  <2> QED
    BY <2>3, <2>4, <2>5, NoSharesNoRate, GrantRowStep
<1>5. ASSUME NEW base \in GrantBases, NEW rate \in GrantRates, update_grant(g, base, rate)
      PROVE  GrantInv'
  <2>1. PICK new : new = [row EXCEPT !.base = base, !.rate = rate, !.total = Portion(base, rate)]
    OBVIOUS
  <2>2. Portion(base, rate) \in Nat
    BY CommissionNumbers, PortionCounted
  <2>3. new \in GrantRow /\ new.status = row.status /\ new.rate # 0
    BY <2>1, <2>2, CommissionNumbers DEF GrantRow
  <2>4. Redraw(g, new)
    BY <1>1, <1>5, <2>1 DEF update_grant
  <2>5. new.status = "draft"
    BY <1>1, <2>3, <2>4 DEF Redraw
  <2> QED
    BY <2>3, <2>4, <2>5, RedrawStep
<1>6. ASSUME NEW shares \in Seq(Share), Redraw(g, [row EXCEPT !.shares = shares])
      PROVE  GrantInv'
  <2>1. PICK new : new = [row EXCEPT !.shares = shares]
    OBVIOUS
  <2>2. row.status = "draft"
    BY <1>1, <1>6 DEF Redraw
  <2>3. new \in GrantRow /\ new.status = "draft" /\ new.rate # 0
    BY <1>2, <2>1, <2>2 DEF GrantRow
  <2>4. Redraw(g, new)
    BY <1>6, <2>1
  <2> QED
    BY <2>3, <2>4, RedrawStep
<1>7. ASSUME NEW rate \in ShareRates, add_allocation(g, rate)
      PROVE  GrantInv'
  <2>1. [rate |-> rate, amount |-> 0] \in Share
    BY DEF Share
  <2>2. Append(row.shares, [rate |-> rate, amount |-> 0]) \in Seq(Share)
    BY <1>3, <2>1
  <2> QED
    BY <1>1, <1>6, <1>7, <2>2 DEF add_allocation
<1>8. ASSUME NEW rate \in ShareRates, NEW s \in DOMAIN grant[g].shares, update_allocation(g, s, rate)
      PROVE  GrantInv'
  <2>1. PICK shares : shares = [row.shares EXCEPT ![s].rate = rate]
    OBVIOUS
  <2>2. row.shares[s] \in Share
    BY <1>1, <1>3
  <2>3. [row.shares[s] EXCEPT !.rate = rate] \in Share
    BY <2>2 DEF Share
  <2>4. shares \in Seq(Share)
    BY <1>1, <1>3, <2>1, <2>3
  <2>5. [row EXCEPT !.shares[s].rate = rate] = [row EXCEPT !.shares = shares]
    BY <2>1
  <2> QED
    BY <1>1, <1>6, <1>8, <2>4, <2>5 DEF update_allocation
<1>9. ASSUME NEW s \in DOMAIN grant[g].shares, remove_allocation(g, s)
      PROVE  GrantInv'
  <2>1. PICK shares : shares = SubSeq(row.shares, 1, s - 1) \o SubSeq(row.shares, s + 1, Len(row.shares))
    OBVIOUS
  <2>2. s \in 1..Len(row.shares)
    BY <1>1, <1>3
  <2>3. /\ SubSeq(row.shares, 1, s - 1) \in Seq(Share)
        /\ SubSeq(row.shares, s + 1, Len(row.shares)) \in Seq(Share)
    BY <1>3, <2>2
  <2>4. shares \in Seq(Share)
    BY <2>1, <2>3
  <2> QED
    BY <1>1, <1>6, <1>9, <2>1, <2>4 DEF remove_allocation
<1>10. CASE release_grant(g)
  <2>1. PICK new : new = [row EXCEPT !.status = "released"]
    OBVIOUS
  <2>2. Reconciled(Recalculated(row)) /\ Redraw(g, new)
    BY <1>1, <1>10, <2>1 DEF release_grant
  <2>3. RateTotal(row.shares) = row.rate
    <3>1. PICK drawn : drawn = Recalculated(row)
      OBVIOUS
    <3>2. drawn.rate = row.rate /\ RateTotal(drawn.shares) = RateTotal(row.shares)
      BY <3>1, RecalculatedAdds
    <3> QED
      BY <2>2, <3>1, <3>2 DEF Reconciled
  <2>4. row.status = "draft"
    BY <1>1, <2>2 DEF Redraw
  <2>5. /\ new \in GrantRow /\ new.status = "released" /\ new.rate = row.rate
        /\ new.shares = row.shares
    BY <2>1 DEF GrantRow
  <2> QED
    BY <1>2, <2>2, <2>3, <2>4, <2>5, RedrawStep
<1>11. CASE reverse_grant(g)
  <2>1. PICK new : new = [row EXCEPT !.status = "reversed"]
    OBVIOUS
  <2>2. /\ new \in GrantRow /\ new.status = "reversed" /\ new.rate = row.rate
        /\ new.shares = row.shares /\ new.total = row.total
    BY <2>1 DEF GrantRow
  <2>3. row.status = "released" /\ ChangeGrant(g, new)
    BY <1>1, <1>11, <2>1 DEF reverse_grant
  <2>4. Payable(row) /\ Reconciled(row)
    BY <1>1, <2>3 DEF GrantInv, SharesMakeTheWhole
  <2>5. Payable(new) /\ Reconciled(new)
    BY <2>2, <2>4 DEF Payable, Reconciled
  <2>6. RateTotal(new.shares) = new.rate => AmountTotal(new.shares) = new.total
    BY <2>5 DEF Reconciled
  <2> QED
    BY <1>2, <2>2, <2>3, <2>5, <2>6, GrantRowStep
<1> QED
  BY <1>4, <1>5, <1>7, <1>8, <1>9, <1>10, <1>11

LEMMA GrantStart ==
    ASSUME GrantInit
    PROVE  GrantInv
<1>1. /\ NoGrant \in GrantRow /\ NoGrant.status = "none" /\ NoGrant.shares = <<>>
      /\ NoGrant.rate = 0 /\ NoGrant.total = 0
  BY DEF NoGrant, GrantRow
<1>2. GrantTypeOK
  BY <1>1 DEF GrantInit, GrantTypeOK
<1>3. \A g \in Grants : grant[g] = NoGrant
  BY DEF GrantInit
<1>4. GrantsRated
  BY <1>1, <1>3 DEF GrantsRated
<1>5. SharesMakeTheWhole
  BY <1>1, <1>3, NoSharesNoRate DEF SharesMakeTheWhole
<1> QED
  BY <1>2, <1>4, <1>5 DEF GrantInv

\* Grants have a rate from the start, one of a sale counts, and shares that make the
\* granted rate make the whole commission.
THEOREM GrantInvariant == GrantSpec => []GrantInv
<1>1. GrantInit => GrantInv
  BY GrantStart
<1>2. GrantInv /\ [GrantNext]_grantVars => GrantInv'
  <2>1. ASSUME GrantInv, sale_moves PROVE GrantInv'
    BY <2>1 DEF sale_moves, GrantInv, GrantTypeOK, GrantsRated, SharesMakeTheWhole
  <2>2. ASSUME GrantInv, UNCHANGED grantVars PROVE GrantInv'
    BY <2>2 DEF grantVars, GrantInv, GrantTypeOK, GrantsRated, SharesMakeTheWhole
  <2>3. ASSUME GrantInv, GrantNext PROVE GrantInv'
    BY <2>1, <2>3, GrantStep DEF GrantNext
  <2> QED
    BY <2>2, <2>3
<1> QED
  BY <1>1, <1>2, PTL DEF GrantSpec

\* Every table of commissions keeps its columns' types.
THEOREM GrantTypesKept == GrantSpec => []GrantTypeOK
<1>1. GrantInv => GrantTypeOK
  BY DEF GrantInv
<1> QED
  BY <1>1, GrantInvariant, PTL

\* Whatever was rounded, and however the terms and shares of a draft changed: shares
\* whose rates make the granted rate pay out the commission to the last unit.
THEOREM SharesAlwaysWhole == GrantSpec => []SharesMakeTheWhole
<1>1. GrantInv => SharesMakeTheWhole
  BY DEF GrantInv
<1> QED
  BY <1>1, GrantInvariant, PTL
=============================================================================
