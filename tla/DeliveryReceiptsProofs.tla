----------------------- MODULE DeliveryReceiptsProofs -----------------------
(***************************************************************************)
(* Proofs about module DeliveryReceipts, for every set of rows and hooks   *)
(* and every MaxRetries.                                                   *)
(***************************************************************************)
EXTENDS DeliveryReceipts, TLAPS

\* The WHERE clause of the two UPDATEs and should_apply_delivery_status admit
\* the same moves, whatever is stored and whatever is reported: "keep the two
\* in sync" (postgres.py) is kept.
THEOREM GuardsAgree == \A current, new : Guard(current, new) <=> ShouldApply(current, new)
BY DEF Guard, ShouldApply, RankOf, Rank

-----------------------------------------------------------------------------
(* What a hook's move does to the hooks                                    *)

LEMMA GoesFacts ==
  ASSUME TypeOK, NEW h \in Hooks, NEW where \in PCs, hook[h].pc # "idle", Goes(h, where)
  PROVE  /\ hook' \in [Hooks -> [pc : PCs, row : Rows \cup {NoRow}, copy : Nat,
                                 status : Statuses \cup {"other"}, new : Nat]]
         /\ \A g \in Hooks : hook'[g].pc # "idle" => hook'[g].row \in Rows
         /\ hook'[h].pc = where /\ hook'[h].row = hook[h].row
         /\ hook'[h].copy = hook[h].copy /\ hook'[h].status = hook[h].status
         /\ hook'[h].new = hook[h].new
         /\ \A g \in Hooks \ {h} : hook'[g] = hook[g]
BY DEF TypeOK, Goes

LEMMA EndsFacts ==
  ASSUME TypeOK, NEW h \in Hooks, Ends(h)
  PROVE  /\ hook' \in [Hooks -> [pc : PCs, row : Rows \cup {NoRow}, copy : Nat,
                                 status : Statuses \cup {"other"}, new : Nat]]
         /\ \A g \in Hooks : hook'[g].pc # "idle" => hook'[g].row \in Rows
         /\ hook'[h].pc = "idle"
         /\ \A g \in Hooks \ {h} : hook'[g] = hook[g]
BY DEF TypeOK, Ends, Idle, PCs, Statuses

LEMMA ResentFacts ==
  ASSUME TypeOK, NEW h \in Hooks, NEW m \in Nat, hook[h].pc # "idle",
         hook' = [hook EXCEPT ![h] = [@ EXCEPT !.pc = "resent", !.new = m]]
  PROVE  /\ hook' \in [Hooks -> [pc : PCs, row : Rows \cup {NoRow}, copy : Nat,
                                 status : Statuses \cup {"other"}, new : Nat]]
         /\ \A g \in Hooks : hook'[g].pc # "idle" => hook'[g].row \in Rows
         /\ hook'[h].pc = "resent" /\ hook'[h].row = hook[h].row
         /\ hook'[h].copy = hook[h].copy /\ hook'[h].status = hook[h].status
         /\ hook'[h].new = m
         /\ \A g \in Hooks \ {h} : hook'[g] = hook[g]
BY DEF TypeOK, PCs

\* The shape of every column, local and counter: no step writes a status the
\* schema does not know, a receipt of an unknown status included.
THEOREM TypeCorrect == Spec => []TypeOK
<1>1. Init => TypeOK
  BY ReceiptsAssumption DEF Init, TypeOK, Idle, PCs, Statuses
<1>2. TypeOK /\ [Next]_vars => TypeOK'
  <2> SUFFICES ASSUME TypeOK, [Next]_vars PROVE TypeOK'
    OBVIOUS
  <2> USE DEF columns, provider, observers
  <2>1. CASE UNCHANGED vars
    BY <2>1 DEF vars, TypeOK
  <2>2. ASSUME NEW k \in Rows, Sends(k) PROVE TypeOK'
    BY <2>2 DEF Sends, FirstSend, RecordWamid, MarkManualFailed, TypeOK, Statuses
  <2>3. ASSUME NEW k \in Rows, NEW n \in 1..copies[k],
               CopyDelivered(k, n) \/ CopyFails(k, n)
        PROVE  TypeOK'
    <3>1. n \in Nat
      BY DEF TypeOK
    <3>2. QED
      BY <2>3, <3>1 DEF CopyDelivered, CopyFails, TypeOK
  <2>4. ASSUME NEW k \in Rows, NEW n \in 1..copies[k], NEW h \in Hooks,
               NEW s \in Reports(k, n), Lookup(h, k, n, s)
        PROVE  TypeOK'
    <3>1. n \in Nat
      BY DEF TypeOK
    <3>2. s \in Statuses \cup {"other"}
      BY DEF Reports, Statuses
    <3>3. QED
      BY <2>4, <3>1, <3>2 DEF Lookup, TypeOK, PCs
  <2>5. ASSUME NEW h \in Hooks, Step(h) PROVE TypeOK'
    <3>1. CASE IgnoreUnknown(h)
      BY <3>1, EndsFacts DEF IgnoreUnknown, TypeOK
    <3>2. CASE Apply(h)
      <4>1. hook[h].pc # "idle" /\ (Goes(h, "retry") \/ Ends(h))
        BY <3>2 DEF Apply
      <4>2. delivery' \in [Rows -> Statuses]
        BY <3>2 DEF Apply, Guard, TypeOK, Statuses
      <4>3. QED
        BY <3>2, <4>1, <4>2, EndsFacts, GoesFacts DEF Apply, TypeOK, PCs
    <3>3. CASE GetRetryInfo(h)
      <4>1. /\ hook[h].pc # "idle"
            /\ Goes(h, "spent") \/ Goes(h, "resend") \/ Ends(h)
        BY <3>3 DEF GetRetryInfo
      <4>2. QED
        BY <3>3, <4>1, EndsFacts, GoesFacts DEF GetRetryInfo, TypeOK, PCs
    <3>4. CASE MarkUndeliverable(h)
      BY <3>4, GoesFacts DEF MarkUndeliverable, TypeOK, PCs
    <3>5. CASE ResendFails(h)
      BY <3>5, GoesFacts DEF ResendFails, TypeOK, PCs
    <3>6. CASE ResendAccepted(h)
      <4>1. hook[h].pc = "resend" /\ hook[h].row \in Rows
        BY <3>6 DEF ResendAccepted, TypeOK
      <4>2. copies' \in [Rows -> Nat] /\ copies[hook[h].row] + 1 \in Nat
        BY <3>6, <4>1 DEF ResendAccepted, TypeOK
      <4>3. CASE Goes(h, "burn")
        BY <3>6, <4>1, <4>2, <4>3, GoesFacts DEF ResendAccepted, TypeOK, PCs
      <4>4. CASE hook' = [hook EXCEPT ![h] =
                          [@ EXCEPT !.pc = "resent", !.new = copies[hook[h].row] + 1]]
        BY <3>6, <4>1, <4>2, <4>4, ResentFacts DEF ResendAccepted, TypeOK
      <4>5. QED
        BY <3>6, <4>3, <4>4 DEF ResendAccepted
    <3>7. CASE RecordRetry(h)
      BY <3>7, EndsFacts DEF RecordRetry, TypeOK, Statuses
    <3>8. CASE BurnRetry(h)
      BY <3>8, GoesFacts DEF BurnRetry, TypeOK, PCs
    <3>9. CASE AlertOwner(h)
      BY <3>9, EndsFacts DEF AlertOwner, TypeOK
    <3>10. CASE CutOff(h)
      BY <3>10, EndsFacts DEF CutOff, TypeOK
    <3>11. QED
      BY <2>5, <3>1, <3>2, <3>3, <3>4, <3>5, <3>6, <3>7, <3>8, <3>9, <3>10 DEF Step
  <2>6. QED
    BY <2>1, <2>2, <2>3, <2>4, <2>5 DEF Next
<1>3. QED
  BY <1>1, <1>2, PTL DEF Spec

-----------------------------------------------------------------------------
(* A row shows what was reported of its copy                               *)

\* What the provider may report of a copy it may report for ever.
LEMMA ReportsLast ==
  ASSUME NEW k, NEW n, delivered \subseteq delivered', failed \subseteq failed'
  PROVE  Reports(k, n) \subseteq Reports(k, n)'
BY DEF Reports

\* A hook at work carries a status the provider reported of the hook's copy.
CarriesReport ==
  \A h \in Hooks :
    hook[h].pc # "idle" => /\ hook[h].status \in Reports(hook[h].row, hook[h].copy)
                           /\ hook[h].copy # 0

Honest == TypeOK /\ CarriesReport /\ ReportTruthful

LEMMA HonestInductive == Honest /\ TypeOK' /\ [Next]_vars => Honest'
<1> SUFFICES ASSUME Honest, TypeOK', [Next]_vars
             PROVE  CarriesReport' /\ ReportTruthful'
  BY DEF Honest
<1> USE DEF columns, provider, observers
<1>1. ASSUME UNCHANGED <<hook, delivered, failed>> PROVE CarriesReport'
  BY <1>1 DEF Honest, CarriesReport, Reports
<1>2. ASSUME UNCHANGED <<wamid, delivery, delivered, failed>> PROVE ReportTruthful'
  BY <1>2 DEF Honest, ReportTruthful, Reports
<1>3. CASE UNCHANGED vars
  BY <1>3, <1>1, <1>2 DEF vars
<1>4. ASSUME NEW k \in Rows, Sends(k) PROVE CarriesReport' /\ ReportTruthful'
  <2>1. CarriesReport'
    BY <1>4, <1>1 DEF Sends, FirstSend, RecordWamid, MarkManualFailed
  <2>2. CASE FirstSend(k)
    BY <2>1, <2>2, <1>2 DEF FirstSend
  <2>3. CASE RecordWamid(k)
    BY <2>1, <2>3 DEF RecordWamid, Honest, ReportTruthful, TypeOK, Reports
  <2>4. CASE MarkManualFailed(k)
    BY <2>1, <2>4 DEF MarkManualFailed, Honest, ReportTruthful, TypeOK, Reports
  <2>5. QED
    BY <1>4, <2>2, <2>3, <2>4 DEF Sends
<1>5. ASSUME NEW k \in Rows, NEW n \in 1..copies[k],
             CopyDelivered(k, n) \/ CopyFails(k, n)
      PROVE  CarriesReport' /\ ReportTruthful'
  <2>1. UNCHANGED <<hook, wamid, delivery>>
    BY <1>5 DEF CopyDelivered, CopyFails
  <2>2. delivered \subseteq delivered' /\ failed \subseteq failed'
    BY <1>5 DEF CopyDelivered, CopyFails
  <2>3. \A j, m : Reports(j, m) \subseteq Reports(j, m)'
    BY <2>2 DEF Reports
  <2>4. CarriesReport'
    BY <2>1, <2>3 DEF Honest, CarriesReport
  <2>5. ReportTruthful'
    BY <2>1, <2>3 DEF Honest, ReportTruthful
  <2>6. QED
    BY <2>4, <2>5
<1>6. ASSUME NEW k \in Rows, NEW n \in 1..copies[k], NEW h \in Hooks,
             NEW s \in Reports(k, n), Lookup(h, k, n, s)
      PROVE  CarriesReport' /\ ReportTruthful'
  <2>1. ReportTruthful'
    BY <1>6, <1>2 DEF Lookup
  <2>2. CarriesReport'
    BY <1>6 DEF Lookup, Honest, CarriesReport, TypeOK, Reports
  <2>3. QED
    BY <2>1, <2>2
<1>7. ASSUME NEW h \in Hooks, Step(h) PROVE CarriesReport' /\ ReportTruthful'
  <2>1. UNCHANGED <<delivered, failed>>
    BY <1>7 DEF Step, IgnoreUnknown, Apply, GetRetryInfo, MarkUndeliverable, ResendFails,
                ResendAccepted, RecordRetry, BurnRetry, AlertOwner, CutOff
  <2>2. ASSUME NEW where \in PCs, hook[h].pc # "idle", Goes(h, where) PROVE CarriesReport'
    <3>1. \A g \in Hooks : /\ hook'[g].pc # "idle" => hook[g].pc # "idle"
                           /\ hook'[g].row = hook[g].row /\ hook'[g].copy = hook[g].copy
                           /\ hook'[g].status = hook[g].status
      BY <2>2, GoesFacts DEF Honest
    <3>2. QED
      BY <2>1, <3>1 DEF Honest, CarriesReport, Reports
  <2>3. ASSUME Ends(h) PROVE CarriesReport'
    BY <2>1, <2>3, EndsFacts DEF Honest, CarriesReport, Reports
  <2>4. CASE Apply(h)
    <3>1. hook[h].pc = "apply" /\ (Goes(h, "retry") \/ Ends(h))
      BY <2>4 DEF Apply
    <3>2. CarriesReport'
      BY <3>1, <2>2, <2>3 DEF PCs
    <3>3. hook[h].row \in Rows /\ hook[h].status \in Reports(hook[h].row, hook[h].copy)
      BY <3>1 DEF Honest, CarriesReport, TypeOK
    <3>4. wamid' = wamid
      BY <2>4 DEF Apply
    <3>5. CASE ~(HasWamid(hook[h].row, hook[h].copy)
                 /\ Guard(delivery[hook[h].row], hook[h].status))
      <4>1. delivery' = delivery
        BY <2>4, <3>5 DEF Apply
      <4>2. QED
        BY <4>1, <3>2, <3>4, <2>1, <1>2
    <3>6. CASE HasWamid(hook[h].row, hook[h].copy)
               /\ Guard(delivery[hook[h].row], hook[h].status)
      <4>1. delivery' = [delivery EXCEPT ![hook[h].row] = hook[h].status]
        BY <2>4, <3>6 DEF Apply
      <4>2. wamid[hook[h].row] = hook[h].copy
        BY <3>6 DEF HasWamid
      <4>3. ReportTruthful'
        BY <4>1, <4>2, <3>3, <3>4, <2>1 DEF Honest, ReportTruthful, TypeOK, Reports
      <4>4. QED
        BY <4>3, <3>2
    <3>7. QED
      BY <3>5, <3>6
  <2>5. CASE ResendAccepted(h)
    <3>1. hook[h].pc = "resend" /\ hook[h].row \in Rows
      BY <2>5 DEF ResendAccepted, Honest, TypeOK
    <3>2. copies[hook[h].row] + 1 \in Nat
      BY <3>1 DEF Honest, TypeOK
    <3>3. CASE Goes(h, "burn")
      BY <2>5, <3>1, <3>3, <2>1, <2>2, <1>2 DEF ResendAccepted, PCs
    <3>4. CASE hook' = [hook EXCEPT ![h] =
                          [@ EXCEPT !.pc = "resent", !.new = copies[hook[h].row] + 1]]
      <4>1. CarriesReport'
        <5>1. \A g \in Hooks : /\ hook'[g].pc # "idle" => hook[g].pc # "idle"
                               /\ hook'[g].row = hook[g].row /\ hook'[g].copy = hook[g].copy
                               /\ hook'[g].status = hook[g].status
          BY <3>1, <3>2, <3>4, ResentFacts DEF Honest
        <5>2. QED
          BY <2>1, <5>1 DEF Honest, CarriesReport, Reports
      <4>2. QED
        BY <4>1, <2>5, <1>2 DEF ResendAccepted
    <3>5. QED
      BY <2>5, <3>3, <3>4 DEF ResendAccepted
  <2>6. CASE RecordRetry(h)
    <3>1. CarriesReport'
      BY <2>6, <2>3 DEF RecordRetry
    <3>2. ReportTruthful'
      BY <2>6, <2>1 DEF RecordRetry, Honest, ReportTruthful, TypeOK, Reports
    <3>3. QED
      BY <3>1, <3>2
  <2>7. CASE GetRetryInfo(h)
    <3>1. /\ hook[h].pc = "retry"
          /\ Goes(h, "spent") \/ Goes(h, "resend") \/ Ends(h)
      BY <2>7 DEF GetRetryInfo
    <3>2. QED
      BY <2>7, <3>1, <2>1, <2>2, <2>3, <1>2 DEF GetRetryInfo, PCs
  <2>8. CASE IgnoreUnknown(h) \/ AlertOwner(h) \/ CutOff(h)
    BY <2>8, <2>3, <1>2 DEF IgnoreUnknown, AlertOwner, CutOff
  <2>9. CASE MarkUndeliverable(h) \/ ResendFails(h) \/ BurnRetry(h)
    BY <2>9, <2>2, <1>2 DEF MarkUndeliverable, ResendFails, BurnRetry, PCs
  <2>10. QED
    BY <1>7, <2>4, <2>5, <2>6, <2>7, <2>8, <2>9 DEF Step
<1>8. QED
  BY <1>3, <1>4, <1>5, <1>6, <1>7 DEF Next

\* ReportTruthful: a row never shows a status of another copy than the one
\* whose wamid it holds, however late or reordered the receipts are.
THEOREM ReportsAreTruthful == Spec => []ReportTruthful
<1>1. Init /\ TypeOK => Honest
  BY DEF Init, Honest, CarriesReport, ReportTruthful, Idle
<1>2. Honest => ReportTruthful
  BY DEF Honest
<1>3. QED
  BY <1>1, <1>2, TypeCorrect, HonestInductive, PTL DEF Spec

-----------------------------------------------------------------------------
(* Resends                                                                 *)

\* What a hook on the way to a resend, or to the owner, knows of its row.
HookInv(h) ==
  LET k == hook[h].row
  IN /\ hook[h].pc \in Retrying =>
          wamid[k] = hook[h].copy /\ wamid[k] # 0 /\ delivery[k] = "failed" /\ pages[k] = 0
     /\ hook[h].pc \in {"retry", "resend", "resent", "burn"} => retries[k] + 1 = wamid[k]
     /\ hook[h].pc \in {"resend", "resent", "burn"} => retries[k] < MaxRetries
     /\ hook[h].pc \in {"retry", "resend"} => copies[k] = wamid[k]
     /\ hook[h].pc = "resent" => hook[h].new = wamid[k] + 1 /\ copies[k] = hook[h].new
     /\ hook[h].pc = "spent" => retries[k] = MaxRetries

\* What holds of a row's columns, whoever is at work on it.
RowInv(k) ==
  /\ wamid[k] = 0 => copies[k] <= 1 /\ retries[k] = 0 /\ pages[k] = 0
  /\ wamid[k] # 0 => copies[k] \in {wamid[k], wamid[k] + 1}
  /\ wamid[k] # 0 => wamid[k] \in {retries[k], retries[k] + 1}
  /\ wamid[k] # 0 /\ delivery[k] # "failed"
       => copies[k] = wamid[k] /\ retries[k] + 1 = wamid[k] /\ pages[k] = 0
  /\ copies[k] <= MaxRetries + 1 /\ retries[k] <= MaxRetries /\ pages[k] <= 1
  /\ \A n \in 1..copies[k] : n < wamid[k] => <<k, n>> \in failed
  /\ undeliverable[k] => retries[k] = MaxRetries /\ delivery[k] = "failed"

Answered(k) ==
  wamid[k] # 0 /\ delivery[k] = "failed" => Handled(k) \/ pages[k] = 1 \/ k \in dropped

\* No two hooks handle failures of one row.
OneHandler ==
  \A g, h \in Hooks :
    hook[g].pc \in Retrying /\ hook[h].pc \in Retrying /\ hook[g].row = hook[h].row => g = h

ReceiptsInv ==
  /\ OneHandler
  /\ \A h \in Hooks : HookInv(h)
  /\ \A k \in Rows : RowInv(k) /\ Answered(k)

\* A step that changes no row, and no hook on its way to a resend.
LEMMA RowsAlone ==
  ASSUME ReceiptsInv, UNCHANGED <<columns, copies, pages>>,
         failed \subseteq failed', dropped \subseteq dropped',
         \A g \in Hooks : hook[g].pc \in Retrying \/ hook'[g].pc \in Retrying
                            => hook'[g] = hook[g]
  PROVE  ReceiptsInv'
<1> USE DEF columns
<1>1. OneHandler'
  BY DEF ReceiptsInv, OneHandler
<1>2. ASSUME NEW h \in Hooks PROVE HookInv(h)'
  <2>1. CASE hook'[h].pc \in Retrying
    <3>1. hook'[h] = hook[h] /\ HookInv(h)
      BY <2>1 DEF ReceiptsInv
    <3>2. QED
      BY <3>1 DEF HookInv
  <2>2. CASE hook'[h].pc \notin Retrying
    BY <2>2 DEF HookInv, Retrying
  <2>3. QED
    BY <2>1, <2>2
<1>3. ASSUME NEW k \in Rows PROVE RowInv(k)'
  <2>1. RowInv(k)
    BY DEF ReceiptsInv
  <2>2. QED
    BY <2>1 DEF RowInv
<1>4. ASSUME NEW k \in Rows PROVE Answered(k)'
  <2>1. Answered(k)
    BY DEF ReceiptsInv
  <2>2. Handled(k) => Handled(k)'
    BY DEF Handled
  <2>3. QED
    BY <2>1, <2>2 DEF Answered
<1>5. QED
  BY <1>1, <1>2, <1>3, <1>4 DEF ReceiptsInv

\* A step that changes row k, and no hook of G: what it leaves alone stands.
LEMMA OthersStand ==
  ASSUME TypeOK, ReceiptsInv, NEW k \in Rows, NEW G \in SUBSET Hooks,
         \A j \in Rows \ {k} :
           /\ wamid'[j] = wamid[j] /\ delivery'[j] = delivery[j]
           /\ retries'[j] = retries[j] /\ undeliverable'[j] = undeliverable[j]
           /\ copies'[j] = copies[j] /\ pages'[j] = pages[j],
         failed \subseteq failed', dropped \subseteq dropped',
         \A g \in G : hook'[g] = hook[g],
         \A g \in G : hook[g].pc \in Retrying => hook[g].row # k,
         \A g \in Hooks \ G : hook[g].row = k
  PROVE  /\ \A g \in G : HookInv(g)'
         /\ \A j \in Rows \ {k} : RowInv(j)' /\ Answered(j)'
<1>1. ASSUME NEW g \in G PROVE HookInv(g)'
  <2>1. CASE hook[g].pc \in Retrying
    <3>1. hook'[g] = hook[g] /\ HookInv(g) /\ hook[g].row \in Rows \ {k}
      BY <2>1 DEF ReceiptsInv, TypeOK, Retrying
    <3>2. QED
      BY <3>1 DEF HookInv
  <2>2. CASE hook[g].pc \notin Retrying
    BY <2>2 DEF HookInv, Retrying
  <2>3. QED
    BY <2>1, <2>2
<1>2. ASSUME NEW j \in Rows \ {k} PROVE RowInv(j)'
  <2>1. RowInv(j)
    BY DEF ReceiptsInv
  <2>2. QED
    BY <2>1 DEF RowInv
<1>3. ASSUME NEW j \in Rows \ {k} PROVE Answered(j)'
  <2>1. Answered(j)
    BY DEF ReceiptsInv
  <2>2. Handled(j) => Handled(j)'
    BY DEF Handled
  <2>3. QED
    BY <2>1, <2>2 DEF Answered
<1>4. QED
  BY <1>1, <1>2, <1>3

\* A step of a hook at work on row k which no other hook handles.
LEMMA HookMoves ==
  ASSUME TypeOK, ReceiptsInv, NEW h \in Hooks, NEW k \in Rows, hook[h].row = k,
         \A j \in Rows \ {k} :
           /\ wamid'[j] = wamid[j] /\ delivery'[j] = delivery[j]
           /\ retries'[j] = retries[j] /\ undeliverable'[j] = undeliverable[j]
           /\ copies'[j] = copies[j] /\ pages'[j] = pages[j],
         failed \subseteq failed', dropped \subseteq dropped',
         \A g \in Hooks \ {h} : hook'[g] = hook[g],
         \A g \in Hooks \ {h} : hook[g].pc \in Retrying => hook[g].row # k,
         hook'[h].pc \in Retrying => hook'[h].row = k,
         HookInv(h)', RowInv(k)', Answered(k)'
  PROVE  ReceiptsInv'
<1>1. OneHandler'
  <2> SUFFICES ASSUME NEW f \in Hooks, NEW g \in Hooks,
                      hook'[f].pc \in Retrying, hook'[g].pc \in Retrying,
                      hook'[f].row = hook'[g].row
               PROVE  f = g
    BY DEF OneHandler
  <2>1. CASE f # h /\ g # h
    BY <2>1 DEF ReceiptsInv, OneHandler
  <2>2. CASE f = h \/ g = h
    BY <2>2
  <2>3. QED
    BY <2>1, <2>2
<1>2. /\ \A g \in Hooks \ {h} : HookInv(g)'
      /\ \A j \in Rows \ {k} : RowInv(j)' /\ Answered(j)'
  <2>1. \A g \in Hooks \ (Hooks \ {h}) : hook[g].row = k
    OBVIOUS
  <2>2. QED
    BY <2>1, OthersStand
<1>3. QED
  BY <1>1, <1>2 DEF ReceiptsInv

\* A row's first send and its wamid: no hook can be at work on it yet.
LEMMA SendsKeep ==
  ASSUME Honest, ReceiptsInv, NEW k \in Rows, Sends(k)
  PROVE  ReceiptsInv'
<1> USE DEF columns, provider, observers, Honest
<1>1. wamid[k] = 0
  <2>1. RowInv(k)
    BY DEF ReceiptsInv
  <2>2. copies[k] = 0 => wamid[k] = 0
    BY <2>1 DEF RowInv, TypeOK
  <2>3. QED
    BY <2>2 DEF Sends, FirstSend, RecordWamid, MarkManualFailed
<1>2. \A g \in Hooks : hook[g].pc \in Retrying => hook[g].row # k
  BY <1>1 DEF ReceiptsInv, HookInv
<1>3. UNCHANGED <<hook, failed, dropped>>
  BY DEF Sends, FirstSend, RecordWamid, MarkManualFailed
<1>4. /\ \A g \in Hooks : HookInv(g)'
      /\ \A j \in Rows \ {k} : RowInv(j)' /\ Answered(j)'
  <2>1. \A j \in Rows \ {k} :
           /\ wamid'[j] = wamid[j] /\ delivery'[j] = delivery[j]
           /\ retries'[j] = retries[j] /\ undeliverable'[j] = undeliverable[j]
           /\ copies'[j] = copies[j] /\ pages'[j] = pages[j]
    BY DEF Sends, FirstSend, RecordWamid, MarkManualFailed, TypeOK
  <2>2. QED
    BY <2>1, <1>2, <1>3, OthersStand
<1>5. RowInv(k)' /\ Answered(k)'
  <2>1. RowInv(k)
    BY DEF ReceiptsInv
  <2>2. CASE FirstSend(k)
    BY <2>1, <2>2, <1>1, ReceiptsAssumption
       DEF FirstSend, RowInv, Answered, TypeOK, ReceiptsAssumption
  <2>3. CASE RecordWamid(k)
    BY <2>1, <2>3, ReceiptsAssumption
       DEF RecordWamid, RowInv, Answered, TypeOK, ReceiptsAssumption
  <2>4. CASE MarkManualFailed(k)
    BY <2>1, <2>4, <1>1 DEF MarkManualFailed, RowInv, Answered, TypeOK
  <2>5. QED
    BY <2>2, <2>3, <2>4 DEF Sends
<1>6. OneHandler'
  BY <1>3 DEF ReceiptsInv, OneHandler
<1>7. QED
  BY <1>4, <1>5, <1>6 DEF ReceiptsInv

\* The UPDATE: a status that is not failed leaves a row nobody handles as it
\* was; a new failure makes this hook the only one that handles the row.
LEMMA ApplyKeeps ==
  ASSUME Honest, ReceiptsInv, NEW h \in Hooks, Apply(h)
  PROVE  ReceiptsInv'
<1> USE DEF columns, provider, observers, Honest
<1> PICK k \in Rows : k = hook[h].row
  BY DEF Apply, TypeOK
<1> PICK s : s = hook[h].status
  OBVIOUS
<1> DEFINE applied == HasWamid(k, hook[h].copy) /\ Guard(delivery[k], s)
<1>1. /\ hook[h].pc = "apply"
      /\ UNCHANGED <<wamid, retries, undeliverable, copies, pages, failed, dropped>>
  BY DEF Apply
<1>2. CASE ~applied
  <2>1. UNCHANGED delivery /\ Ends(h)
    BY <1>2 DEF Apply, Fresh
  <2>2. QED
    BY <2>1, <1>1, EndsFacts, RowsAlone DEF Retrying
<1>3. CASE applied
  <2>1. delivery' = [delivery EXCEPT ![k] = s] /\ wamid[k] = hook[h].copy
    BY <1>3 DEF Apply, HasWamid
  <2>2. delivery[k] # "failed" /\ RowInv(k)
    BY <1>1, <1>3 DEF Guard, ReceiptsInv
  <2>3. \A g \in Hooks : hook[g].pc \in Retrying => hook[g].row # k
    BY <2>2 DEF ReceiptsInv, HookInv
  <2>4. hook[h].copy # 0
    BY <1>1 DEF CarriesReport
  <2>5. CASE s = "failed"
    <3>1. Goes(h, "retry")
      BY <1>3, <2>5 DEF Apply, Fresh
    <3>2. /\ hook'[h].pc = "retry" /\ hook'[h].row = k /\ hook'[h].copy = hook[h].copy
          /\ \A g \in Hooks \ {h} : hook'[g] = hook[g]
      BY <3>1, <1>1, GoesFacts DEF PCs
    <3>3. HookInv(h)'
      BY <3>2, <1>1, <2>1, <2>2, <2>4, <2>5 DEF HookInv, RowInv, TypeOK
    <3>4. RowInv(k)'
      BY <1>1, <2>1, <2>2, <2>4, <2>5 DEF RowInv, TypeOK
    <3>5. Answered(k)'
      BY <3>2 DEF Answered, Handled, Retrying
    <3>6. QED
      BY <1>1, <2>1, <2>3, <3>2, <3>3, <3>4, <3>5, HookMoves DEF TypeOK
  <2>6. CASE s # "failed"
    <3>1. Ends(h)
      BY <2>6 DEF Apply, Fresh
    <3>2. hook'[h].pc = "idle" /\ \A g \in Hooks \ {h} : hook'[g] = hook[g]
      BY <3>1, EndsFacts
    <3>3. HookInv(h)' /\ hook'[h].pc \notin Retrying
      BY <3>2 DEF HookInv, Retrying
    <3>4. RowInv(k)'
      BY <1>1, <2>1, <2>2, <2>6 DEF RowInv, TypeOK
    <3>5. Answered(k)'
      BY <1>1, <2>1, <2>6 DEF Answered, TypeOK
    <3>6. QED
      BY <1>1, <2>1, <2>3, <3>2, <3>3, <3>4, <3>5, HookMoves DEF TypeOK
  <2>7. QED
    BY <2>5, <2>6
<1>4. QED
  BY <1>2, <1>3

\* A hook that handles a failure is the only one at its row, and each of its
\* steps leaves the row as its next step expects it.
LEMMA HandlingKeeps ==
  ASSUME Honest, ReceiptsInv, NEW h \in Hooks, hook[h].pc \in Retrying, Step(h)
  PROVE  ReceiptsInv'
<1>0. TypeOK
  BY DEF Honest
<1> USE <1>0, ReceiptsAssumption DEF columns, provider, observers, ReceiptsAssumption
<1> PICK k \in Rows : k = hook[h].row
  BY DEF TypeOK, Retrying
<1>1. HookInv(h) /\ RowInv(k) /\ Answered(k)
  BY DEF ReceiptsInv
<1>2. \A g \in Hooks \ {h} : hook[g].pc \in Retrying => hook[g].row # k
  BY DEF ReceiptsInv, OneHandler
<1>3. /\ wamid[k] = hook[h].copy /\ wamid[k] # 0 /\ delivery[k] = "failed" /\ pages[k] = 0
      /\ hook[h].pc # "idle"
  BY <1>1 DEF HookInv, Retrying
<1>4. ASSUME NEW where \in Retrying, Goes(h, where)
      PROVE  /\ hook'[h].pc = where /\ hook'[h].row = k
             /\ hook'[h].copy = hook[h].copy /\ hook'[h].new = hook[h].new
             /\ \A g \in Hooks \ {h} : hook'[g] = hook[g]
             /\ Handled(k)'
  <2>1. where \in PCs
    BY DEF Retrying, PCs
  <2>2. /\ hook'[h].pc = where /\ hook'[h].row = k
        /\ hook'[h].copy = hook[h].copy /\ hook'[h].new = hook[h].new
        /\ \A g \in Hooks \ {h} : hook'[g] = hook[g]
    BY <1>3, <1>4, <2>1, GoesFacts
  <2>3. QED
    BY <2>2 DEF Handled
<1>5. ASSUME Ends(h)
      PROVE  /\ hook'[h].pc = "idle" /\ hook'[h].pc \notin Retrying
             /\ \A g \in Hooks \ {h} : hook'[g] = hook[g]
             /\ HookInv(h)'
  <2>1. hook'[h].pc = "idle" /\ \A g \in Hooks \ {h} : hook'[g] = hook[g]
    BY <1>5, EndsFacts
  <2>2. QED
    BY <2>1 DEF HookInv, Retrying
<1>6. CASE GetRetryInfo(h)
  <2>1. PICK where \in {"spent", "resend"} :
          Goes(h, where) /\ (where = "spent" <=> retries[k] >= MaxRetries)
    BY <1>6, <1>3 DEF GetRetryInfo, Exhausted
  <2>2. hook[h].pc = "retry" /\ UNCHANGED <<columns, copies, pages, failed, dropped>>
    BY <1>6 DEF GetRetryInfo
  <2>3. where \in Retrying
    BY DEF Retrying
  <2>4. HookInv(h)'
    BY <1>1, <1>3, <1>4, <2>1, <2>2, <2>3 DEF HookInv, RowInv, TypeOK
  <2>5. RowInv(k)' /\ Answered(k)'
    BY <1>1, <1>4, <2>1, <2>2, <2>3 DEF RowInv, Answered
  <2>6. QED
    BY <1>2, <1>4, <2>1, <2>2, <2>3, <2>4, <2>5, HookMoves
<1>7. CASE MarkUndeliverable(h)
  <2>1. /\ Goes(h, "page") /\ "page" \in Retrying /\ hook[h].pc = "spent"
        /\ UNCHANGED <<wamid, delivery, retries, copies, pages, failed, dropped>>
        /\ undeliverable' = [undeliverable EXCEPT ![k] = k \in Templates]
    BY <1>7 DEF MarkUndeliverable, Retrying
  <2>2. HookInv(h)'
    BY <1>1, <1>3, <1>4, <2>1 DEF HookInv
  <2>3. RowInv(k)' /\ Answered(k)'
    BY <1>1, <1>3, <1>4, <2>1 DEF RowInv, Answered, HookInv, TypeOK
  <2>4. QED
    BY <1>2, <1>4, <2>1, <2>2, <2>3, HookMoves DEF TypeOK
<1>8. CASE ResendFails(h)
  <2>1. /\ Goes(h, "burn") /\ "burn" \in Retrying /\ hook[h].pc = "resend"
        /\ UNCHANGED <<columns, copies, pages, failed, dropped>>
    BY <1>8 DEF ResendFails, Retrying
  <2>2. HookInv(h)'
    BY <1>1, <1>3, <1>4, <2>1 DEF HookInv
  <2>3. RowInv(k)' /\ Answered(k)'
    BY <1>1, <1>3, <1>4, <2>1 DEF RowInv, Answered
  <2>4. QED
    BY <1>2, <1>4, <2>1, <2>2, <2>3, HookMoves
<1>9. CASE ResendAccepted(h)
  <2>1. /\ hook[h].pc = "resend" /\ copies' = [copies EXCEPT ![k] = @ + 1]
        /\ UNCHANGED <<columns, pages, failed, dropped>>
    BY <1>9 DEF ResendAccepted
  <2>2. retries[k] < MaxRetries /\ copies[k] = wamid[k] /\ retries[k] + 1 = wamid[k]
    BY <1>1, <2>1 DEF HookInv
  <2>3. /\ hook'[h].pc \in {"resent", "burn"} /\ hook'[h].row = k
        /\ hook'[h].copy = hook[h].copy
        /\ hook'[h].pc = "resent" => hook'[h].new = copies[k] + 1
        /\ \A g \in Hooks \ {h} : hook'[g] = hook[g]
    <3>1. CASE Goes(h, "burn")
      BY <3>1, <1>4 DEF Retrying
    <3>2. CASE hook' = [hook EXCEPT ![h] = [@ EXCEPT !.pc = "resent", !.new = copies[k] + 1]]
      <4>1. PICK m \in Nat : m = copies[k] + 1
        BY DEF TypeOK
      <4>2. hook' = [hook EXCEPT ![h] = [@ EXCEPT !.pc = "resent", !.new = m]]
        BY <3>2, <4>1
      <4>3. /\ hook'[h].pc = "resent" /\ hook'[h].row = hook[h].row
            /\ hook'[h].copy = hook[h].copy /\ hook'[h].new = m
            /\ \A g \in Hooks \ {h} : hook'[g] = hook[g]
        BY <1>0, <1>3, <4>2, ResentFacts
      <4>4. QED
        BY <4>1, <4>3
    <3>3. QED
      BY <1>9, <3>1, <3>2 DEF ResendAccepted
  <2>4. HookInv(h)'
    BY <1>3, <2>1, <2>2, <2>3 DEF HookInv, TypeOK
  <2>5. RowInv(k)'
    <3>1. \A n \in 1..copies'[k] : n < wamid[k] => <<k, n>> \in failed
      BY <1>1, <2>1, <2>2 DEF RowInv, TypeOK
    <3>2. QED
      BY <1>1, <1>3, <2>1, <2>2, <3>1 DEF RowInv, TypeOK
  <2>6. Answered(k)'
    BY <2>3 DEF Answered, Handled, Retrying
  <2>7. QED
    BY <1>2, <2>1, <2>3, <2>4, <2>5, <2>6, HookMoves DEF TypeOK
<1>10. CASE RecordRetry(h)
  <2>1. /\ Ends(h) /\ hook[h].pc = "resent"
        /\ retries' = [retries EXCEPT ![k] = @ + 1]
        /\ wamid' = [wamid EXCEPT ![k] = hook[h].new]
        /\ delivery' = [delivery EXCEPT ![k] = "null"]
        /\ UNCHANGED <<undeliverable, copies, pages, failed, dropped>>
    BY <1>10 DEF RecordRetry
  <2>2. /\ retries[k] < MaxRetries /\ hook[h].new = wamid[k] + 1 /\ copies[k] = hook[h].new
        /\ retries[k] + 1 = wamid[k]
    BY <1>1, <2>1 DEF HookInv
  <2>3. <<k, wamid[k]>> \in failed
    BY <1>3 DEF Honest, ReportTruthful, Reports
  <2>4. \A n \in 1..copies[k] : n < wamid'[k] => <<k, n>> \in failed
    BY <1>1, <2>1, <2>2, <2>3 DEF RowInv, TypeOK
  <2>5. RowInv(k)'
    BY <1>1, <1>3, <2>1, <2>2, <2>4 DEF RowInv, TypeOK
  <2>6. Answered(k)'
    BY <2>1 DEF Answered, TypeOK
  <2>7. QED
    BY <1>2, <1>5, <2>1, <2>5, <2>6, HookMoves DEF TypeOK
<1>11. CASE BurnRetry(h)
  <2>1. /\ Goes(h, "page") /\ "page" \in Retrying /\ hook[h].pc = "burn"
        /\ retries' = [retries EXCEPT ![k] = @ + 1]
        /\ UNCHANGED <<wamid, delivery, undeliverable, copies, pages, failed, dropped>>
    BY <1>11 DEF BurnRetry, Retrying
  <2>2. retries[k] < MaxRetries /\ retries[k] + 1 = wamid[k]
    BY <1>1, <2>1 DEF HookInv
  <2>3. HookInv(h)'
    BY <1>3, <1>4, <2>1 DEF HookInv
  <2>4. RowInv(k)' /\ Answered(k)'
    BY <1>1, <1>3, <1>4, <2>1, <2>2 DEF RowInv, Answered, TypeOK
  <2>5. QED
    BY <1>2, <1>4, <2>1, <2>3, <2>4, HookMoves DEF TypeOK
<1>12. CASE AlertOwner(h)
  <2>1. /\ Ends(h) /\ pages' = [pages EXCEPT ![k] = @ + 1]
        /\ UNCHANGED <<columns, copies, failed, dropped>>
        /\ hook[h].pc = "page"
    BY <1>12 DEF AlertOwner
  <2>2. RowInv(k)'
    BY <1>1, <1>3, <2>1 DEF RowInv, TypeOK
  <2>3. Answered(k)'
    BY <1>3, <2>1 DEF Answered, TypeOK
  <2>4. QED
    BY <1>2, <1>5, <2>1, <2>2, <2>3, HookMoves DEF TypeOK
<1>13. CASE CutOff(h)
  <2>1. /\ Ends(h) /\ dropped' = dropped \cup {k}
        /\ UNCHANGED <<columns, copies, pages, failed>>
    BY <1>13 DEF CutOff
  <2>2. RowInv(k)' /\ Answered(k)'
    BY <1>1, <2>1 DEF RowInv, Answered
  <2>3. QED
    BY <1>2, <1>5, <2>1, <2>2, HookMoves
<1>14. QED
  BY <1>6, <1>7, <1>8, <1>9, <1>10, <1>11, <1>12, <1>13
     DEF Step, IgnoreUnknown, Apply, Retrying

LEMMA ReceiptsInductive == Honest /\ ReceiptsInv /\ [Next]_vars => ReceiptsInv'
<1> SUFFICES ASSUME Honest, ReceiptsInv, [Next]_vars PROVE ReceiptsInv'
  OBVIOUS
<1>1. CASE UNCHANGED vars
  BY <1>1, RowsAlone DEF vars, provider, observers
<1>2. ASSUME NEW k \in Rows, Sends(k) PROVE ReceiptsInv'
  BY <1>2, SendsKeep
<1>3. ASSUME NEW k \in Rows, NEW n \in 1..copies[k],
             CopyDelivered(k, n) \/ CopyFails(k, n)
      PROVE  ReceiptsInv'
  <2>1. UNCHANGED <<columns, copies, pages, hook, dropped>> /\ failed \subseteq failed'
    BY <1>3 DEF CopyDelivered, CopyFails, observers
  <2>2. QED
    BY <2>1, RowsAlone
<1>4. ASSUME NEW k \in Rows, NEW n \in 1..copies[k], NEW h \in Hooks,
             NEW s \in Reports(k, n), Lookup(h, k, n, s)
      PROVE  ReceiptsInv'
  <2>1. /\ UNCHANGED <<columns, copies, pages, failed, dropped>>
        /\ hook[h].pc \notin Retrying /\ hook'[h].pc \notin Retrying
        /\ \A g \in Hooks \ {h} : hook'[g] = hook[g]
    BY <1>4 DEF Lookup, provider, observers, Retrying, Honest, TypeOK
  <2>2. QED
    BY <2>1, RowsAlone
<1>5. ASSUME NEW h \in Hooks, Step(h) PROVE ReceiptsInv'
  <2>1. CASE hook[h].pc \in Retrying
    BY <1>5, <2>1, HandlingKeeps
  <2>2. CASE Apply(h)
    BY <2>2, ApplyKeeps
  <2>3. CASE hook[h].pc \notin Retrying /\ (IgnoreUnknown(h) \/ CutOff(h))
    <3>1. /\ UNCHANGED <<columns, copies, pages, failed, dropped>> /\ Ends(h)
      BY <2>3 DEF IgnoreUnknown, CutOff, provider, observers
    <3>2. hook'[h].pc \notin Retrying /\ \A g \in Hooks \ {h} : hook'[g] = hook[g]
      BY <3>1, EndsFacts DEF Honest, Retrying
    <3>3. QED
      BY <2>3, <3>1, <3>2, RowsAlone
  <2>4. QED
    BY <1>5, <2>1, <2>2, <2>3
       DEF Step, Retrying, GetRetryInfo, MarkUndeliverable, ResendFails, ResendAccepted,
           RecordRetry, BurnRetry, AlertOwner
<1>6. QED
  BY <1>1, <1>2, <1>3, <1>4, <1>5 DEF Next

\* Initially nothing is known and nobody is at work.
LEMMA ReceiptsInitially == Init => ReceiptsInv
<1> SUFFICES ASSUME Init PROVE ReceiptsInv
  OBVIOUS
<1>1. \A h \in Hooks : hook[h].pc \notin Retrying
  BY DEF Init, Idle, Retrying
<1>2. \A h \in Hooks : HookInv(h)
  BY <1>1 DEF HookInv, Retrying
<1>3. \A k \in Rows : RowInv(k) /\ Answered(k)
  <2> SUFFICES ASSUME NEW k \in Rows PROVE RowInv(k) /\ Answered(k)
    OBVIOUS
  <2>1. /\ wamid[k] = 0 /\ delivery[k] = "null" /\ retries[k] = 0 /\ copies[k] = 0
        /\ pages[k] = 0 /\ undeliverable[k] = FALSE
    BY DEF Init
  <2>2. \A n \in 1..copies[k] : FALSE
    BY <2>1
  <2>3. QED
    BY <2>1, <2>2, ReceiptsAssumption DEF RowInv, Answered, ReceiptsAssumption
<1>4. QED
  BY <1>1, <1>2, <1>3 DEF ReceiptsInv, OneHandler

\* The inductive invariant the two theorems below are read off from.
THEOREM InvariantHolds == Spec => [](Honest /\ ReceiptsInv)
<1>1. Init /\ TypeOK => Honest
  BY DEF Init, Honest, CarriesReport, ReportTruthful, Idle
<1>2. QED
  BY <1>1, TypeCorrect, HonestInductive, ReceiptsInductive, ReceiptsInitially, PTL DEF Spec

\* OnlyFailuresResent: whatever the hooks' interleaving, the customer gets a
\* further copy only of a message whose every copy so far has failed, and at
\* most MaxRetries of them.
THEOREM ResendsOnlyFailures == Spec => []OnlyFailuresResent
<1>1. Honest /\ ReceiptsInv => OnlyFailuresResent
  <2> SUFFICES ASSUME Honest, ReceiptsInv, NEW k \in Rows
               PROVE  /\ \A n \in 1..copies[k] : n < copies[k] => <<k, n>> \in failed
                      /\ copies[k] <= MaxRetries + 1
                      /\ retries[k] <= MaxRetries
    BY DEF OnlyFailuresResent
  <2>1. RowInv(k) /\ TypeOK
    BY DEF ReceiptsInv, Honest
  <2>2. ASSUME NEW n \in 1..copies[k], n < copies[k] PROVE <<k, n>> \in failed
    <3>1. CASE n < wamid[k]
      BY <2>1, <3>1 DEF RowInv
    <3>2. CASE n >= wamid[k]
      <4>1. wamid[k] # 0 /\ n = wamid[k] /\ delivery[k] = "failed"
        BY <2>1, <2>2, <3>2 DEF RowInv, TypeOK
      <4>2. QED
        BY <4>1 DEF Honest, ReportTruthful, Reports
    <3>3. QED
      BY <3>1, <3>2, <2>1 DEF TypeOK
  <2>3. QED
    BY <2>1, <2>2 DEF RowInv
<1>2. QED
  BY <1>1, InvariantHolds, PTL

\* NoFailureForgotten: a failure the row knows of is handled, or has come to
\* the owner exactly once, unless the invocation that saw it was cut off.
THEOREM FailuresAreNotForgotten == Spec => []NoFailureForgotten
<1>1. ReceiptsInv => NoFailureForgotten
  BY DEF ReceiptsInv, RowInv, Answered, NoFailureForgotten
<1>2. QED
  BY <1>1, InvariantHolds, PTL

-----------------------------------------------------------------------------
(* Refinement of Receipt                                                   *)

\* ImplementsReceipt: copy by copy, no step of any hook takes a status back,
\* overwrites a failure, or leaves behind a copy that has not failed.
THEOREM Refines == Spec => ImplementsReceipt
<1>1. Init => \A k \in Rows, n \in Copies : Of(k, n)!Init
  BY ReceiptsAssumption DEF Init, Of!Init, Shown, Copies, ReceiptsAssumption
<1>2. ASSUME Honest, ReceiptsInv, [Next]_vars
      PROVE  [\A k \in Rows, n \in Copies : [Of(k, n)!Next]_(Shown(k, n))]_vars
  <2> SUFFICES ASSUME NEW k \in Rows, NEW n \in Copies
               PROVE  Of(k, n)!Next \/ UNCHANGED Shown(k, n)
    OBVIOUS
  <2> USE DEF columns, provider, observers
  <2>0. TypeOK /\ n \in Nat \ {0} /\ RowInv(k)
    BY <1>2, ReceiptsAssumption DEF Honest, Copies, ReceiptsInv, ReceiptsAssumption
  <2>1. ASSUME wamid'[k] = wamid[k], delivery'[k] = delivery[k]
        PROVE  UNCHANGED Shown(k, n)
    BY <2>1 DEF Shown
  <2>2. ASSUME wamid[k] = 0, wamid'[k] = 1, delivery'[k] = "null"
        PROVE  Of(k, n)!Next \/ UNCHANGED Shown(k, n)
    BY <2>0, <2>2 DEF Shown, Of!Next, Of!Learn
  <2>3. ASSUME wamid[k] = 0, wamid'[k] = 0
        PROVE  UNCHANGED Shown(k, n)
    BY <2>0, <2>3 DEF Shown
  <2>4. ASSUME wamid'[k] = wamid[k], Guard(delivery[k], delivery'[k])
        PROVE  Of(k, n)!Next \/ UNCHANGED Shown(k, n)
    <3>1. CASE wamid[k] = n
      <4>1. Shown(k, n) = delivery[k] /\ Shown(k, n)' = delivery'[k]
        BY <2>0, <2>4, <3>1 DEF Shown, TypeOK
      <4>2. CASE delivery'[k] = "failed"
        BY <2>0, <2>4, <4>1, <4>2
           DEF Guard, TypeOK, Statuses, Of!Next, Of!Fail, Of!Rank
      <4>3. CASE delivery'[k] # "failed"
        BY <2>0, <2>4, <4>1, <4>3
           DEF Guard, RankOf, Rank, TypeOK, Statuses, Of!Next, Of!MoveForward, Of!Rank
      <4>4. QED
        BY <4>2, <4>3
    <3>2. CASE wamid[k] # n
      <4>1. wamid[k] \in Nat
        BY <2>0 DEF TypeOK
      <4>2. QED
        BY <2>0, <2>4, <3>2, <4>1 DEF Shown
    <3>3. QED
      BY <3>1, <3>2
  <2>5. ASSUME wamid'[k] = wamid[k] + 1, delivery[k] = "failed", delivery'[k] = "null"
        PROVE  Of(k, n)!Next \/ UNCHANGED Shown(k, n)
    BY <2>0, <2>5 DEF Shown, TypeOK, Of!Next, Of!Learn, Of!Supersede
  <2>6. ASSUME NEW j \in Rows, Sends(j)
        PROVE  Of(k, n)!Next \/ UNCHANGED Shown(k, n)
    <3>1. CASE RecordWamid(j) /\ j = k
      BY <2>0, <2>2, <3>1 DEF RecordWamid, TypeOK
    <3>2. CASE MarkManualFailed(j) /\ j = k
      BY <2>0, <2>3, <3>2 DEF MarkManualFailed, TypeOK
    <3>3. CASE FirstSend(j) \/ j # k
      BY <2>0, <2>1, <2>6, <3>3 DEF Sends, FirstSend, RecordWamid, MarkManualFailed, TypeOK
    <3>4. QED
      BY <2>6, <3>1, <3>2, <3>3 DEF Sends
  <2>7. ASSUME NEW h \in Hooks, Step(h)
        PROVE  Of(k, n)!Next \/ UNCHANGED Shown(k, n)
    <3>1. CASE Apply(h)
      <4>1. CASE delivery'[k] = delivery[k]
        BY <2>1, <3>1, <4>1 DEF Apply
      <4>2. CASE delivery'[k] # delivery[k]
        <5>1. wamid' = wamid /\ Guard(delivery[k], delivery'[k])
          BY <2>0, <3>1, <4>2 DEF Apply, TypeOK
        <5>2. QED
          BY <5>1, <2>4
      <4>3. QED
        BY <4>1, <4>2
    <3>2. CASE RecordRetry(h)
      <4>1. CASE hook[h].row = k
        <5>1. wamid'[k] = hook[h].new /\ delivery'[k] = "null" /\ hook[h].pc = "resent"
          BY <2>0, <3>2, <4>1 DEF RecordRetry, TypeOK
        <5>2. hook[h].new = wamid[k] + 1 /\ delivery[k] = "failed"
          BY <1>2, <4>1, <5>1 DEF ReceiptsInv, HookInv, Retrying
        <5>3. QED
          BY <5>1, <5>2, <2>5
      <4>2. CASE hook[h].row # k
        BY <2>0, <2>1, <3>2, <4>2 DEF RecordRetry, TypeOK
      <4>3. QED
        BY <4>1, <4>2
    <3>3. CASE ~Apply(h) /\ ~RecordRetry(h)
      BY <2>1, <2>7, <3>3
         DEF Step, IgnoreUnknown, GetRetryInfo, MarkUndeliverable, ResendFails,
             ResendAccepted, BurnRetry, AlertOwner, CutOff
    <3>4. QED
      BY <3>1, <3>2, <3>3
  <2>8. CASE UNCHANGED vars
    BY <2>1, <2>8 DEF vars
  <2>9. ASSUME NEW j \in Rows, NEW m \in 1..copies[j],
               \/ CopyDelivered(j, m) \/ CopyFails(j, m)
               \/ \E h \in Hooks, s \in Reports(j, m) : Lookup(h, j, m, s)
        PROVE  UNCHANGED Shown(k, n)
    BY <2>1, <2>9 DEF CopyDelivered, CopyFails, Lookup
  <2>10. QED
    BY <1>2, <2>6, <2>7, <2>8, <2>9 DEF Next
<1>3. QED
  BY <1>1, <1>2, InvariantHolds, PTL DEF Spec, ImplementsReceipt
=============================================================================
