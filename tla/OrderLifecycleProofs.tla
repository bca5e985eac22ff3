------------------------ MODULE OrderLifecycleProofs ------------------------
(***************************************************************************)
(* Theorems about OrderLifecycle, for any orders, taps, runs and number of *)
(* faults: what the mapping and the customer are told of the Shopify order *)
(* is true, the final notice is sent at most once per cancellation, and    *)
(* the audit trail does not lie.                                           *)
(***************************************************************************)
EXTENDS OrderLifecycle, FiniteSetTheorems, TLAPS

-----------------------------------------------------------------------------
(* The type invariant: each actor keeps the types of what it writes. *)

LEMMA TapTypes ==
  ASSUME TypeOK, NEW t \in Taps,
         StartTap(t) \/ TapStep(t) \/ CutOffTap(t)
  PROVE  TypeOKOrder' /\ TypeOKTaps'
<1> USE ShopifyOrderAssumption, OrderActionsAssumption
    DEF ShopifyOrderAssumption, OrderActionsAssumption,
        TypeOK, TypeOKOrder, TypeOKTaps, TapPCs, Copy,
        orderVars, shopifyVars, mappingVars
<1>1. CASE StartTap(t) BY <1>1 DEF StartTap, Reaches
<1>2. CASE ResolveNothing(t) BY <1>2 DEF ResolveNothing, Finish
<1>3. CASE HandleConfirm(t) BY <1>3 DEF HandleConfirm, Finish, Reaches
<1>4. CASE HandleCancelRequest(t) BY <1>4 DEF HandleCancelRequest, Refused, Finish
<1>5. CASE HandleCancelConfirm(t) BY <1>5 DEF HandleCancelConfirm, Refused, Finish, Reaches
<1>6. CASE TagConfirmed(t) BY <1>6 DEF TagConfirmed, AddTags, Tagged, Fault, Reaches, Tags
<1>7. CASE RecordConfirm(t) BY <1>7 DEF RecordConfirm, Record, AuditRows, Reaches
<1>8. CASE SetConfirmed(t) BY <1>8 DEF SetConfirmed, SetMappingStatus, MappingStatus, Finish
<1>9. CASE TagCancelRequested(t) BY <1>9 DEF TagCancelRequested, AddTags, Tagged, Fault, Reaches, Tags
<1>10. CASE SetCancelRequested(t) BY <1>10 DEF SetCancelRequested, SetMappingStatus, MappingStatus, Reaches
<1>11. CASE CancelOrder(t) BY <1>11 DEF CancelOrder, Grant, CancelStates, Fault, Reaches
<1>12. CASE RecordCancelRequested(t) BY <1>12 DEF RecordCancelRequested, Record, AuditRows, Finish
<1>13. CASE RecordError(t) BY <1>13 DEF RecordError, Record, AuditRows, Finish
<1>14. CASE CutOffTap(t) BY <1>14 DEF CutOffTap, Fault
<1> QED BY <1>1, <1>2, <1>3, <1>4, <1>5, <1>6, <1>7, <1>8, <1>9, <1>10, <1>11, <1>12, <1>13, <1>14 DEF TapStep

\* The order a run is at is one it holds, which makes it an order.
AtHand ==
  \A r \in Runs : runPc[r] \notin {"idle", "loop"} => current[r] \in hold[r]

LEMMA RunTypes ==
  ASSUME TypeOK, AtHand, NEW r \in Runs,
         ClaimAwaiting(r) \/ RunStep(r) \/ CutOffRun(r)
  PROVE  TypeOKOrder' /\ TypeOKRuns'
<1> USE ShopifyOrderAssumption, ReconcileAssumption
    DEF ShopifyOrderAssumption, ReconcileAssumption, AtHand,
        TypeOK, TypeOKOrder, TypeOKRuns, RunPCs,
        orderVars, shopifyVars, mappingVars
<1>1. CASE ClaimAwaiting(r) BY <1>1 DEF ClaimAwaiting, Awaiting, MappingStatus
<1>2. CASE \E o \in Orders : FetchOrder(r, o) BY <1>2 DEF FetchOrder, Fault
<1>3. CASE TagCancelled(r) BY <1>3 DEF TagCancelled, Tagged, Fault, Moves, Tags
<1>4. CASE SetCancelled(r) BY <1>4 DEF SetCancelled, SetMappingStatus, MappingStatus, Moves
<1>5. CASE RecordCancelled(r) BY <1>5 DEF RecordCancelled, Moves, AuditRows
<1>6. CASE NotifyCancelled(r) BY <1>6 DEF NotifyCancelled, NextOrder
<1>7. CASE ReleaseClaim(r) BY <1>7 DEF ReleaseClaim, SetMappingStatus, MappingStatus, NextOrder, Fault
<1>8. CASE CutOffRun(r) BY <1>8 DEF CutOffRun, Fault
<1> QED BY <1>1, <1>2, <1>3, <1>4, <1>5, <1>6, <1>7, <1>8 DEF RunStep

LEMMA RunAtHand ==
  ASSUME TypeOK, AtHand, NEW r \in Runs,
         ClaimAwaiting(r) \/ RunStep(r) \/ CutOffRun(r)
  PROVE  AtHand'
<1> USE DEF AtHand, TypeOK, TypeOKRuns
<1>1. CASE ClaimAwaiting(r) BY <1>1 DEF ClaimAwaiting
<1>2. CASE \E o \in Orders : FetchOrder(r, o) BY <1>2 DEF FetchOrder
<1>3. CASE TagCancelled(r) BY <1>3 DEF TagCancelled, Moves
<1>4. CASE SetCancelled(r) BY <1>4 DEF SetCancelled, Moves
<1>5. CASE RecordCancelled(r) BY <1>5 DEF RecordCancelled, Moves
<1>6. CASE NotifyCancelled(r) BY <1>6 DEF NotifyCancelled, NextOrder
<1>7. CASE ReleaseClaim(r) BY <1>7 DEF ReleaseClaim, NextOrder
<1>8. CASE CutOffRun(r) BY <1>8 DEF CutOffRun
<1> QED BY <1>1, <1>2, <1>3, <1>4, <1>5, <1>6, <1>7, <1>8 DEF RunStep

LEMMA SendTypes ==
  ASSUME TypeOK, NEW o \in Orders, SendStep(o)
  PROVE  TypeOKOrder' /\ TypeOKSends'
<1> USE ShopifyOrderAssumption
    DEF ShopifyOrderAssumption, TypeOK, TypeOKOrder, TypeOKSends, Kinds, MessageStates,
        orderVars, shopifyVars, mappingVars, sendVars
<1>1. CASE \E k \in Kinds : Accept(o, k) BY <1>1 DEF Accept, Turns
<1>2. CASE \E k \in Kinds : NeverSend(o, k) BY <1>2 DEF NeverSend, Turns
<1>3. CASE \E k \in Kinds : StampTemplateSent(o, k) BY <1>3 DEF StampTemplateSent, SetMappingStatus, MappingStatus, Turns
<1>4. CASE \E k \in Kinds : StampLost(o, k) BY <1>4 DEF StampLost, Fault, Turns
<1>5. CASE GrowOld(o) BY <1>5 DEF GrowOld
<1>6. CASE EnqueueReminder(o) BY <1>6 DEF EnqueueReminder, Turns
<1> QED BY <1>1, <1>2, <1>3, <1>4, <1>5, <1>6 DEF SendStep

LEMMA OutsideTypes ==
  ASSUME TypeOK, NEW o \in Orders, Environment(o) \/ ClaimGoesStale(o)
  PROVE  TypeOKOrder'
BY ShopifyOrderAssumption
DEF ShopifyOrderAssumption, Environment, CancelCompletes, CancelJobFails, StaffCancels,
    Dispatch, Reingest, ClaimGoesStale, Fault, TypeOK, TypeOKOrder, CancelStates,
    orderVars, shopifyVars, mappingVars

\* Every step keeps the types, and every run at an order it holds.
LEMMA TypeStep == TypeOK /\ AtHand /\ [Next]_vars => TypeOK' /\ AtHand'
<1> SUFFICES ASSUME TypeOK, AtHand, [Next]_vars PROVE TypeOK' /\ AtHand'
  OBVIOUS
<1> USE DEF TypeOK
<1>1. ASSUME NEW t \in Taps, Tap(t) PROVE TypeOK' /\ AtHand'
  <2>1. StartTap(t) \/ TapStep(t) \/ CutOffTap(t) BY <1>1 DEF Tap
  <2>2. TypeOKOrder' /\ TypeOKTaps' BY <2>1, TapTypes
  <2> QED BY <1>1, <2>2 DEF Tap, runVars, sendVars, TypeOKRuns, TypeOKSends, AtHand
<1>2. ASSUME NEW r \in Runs, Job(r) PROVE TypeOK' /\ AtHand'
  <2>1. ClaimAwaiting(r) \/ RunStep(r) \/ CutOffRun(r) BY <1>2 DEF Job
  <2>2. TypeOKOrder' /\ TypeOKRuns' /\ AtHand' BY <2>1, RunTypes, RunAtHand
  <2> QED BY <1>2, <2>2 DEF Job, tapVars, sendVars, TypeOKTaps, TypeOKSends
<1>3. ASSUME NEW o \in Orders, Clock(o) PROVE TypeOK' /\ AtHand'
  <2>1. TypeOKOrder' BY <1>3, OutsideTypes DEF Clock
  <2> QED BY <1>3, <2>1 DEF Clock, ClaimGoesStale, tapVars, runVars, sendVars,
             TypeOKTaps, TypeOKRuns, TypeOKSends, AtHand
<1>4. ASSUME NEW o \in Orders, Outside(o) PROVE TypeOK' /\ AtHand'
  <2>1. TypeOKOrder' BY <1>4, OutsideTypes DEF Outside
  <2> QED BY <1>4, <2>1 DEF Outside, tapVars, runVars, sendVars,
             TypeOKTaps, TypeOKRuns, TypeOKSends, AtHand
<1>5. CASE Send
  <2>1. TypeOKOrder' /\ TypeOKSends'
    <3>1. CASE FindStaleTemplateSent
      BY <3>1 DEF FindStaleTemplateSent, Unanswered, TypeOKOrder, TypeOKSends,
         orderVars, shopifyVars, mappingVars
    <3> QED BY <1>5, <3>1, SendTypes DEF Send
  <2> QED BY <1>5, <2>1 DEF Send, tapVars, runVars, TypeOKTaps, TypeOKRuns, AtHand
<1>6. CASE UNCHANGED vars
  BY <1>6 DEF vars, orderVars, shopifyVars, mappingVars, tapVars, runVars, sendVars,
     TypeOKOrder, TypeOKTaps, TypeOKRuns, TypeOKSends, AtHand
<1> QED BY <1>1, <1>2, <1>3, <1>4, <1>5, <1>6 DEF Next

LEMMA TypeInit == Init => TypeOK /\ AtHand
BY ShopifyOrderAssumption, ReconcileAssumption
DEF ShopifyOrderAssumption, ReconcileAssumption, Init, InitOrder, InitTaps, InitRuns, InitSends,
    TypeOK, TypeOKOrder, TypeOKTaps, TypeOKRuns, TypeOKSends, AtHand, Tags, CancelStates,
    MappingStatus, TapPCs, Copy, RunPCs, MessageStates, Kinds

\* Every variable keeps its type: in particular every status, tag and audit
\* label the actors write is one the schema and the other actors know.
THEOREM TypeCorrect == Spec => []TypeOK
<1>1. Spec => [](TypeOK /\ AtHand) BY TypeInit, TypeStep, PTL DEF Spec
<1> QED BY <1>1, PTL

-----------------------------------------------------------------------------
(* The inductive invariants *)

\* What a tap or a run is about to write down is already true at Shopify.
AboutToWrite ==
  /\ \A t \in Taps :
       tapPc[t] \in {"recording", "confirming"} => HasAnyTag(TapOrder[t], "confirmed")
  /\ \A r \in Runs :
       /\ runPc[r] = "tagging" => IsCancelled(current[r])
       /\ runPc[r] \in {"closing", "recording", "notifying"} =>
            HasAnyTag(current[r], "cancelled")

\* The rows of a tap, by how far it got.
ConfirmRow(t) == [order |-> TapOrder[t], source |-> t,
                  action |-> "confirm", result |-> "ok"]

Progress(t) ==
  /\ tapPc[t] \notin {"confirming", "done"} => TapRows(t) = {}
  /\ tapPc[t] = "confirming" => TapRows(t) = {ConfirmRow(t)}
  /\ tapPc[t] = "ordered" => t \in granted
  /\ t \in issued => tapPc[t] \in {"ordered", "failed", "done"}
  /\ \A row1, row2 \in TapRows(t) : row1 = row2
  /\ \A row \in TapRows(t) : row.result = "ok" =>
       \/ row.action = "confirm" /\ HasAnyTag(row.order, "confirmed")
       \/ row.action = "cancel_requested" /\ t \in granted
  /\ t \in issued /\ tapPc[t] = "done" /\ t \notin dropped => TapRows(t) # {}

RowsByProgress == \A t \in Taps : Progress(t)

\* Every notice still to come is in the hands of a run or in the mapping: a
\* claim takes it from the mapping, a release or a reclaim gives it back.
Holders(o) == {r \in Runs : o \in hold[r]}

Closed(r, o) == current[r] = o /\ runPc[r] \in {"recording", "notifying"}

Waits(o) ==
  \/ status[o] = "cancel_requested"
  \/ /\ status[o] = "cancel_reconciling"
     /\ \A r \in Holders(o) : Closed(r, o)

Requests(o) == {t \in requested : TapOrder[t] = o}

Debt(o) == notified[o] + Cardinality(Holders(o)) + (IF Waits(o) THEN 1 ELSE 0)

NoticesOwed ==
  /\ \A o \in Orders : Debt(o) <= Cardinality(Requests(o))
  /\ \A o \in Orders : status[o] = "cancel_reconciling" /\ o \in aged => Holders(o) = {}
  /\ \A t \in requested : tapPc[t] \in {"ordering", "ordered", "failed", "done"}
  /\ \A r \in Runs : runPc[r] = "idle" => hold[r] = {}
\* What a step of an actor cannot undo: tags are only added, a finished
\* cancellation and Shopify's consent to one stay.
Monotone ==
  /\ \A o \in Orders : tags[o] \subseteq tags'[o] /\ (IsCancelled(o) => IsCancelled(o)')
  /\ granted \subseteq granted'

LEMMA NothingUndone == TypeOK /\ AtHand /\ [Next]_vars => Monotone
<1> SUFFICES ASSUME TypeOK, AtHand, [Next]_vars PROVE Monotone
  OBVIOUS
<1> USE DEF Monotone, IsCancelled, TypeOK, TypeOKOrder, TypeOKTaps, TypeOKRuns,
        orderVars, shopifyVars, mappingVars, tapVars, runVars, sendVars
<1>1. ASSUME NEW t \in Taps, Tap(t) PROVE Monotone
  <2>1. TapOrder[t] \in Orders BY OrderActionsAssumption DEF OrderActionsAssumption
  <2>2. CASE StartTap(t) BY <2>2 DEF StartTap
  <2>3. CASE TapStep(t)
    <3>1. CASE TagConfirmed(t) BY <2>1, <3>1 DEF TagConfirmed, AddTags, Tagged
    <3>2. CASE TagCancelRequested(t) BY <2>1, <3>2 DEF TagCancelRequested, AddTags, Tagged
    <3>3. CASE CancelOrder(t) BY <2>1, <3>3 DEF CancelOrder, Grant
    <3> QED BY <2>3, <3>1, <3>2, <3>3
        DEF TapStep, ResolveNothing, HandleConfirm, HandleCancelRequest, HandleCancelConfirm,
            RecordConfirm, SetConfirmed, SetCancelRequested, RecordCancelRequested, RecordError
  <2>4. CASE CutOffTap(t) BY <2>4 DEF CutOffTap
  <2> QED BY <1>1, <2>2, <2>3, <2>4 DEF Tap
<1>2. ASSUME NEW r \in Runs, Job(r) PROVE Monotone
  <2>1. CASE TagCancelled(r) BY <1>2, <2>1 DEF Job, TagCancelled, Tagged, AtHand
  <2> QED BY <1>2, <2>1 DEF Job, RunStep, ClaimAwaiting, FetchOrder, SetCancelled,
             RecordCancelled, NotifyCancelled, ReleaseClaim, CutOffRun
<1>3. ASSUME NEW o \in Orders, Clock(o) \/ Outside(o) PROVE Monotone
  BY <1>3 DEF Clock, ClaimGoesStale, Outside, Environment, CancelCompletes, CancelJobFails,
     StaffCancels, Dispatch, Reingest
<1>4. CASE Send
  BY <1>4 DEF Send, FindStaleTemplateSent, SendStep, Accept, NeverSend, StampTemplateSent,
     StampLost, GrowOld, EnqueueReminder
<1>5. CASE UNCHANGED vars BY <1>5 DEF vars
<1> QED BY <1>1, <1>2, <1>3, <1>4, <1>5 DEF Next

-----------------------------------------------------------------------------
(* StatusBacked *)

\* Where status comes from, and the tag that nobody may write before Shopify
\* has cancelled: only the actions named change what StatusBacked speaks of.
LEMMA BackedByTap ==
  ASSUME TypeOK, AtHand, StatusBacked, AboutToWrite, Monotone, NEW t \in Taps, Tap(t)
  PROVE  StatusBacked' /\ AboutToWrite'
<1> USE OrderActionsAssumption
    DEF OrderActionsAssumption, StatusBacked, AboutToWrite, HasAnyTag, IsCancelled, Monotone,
        TypeOK, TypeOKOrder, TypeOKTaps, TypeOKRuns, orderVars, shopifyVars, mappingVars, runVars
<1>0. /\ UNCHANGED runVars /\ TapOrder[t] \in Orders
      /\ \A r \in Runs : runPc[r] \notin {"idle", "loop"} => current[r] \in Orders
  BY DEF Tap, AtHand
<1>1. CASE StartTap(t) BY <1>0, <1>1 DEF StartTap, Reaches
<1>2. CASE ResolveNothing(t) BY <1>0, <1>2 DEF ResolveNothing, Finish
<1>3. CASE HandleConfirm(t) BY <1>0, <1>3 DEF HandleConfirm, Finish, Reaches
<1>4. CASE HandleCancelRequest(t) BY <1>0, <1>4 DEF HandleCancelRequest, Refused, Finish
<1>5. CASE HandleCancelConfirm(t) BY <1>0, <1>5 DEF HandleCancelConfirm, Refused, Finish, Reaches
<1>6. CASE TagConfirmed(t) BY <1>0, <1>6 DEF TagConfirmed, AddTags, Tagged, Reaches
<1>7. CASE RecordConfirm(t) BY <1>0, <1>7 DEF RecordConfirm, Record, Reaches
<1>8. CASE SetConfirmed(t) BY <1>0, <1>8 DEF SetConfirmed, SetMappingStatus, Finish
<1>9. CASE TagCancelRequested(t) BY <1>0, <1>9 DEF TagCancelRequested, AddTags, Tagged, Reaches
<1>10. CASE SetCancelRequested(t) BY <1>0, <1>10 DEF SetCancelRequested, SetMappingStatus, Reaches
<1>11. CASE CancelOrder(t) BY <1>0, <1>11 DEF CancelOrder, Grant, Reaches
<1>12. CASE RecordCancelRequested(t) BY <1>0, <1>12 DEF RecordCancelRequested, Record, Finish
<1>13. CASE RecordError(t) BY <1>0, <1>13 DEF RecordError, Record, Finish
<1>14. CASE CutOffTap(t) BY <1>0, <1>14 DEF CutOffTap
<1> QED BY <1>1, <1>2, <1>3, <1>4, <1>5, <1>6, <1>7, <1>8, <1>9, <1>10, <1>11, <1>12, <1>13, <1>14 DEF Tap, TapStep

LEMMA BackedByRun ==
  ASSUME TypeOK, AtHand, StatusBacked, AboutToWrite, Monotone, NEW r \in Runs, Job(r)
  PROVE  StatusBacked' /\ AboutToWrite'
<1> USE ReconcileAssumption
    DEF ReconcileAssumption, StatusBacked, AboutToWrite, AtHand, HasAnyTag, IsCancelled, Monotone,
        TypeOK, TypeOKOrder, TypeOKTaps, TypeOKRuns, orderVars, shopifyVars, mappingVars, tapVars
<1>0. /\ UNCHANGED tapVars
      /\ \A s \in Runs : runPc[s] \notin {"idle", "loop"} => current[s] \in Orders
  BY DEF Job
<1>1. CASE ClaimAwaiting(r) BY <1>0, <1>1 DEF ClaimAwaiting, Awaiting
<1>2. CASE \E o \in Orders : FetchOrder(r, o) BY <1>0, <1>2 DEF FetchOrder
<1>3. CASE TagCancelled(r)
  <2>1. current[r] \in Orders /\ IsCancelled(current[r]) /\ UNCHANGED <<cancel, status, notified, current>>
    BY <1>0, <1>3 DEF TagCancelled, Moves
  <2>2. UNCHANGED tags \/ tags' = [tags EXCEPT ![current[r]] = @ \cup {"cancelled"}]
    BY <1>3 DEF TagCancelled, Tagged
  <2>3. runPc' \in {[runPc EXCEPT ![r] = "closing"], [runPc EXCEPT ![r] = "releasing"]}
        /\ (runPc'[r] = "closing" => "cancelled" \in tags'[current[r]])
    BY <1>3, <2>1 DEF TagCancelled, Tagged, Moves
  <2>4. StatusBacked' BY <2>1, <2>2
  <2>5. \A s \in Runs : current[s] \in Orders => tags[current[s]] \subseteq tags'[current[s]]
    OBVIOUS
  <2>6. \A s \in Runs \ {r} : runPc'[s] = runPc[s]
    BY <2>3
  <2>7. runPc'[r] \in {"closing", "releasing"}
    BY <2>3
  <2>8. (\A t \in Taps :
           tapPc[t] \in {"recording", "confirming"} => HasAnyTag(TapOrder[t], "confirmed"))'
    BY <1>0, OrderActionsAssumption DEF tapVars, OrderActionsAssumption
  <2>9. ASSUME NEW s \in Runs
        PROVE  /\ runPc'[s] = "tagging" => IsCancelled(current[s])'
               /\ runPc'[s] \in {"closing", "recording", "notifying"} =>
                    HasAnyTag(current[s], "cancelled")'
    <3>1. CASE s = r BY <2>1, <2>3, <2>7, <3>1
    <3>2. CASE s # r BY <1>0, <2>1, <2>5, <2>6, <3>2
    <3> QED BY <3>1, <3>2
  <2>10. AboutToWrite' BY <2>8, <2>9
  <2> QED BY <2>4, <2>10
<1>4. CASE SetCancelled(r) BY <1>0, <1>4 DEF SetCancelled, SetMappingStatus, Moves
<1>5. CASE RecordCancelled(r) BY <1>0, <1>5 DEF RecordCancelled, Moves
<1>6. CASE NotifyCancelled(r) BY <1>0, <1>6 DEF NotifyCancelled, NextOrder
<1>7. CASE ReleaseClaim(r) BY <1>0, <1>7 DEF ReleaseClaim, SetMappingStatus, NextOrder
<1>8. CASE CutOffRun(r) BY <1>0, <1>8 DEF CutOffRun
<1> QED BY <1>1, <1>2, <1>3, <1>4, <1>5, <1>6, <1>7, <1>8 DEF Job, RunStep

LEMMA BackedByRest ==
  ASSUME TypeOK, AtHand, StatusBacked, AboutToWrite, Monotone,
         UNCHANGED <<tapVars, runVars>>, UNCHANGED tags,
         \A o \in Orders : status'[o] \in {status[o], "template_sent"}
  PROVE  StatusBacked' /\ AboutToWrite'
BY OrderActionsAssumption
DEF OrderActionsAssumption, StatusBacked, AboutToWrite, AtHand, HasAnyTag, Monotone, IsCancelled,
    TypeOK, TypeOKOrder, TypeOKTaps, TypeOKRuns, tapVars, runVars

\* The messages, the clock and Shopify leave the tags and every run and tap
\* alone, and write no status but 'template_sent'.
LEMMA RestIsHarmless ==
  ASSUME TypeOK,
         Send \/ UNCHANGED vars \/ \E o \in Orders : Clock(o) \/ Outside(o)
  PROVE  /\ UNCHANGED <<tapVars, runVars>> /\ UNCHANGED <<tags, audit>>
         /\ \A o \in Orders : status'[o] \in {status[o], "template_sent"}
<1> USE DEF TypeOK, TypeOKOrder, orderVars, shopifyVars, mappingVars
<1>1. CASE Send
  BY <1>1 DEF Send, FindStaleTemplateSent, SendStep, Accept, NeverSend, StampTemplateSent,
     StampLost, GrowOld, EnqueueReminder, SetMappingStatus
<1>2. ASSUME NEW o \in Orders, Clock(o) \/ Outside(o)
      PROVE  /\ UNCHANGED <<tapVars, runVars>> /\ UNCHANGED <<tags, audit>>
             /\ UNCHANGED status
  BY <1>2 DEF Clock, ClaimGoesStale, Outside, Environment, CancelCompletes, CancelJobFails,
     StaffCancels, Dispatch, Reingest
<1>3. CASE UNCHANGED vars BY <1>3 DEF vars
<1> QED BY <1>1, <1>2, <1>3

LEMMA BackedStep ==
  ASSUME TypeOK, AtHand, StatusBacked, AboutToWrite, [Next]_vars
  PROVE  StatusBacked' /\ AboutToWrite'
<1>1. Monotone BY NothingUndone
<1>2. ASSUME NEW t \in Taps, Tap(t) PROVE StatusBacked' /\ AboutToWrite'
  BY <1>1, <1>2, BackedByTap
<1>3. ASSUME NEW r \in Runs, Job(r) PROVE StatusBacked' /\ AboutToWrite'
  BY <1>1, <1>3, BackedByRun
<1>4. CASE Send \/ UNCHANGED vars \/ \E o \in Orders : Clock(o) \/ Outside(o)
  BY <1>1, <1>4, RestIsHarmless, BackedByRest
<1> QED BY <1>2, <1>3, <1>4 DEF Next

LEMMA BackedInit == Init => StatusBacked /\ AboutToWrite
BY OrderActionsAssumption
DEF OrderActionsAssumption, Init, InitOrder, InitTaps, InitRuns, StatusBacked, AboutToWrite,
    HasAnyTag, IsCancelled

\* Nothing the mapping, the tags or a notice says of the Shopify order is
\* false: a status is written after the call it reports, and the final tag
\* only after Shopify's own cancelledAt was read.
THEOREM WhatIsSaidIsTrue == Spec => []StatusBacked
<1> DEFINE Inv == TypeOK /\ AtHand /\ StatusBacked /\ AboutToWrite
<1>1. Init => Inv BY TypeInit, BackedInit
<1>2. Inv /\ [Next]_vars => Inv' BY TypeStep, BackedStep
<1>3. Inv => StatusBacked OBVIOUS
<1> QED BY <1>1, <1>2, <1>3, PTL DEF Spec
-----------------------------------------------------------------------------
(* NoticesAccounted *)

LEMMA FiniteParts ==
  /\ \A R \in SUBSET Runs : IsFiniteSet(R) /\ Cardinality(R) \in Nat
  /\ \A T \in SUBSET Taps : IsFiniteSet(T) /\ Cardinality(T) \in Nat
BY ShopifyOrderAssumption, ReconcileAssumption, FS_Subset, FS_CardinalityType
DEF ShopifyOrderAssumption, ReconcileAssumption

\* The account of an order stands: as long as nothing moves,
LEMMA QuietAccount ==
  ASSUME TypeOK, NoticesOwed, NEW o \in Orders,
         notified'[o] = notified[o], Holders(o)' = Holders(o),
         Waits(o)' => Waits(o), requested' = requested
  PROVE  (Debt(o) <= Cardinality(Requests(o)))'
<1>1. Cardinality(Holders(o)) \in Nat /\ Cardinality(Requests(o)) \in Nat
  BY FiniteParts DEF Holders, Requests, TypeOK, TypeOKTaps
<1>2. Requests(o)' = Requests(o) BY DEF Requests
<1>3. notified[o] \in Nat BY DEF TypeOK, TypeOKRuns
<1>4. Debt(o) <= Cardinality(Requests(o)) BY DEF NoticesOwed
<1> QED BY <1>1, <1>2, <1>3, <1>4 DEF Debt

\* when a run lets go of the order without a notice,
LEMMA DroppedAccount ==
  ASSUME TypeOK, NoticesOwed, NEW o \in Orders, NEW r \in Holders(o),
         notified'[o] = notified[o], Holders(o)' = Holders(o) \ {r}, requested' = requested
  PROVE  (Debt(o) <= Cardinality(Requests(o)))'
<1>1. IsFiniteSet(Holders(o)) /\ Cardinality(Holders(o)) \in Nat
      /\ Cardinality(Requests(o)) \in Nat
  BY FiniteParts DEF Holders, Requests, TypeOK, TypeOKTaps
<1>2. Requests(o)' = Requests(o) BY DEF Requests
<1>3. Cardinality(Holders(o) \ {r}) = Cardinality(Holders(o)) - 1
  BY <1>1, FS_RemoveElement
<1>4. notified[o] \in Nat BY DEF TypeOK, TypeOKRuns
<1>5. Debt(o) <= Cardinality(Requests(o)) BY DEF NoticesOwed
<1> QED BY <1>1, <1>2, <1>3, <1>4, <1>5 DEF Debt

\* and when it lets go of it with one.
LEMMA NotifiedAccount ==
  ASSUME TypeOK, NoticesOwed, NEW o \in Orders, NEW r \in Holders(o),
         notified'[o] \in {notified[o], notified[o] + 1},
         Holders(o)' = Holders(o) \ {r}, Waits(o)' => Waits(o), requested' = requested
  PROVE  (Debt(o) <= Cardinality(Requests(o)))'
<1>1. IsFiniteSet(Holders(o)) /\ Cardinality(Holders(o)) \in Nat
      /\ Cardinality(Requests(o)) \in Nat
  BY FiniteParts DEF Holders, Requests, TypeOK, TypeOKTaps
<1>2. Requests(o)' = Requests(o) BY DEF Requests
<1>3. Cardinality(Holders(o) \ {r}) = Cardinality(Holders(o)) - 1
  BY <1>1, FS_RemoveElement
<1>4. notified[o] \in Nat BY DEF TypeOK, TypeOKRuns
<1>5. Debt(o) <= Cardinality(Requests(o)) BY DEF NoticesOwed
<1> QED BY <1>1, <1>2, <1>3, <1>4, <1>5 DEF Debt

\* The other parts of NoticesOwed, which need no counting.
LateStages == {"ordering", "ordered", "failed", "done"}

AgedAreFree ==
  \A o \in Orders : status[o] = "cancel_reconciling" /\ o \in aged => Holders(o) = {}
RequestedOnce == \A t \in requested : tapPc[t] \in LateStages
IdleHoldNone == \A r \in Runs : runPc[r] = "idle" => hold[r] = {}
Accounts == \A o \in Orders : Debt(o) <= Cardinality(Requests(o))

LEMMA NoticesOwedParts ==
  /\ NoticesOwed <=> Accounts /\ AgedAreFree /\ RequestedOnce /\ IdleHoldNone
  /\ NoticesOwed' <=> Accounts' /\ AgedAreFree' /\ RequestedOnce' /\ IdleHoldNone'
BY DEF NoticesOwed, Accounts, AgedAreFree, RequestedOnce, IdleHoldNone, LateStages

\* A tap that asks for a cancellation adds one notice to the account of its
\* order and one request to pay for it.
LEMMA AccountOfRequest ==
  ASSUME TypeOK, NoticesOwed, NEW t \in Taps, SetCancelRequested(t), UNCHANGED runVars
  PROVE  NoticesOwed'
<1> DEFINE q == TapOrder[t]
<1>1. q \in Orders BY OrderActionsAssumption DEF OrderActionsAssumption
<1>2. /\ status' = [status EXCEPT ![q] = "cancel_requested"] /\ aged' = aged \ {q}
      /\ requested' = requested \cup {t} /\ tapPc' = [tapPc EXCEPT ![t] = "ordering"]
      /\ tapPc[t] = "requesting" /\ UNCHANGED <<notified, hold, runPc, current>>
  BY DEF SetCancelRequested, SetMappingStatus, Reaches, runVars
<1>3. t \notin requested BY <1>2 DEF NoticesOwed
<1>4. \A o \in Orders : Holders(o)' = Holders(o) BY <1>2 DEF Holders
<1>5. Accounts'
  <2> SUFFICES ASSUME NEW o \in Orders PROVE (Debt(o) <= Cardinality(Requests(o)))'
    BY DEF Accounts
  <2>1. /\ IsFiniteSet(Requests(o)) /\ Cardinality(Requests(o)) \in Nat
        /\ Cardinality(Holders(o)) \in Nat
    BY FiniteParts DEF Holders, Requests, TypeOK, TypeOKTaps
  <2>2. notified[o] \in Nat /\ Debt(o) <= Cardinality(Requests(o))
    BY DEF TypeOK, TypeOKRuns, NoticesOwed
  <2>3. CASE o = q
    <3>1. Requests(o)' = Requests(o) \cup {t} BY <1>2, <2>3 DEF Requests
    <3>2. t \notin Requests(o) BY <1>3 DEF Requests
    <3>3. Cardinality(Requests(o)') = Cardinality(Requests(o)) + 1
      BY <2>1, <3>1, <3>2, FS_AddElement
    <3> QED BY <1>2, <1>4, <2>1, <2>2, <3>3 DEF Debt
  <2>4. CASE o # q
    <3>1. Requests(o)' = Requests(o) BY <1>2, <2>4 DEF Requests
    <3>2. status'[o] = status[o] BY <1>2, <2>4 DEF TypeOK, TypeOKOrder
    <3>3. Waits(o)' <=> Waits(o) BY <1>2, <1>4, <3>2 DEF Waits, Closed
    <3> QED BY <1>2, <1>4, <2>2, <3>1, <3>3 DEF Debt
  <2> QED BY <2>3, <2>4
<1>6. AgedAreFree'
  BY <1>1, <1>2, <1>4 DEF AgedAreFree, NoticesOwed, TypeOK, TypeOKOrder
<1>7. RequestedOnce'
  BY <1>2 DEF RequestedOnce, NoticesOwed, LateStages, TypeOK, TypeOKTaps
<1>8. IdleHoldNone' BY <1>2 DEF IdleHoldNone, NoticesOwed
<1> QED BY <1>5, <1>6, <1>7, <1>8, NoticesOwedParts

\* Steps that touch neither the runs nor the requests, and write no status
\* that awaits the job.
LEMMA AccountUntouched ==
  ASSUME TypeOK, NoticesOwed, UNCHANGED <<runPc, hold, current, notified, requested>>,
         \A o \in Orders : status'[o] \in {status[o], "confirmed", "template_sent"},
         \A o \in Orders : status'[o] = "cancel_reconciling" /\ o \in aged' =>
                           o \in aged \/ Holders(o) = {},
         \A t \in requested : tapPc[t] \in LateStages => tapPc'[t] \in LateStages
  PROVE  NoticesOwed'
<1>1. \A o \in Orders : Holders(o)' = Holders(o) BY DEF Holders
<1>2. \A o \in Orders : Waits(o)' => Waits(o) BY <1>1 DEF Waits, Closed
<1>3. Accounts' BY <1>1, <1>2, QuietAccount DEF Accounts
<1>4. AgedAreFree' BY <1>1 DEF AgedAreFree, NoticesOwed
<1>5. RequestedOnce' BY DEF RequestedOnce, NoticesOwed, LateStages
<1>6. IdleHoldNone' BY DEF IdleHoldNone, NoticesOwed
<1> QED BY <1>3, <1>4, <1>5, <1>6, NoticesOwedParts

LEMMA OwedByTap ==
  ASSUME TypeOK, NoticesOwed, NEW t \in Taps, Tap(t)
  PROVE  NoticesOwed'
<1>1. UNCHANGED runVars BY DEF Tap
<1>2. CASE SetCancelRequested(t) BY <1>1, <1>2, AccountOfRequest
<1>3. CASE ~SetCancelRequested(t)
  <2>1. /\ requested' = requested /\ aged' \subseteq aged
        /\ \A o \in Orders : status'[o] \in {status[o], "confirmed"}
    <3>1. CASE SetConfirmed(t)
      BY <3>1 DEF SetConfirmed, SetMappingStatus, TypeOK, TypeOKOrder
    <3>2. CASE ~SetConfirmed(t)
      BY <1>3, <3>2 DEF Tap, TapStep, StartTap, ResolveNothing, HandleConfirm, HandleCancelRequest,
         HandleCancelConfirm, TagConfirmed, RecordConfirm, TagCancelRequested, CancelOrder,
         RecordCancelRequested, RecordError, CutOffTap, orderVars, mappingVars
    <3> QED BY <3>1, <3>2
  <2>2. /\ \A u \in Taps \ {t} : tapPc'[u] = tapPc[u]
        /\ tapPc[t] \in LateStages => tapPc'[t] \in LateStages
    BY DEF Tap, TapStep, StartTap, ResolveNothing, HandleConfirm, HandleCancelRequest,
       HandleCancelConfirm, TagConfirmed, RecordConfirm, SetConfirmed, TagCancelRequested,
       SetCancelRequested, CancelOrder, RecordCancelRequested, RecordError, CutOffTap,
       Refused, Reaches, Finish, LateStages, TypeOK, TypeOKTaps
  <2> QED BY <1>1, <2>1, <2>2, AccountUntouched DEF runVars, TypeOK, TypeOKTaps
<1> QED BY <1>2, <1>3

LEMMA OwedByRest ==
  ASSUME TypeOK, NoticesOwed,
         Send \/ UNCHANGED vars \/ \E o \in Orders : Clock(o) \/ Outside(o)
  PROVE  NoticesOwed'
<1>1. /\ UNCHANGED <<tapVars, runVars>>
      /\ \A o \in Orders : status'[o] \in {status[o], "template_sent"}
  BY RestIsHarmless
<1>2. \A o \in Orders : status'[o] = "cancel_reconciling" /\ o \in aged' =>
                        o \in aged \/ Holders(o) = {}
  <2>1. CASE Send
    BY <2>1 DEF Send, FindStaleTemplateSent, SendStep, Accept, NeverSend, StampTemplateSent,
       StampLost, GrowOld, EnqueueReminder, SetMappingStatus, orderVars, mappingVars
  <2>2. ASSUME NEW o \in Orders, Clock(o) \/ Outside(o)
        PROVE  \A q \in Orders : q \in aged' => q \in aged \/ Holders(q) = {}
    BY <2>2 DEF Clock, ClaimGoesStale, Outside, Environment, CancelCompletes, CancelJobFails,
       StaffCancels, Dispatch, Reingest, mappingVars, Holders
  <2>3. CASE UNCHANGED vars BY <2>3 DEF vars, orderVars, mappingVars
  <2> QED BY <2>1, <2>2, <2>3
<1> QED BY <1>1, <1>2, AccountUntouched DEF tapVars, runVars

-----------------------------------------------------------------------------
(* The job's own steps *)

LEMMA OwedByClaim ==
  ASSUME TypeOK, AtHand, NoticesOwed, NEW r \in Runs, ClaimAwaiting(r), UNCHANGED tapVars
  PROVE  NoticesOwed'
<1>1. /\ hold' = [hold EXCEPT ![r] = Awaiting] /\ runPc' = [runPc EXCEPT ![r] = "loop"]
      /\ runPc[r] = "idle" /\ hold[r] = {} /\ aged' = aged \ Awaiting
      /\ UNCHANGED <<notified, current, requested, tapPc>>
      /\ \A o \in Awaiting : status'[o] = "cancel_reconciling"
      /\ \A o \in Orders \ Awaiting : status'[o] = status[o]
  BY DEF ClaimAwaiting, NoticesOwed, tapVars, Awaiting
<1>2. Awaiting \subseteq Orders BY DEF Awaiting
<1>3. ASSUME NEW o \in Awaiting
      PROVE  (Debt(o) <= Cardinality(Requests(o)))'
  <2>1. /\ IsFiniteSet(Holders(o)) /\ Cardinality(Holders(o)) \in Nat
        /\ Cardinality(Requests(o)) \in Nat /\ notified[o] \in Nat
    BY <1>2, FiniteParts DEF Holders, Requests, TypeOK, TypeOKTaps, TypeOKRuns
  <2>2. r \notin Holders(o) /\ Holders(o)' = Holders(o) \cup {r}
    BY <1>1, <1>3 DEF Holders, TypeOK, TypeOKRuns
  <2>3. Cardinality(Holders(o)') = Cardinality(Holders(o)) + 1
    BY <2>1, <2>2, FS_AddElement
  <2>4. Waits(o) BY <1>2, <1>3 DEF Awaiting, Waits, NoticesOwed
  <2>5. ~Waits(o)' BY <1>1, <1>3, <2>2 DEF Waits, Closed, TypeOK, TypeOKRuns
  <2>6. Requests(o)' = Requests(o) BY <1>1 DEF Requests
  <2>7. Debt(o) <= Cardinality(Requests(o)) BY <1>2 DEF NoticesOwed
  <2> QED BY <1>1, <2>1, <2>3, <2>4, <2>5, <2>6, <2>7 DEF Debt
<1>4. ASSUME NEW o \in Orders \ Awaiting
      PROVE  /\ Holders(o)' = Holders(o)
             /\ (Debt(o) <= Cardinality(Requests(o)))'
  <2>1. Holders(o)' = Holders(o) BY <1>1, <1>4 DEF Holders, TypeOK, TypeOKRuns
  <2>2. Waits(o)' => Waits(o)
    BY <1>1, <1>4, <2>1 DEF Waits, Closed, Holders, TypeOK, TypeOKRuns
  <2> QED BY <1>1, <2>1, <2>2, QuietAccount
<1>5. Accounts' BY <1>3, <1>4 DEF Accounts
<1>6. AgedAreFree' BY <1>1, <1>4 DEF AgedAreFree, NoticesOwed
<1>7. RequestedOnce' BY <1>1 DEF RequestedOnce, NoticesOwed, LateStages
<1>8. IdleHoldNone' BY <1>1 DEF IdleHoldNone, NoticesOwed, TypeOK, TypeOKRuns
<1> QED BY <1>5, <1>6, <1>7, <1>8, NoticesOwedParts

\* The steps within one order's turn leave every claim where it is.
LEMMA OwedWithinTurn ==
  ASSUME TypeOK, AtHand, NoticesOwed, NEW r \in Runs, UNCHANGED tapVars,
         \/ \E o \in Orders : FetchOrder(r, o)
         \/ TagCancelled(r) \/ SetCancelled(r) \/ RecordCancelled(r)
  PROVE  NoticesOwed'
<1>1. /\ UNCHANGED <<hold, notified>> /\ aged' \subseteq aged
      /\ \A o \in Orders : status'[o] \in {status[o], "cancelled"}
      /\ \A s \in Runs \ {r} : runPc'[s] = runPc[s] /\ current'[s] = current[s]
      /\ runPc[r] # "idle" /\ runPc'[r] # "idle"
  BY DEF FetchOrder, TagCancelled, SetCancelled, RecordCancelled, SetMappingStatus, Moves,
     mappingVars, TypeOK, TypeOKOrder, TypeOKRuns
<1>2. \A o \in Orders : Holders(o)' = Holders(o) BY <1>1 DEF Holders
<1>3. ASSUME NEW o \in Orders, status'[o] = "cancel_reconciling"
      PROVE  Closed(r, o)' => Closed(r, o)
  BY <1>3 DEF FetchOrder, TagCancelled, SetCancelled, RecordCancelled, SetMappingStatus, Moves,
     mappingVars, Closed, TypeOK, TypeOKOrder, TypeOKRuns
<1>4. ASSUME NEW o \in Orders, Waits(o)' PROVE Waits(o)
  <2>1. CASE status'[o] = "cancel_requested" BY <1>1, <2>1 DEF Waits
  <2>2. CASE status'[o] = "cancel_reconciling"
    <3>1. status[o] = "cancel_reconciling" BY <1>1, <2>2
    <3>2. ASSUME NEW s \in Holders(o) PROVE Closed(s, o)
      <4>1. Closed(s, o)' BY <1>2, <1>4, <2>2, <3>2 DEF Waits
      <4>2. CASE s = r BY <1>3, <2>2, <4>1, <4>2
      <4>3. CASE s # r BY <1>1, <3>2, <4>1, <4>3 DEF Closed, Holders
      <4> QED BY <4>2, <4>3
    <3> QED BY <3>1, <3>2 DEF Waits
  <2> QED BY <1>4, <2>1, <2>2 DEF Waits
<1>5. Accounts' BY <1>1, <1>2, <1>4, QuietAccount DEF Accounts, tapVars
<1>6. AgedAreFree' BY <1>1, <1>2 DEF AgedAreFree, NoticesOwed
<1>7. RequestedOnce' BY DEF RequestedOnce, NoticesOwed, LateStages, tapVars
<1>8. IdleHoldNone' BY <1>1 DEF IdleHoldNone, NoticesOwed
<1> QED BY <1>5, <1>6, <1>7, <1>8, NoticesOwedParts

\* A turn ends: the run lets go of its order q, and of no other.
LEMMA TurnEnds ==
  ASSUME TypeOK, AtHand, NoticesOwed, NEW r \in Runs, runPc[r] \notin {"idle", "loop"},
         NextOrder(r), NEW q, q = current[r]
  PROVE  /\ q \in Orders /\ r \in Holders(q) /\ Holders(q)' = Holders(q) \ {r}
         /\ \A o \in Orders \ {q} : Holders(o)' = Holders(o)
         /\ \A o \in Orders, s \in Runs \ {r} : Closed(s, o)' <=> Closed(s, o)
         /\ \A o \in Orders : ~Closed(r, o)'
         /\ IdleHoldNone'
<1> USE DEF NextOrder, AtHand, TypeOK, TypeOKRuns
<1>1. q \in Orders /\ r \in Holders(q) BY DEF Holders
<1>2. \A s \in Runs \ {r} : hold'[s] = hold[s] /\ runPc'[s] = runPc[s] /\ current'[s] = current[s]
  OBVIOUS
<1>3. /\ hold'[r] = hold[r] \ {q} /\ current'[r] = NoOrder
      /\ runPc'[r] = "idle" => hold'[r] = {}
  OBVIOUS
<1>4. Holders(q)' = Holders(q) \ {r} BY <1>2, <1>3 DEF Holders
<1>5. \A o \in Orders \ {q} : Holders(o)' = Holders(o)
  BY <1>2, <1>3 DEF Holders
<1>6. \A o \in Orders, s \in Runs \ {r} : Closed(s, o)' <=> Closed(s, o)
  BY <1>2 DEF Closed
<1>7. \A o \in Orders : ~Closed(r, o)'
  BY <1>3, ReconcileAssumption DEF Closed, ReconcileAssumption
<1>8. IdleHoldNone' BY <1>2, <1>3 DEF IdleHoldNone, NoticesOwed
<1> QED BY <1>1, <1>4, <1>5, <1>6, <1>7, <1>8

LEMMA OwedByNotice ==
  ASSUME TypeOK, AtHand, NoticesOwed, NEW r \in Runs, NotifyCancelled(r), UNCHANGED tapVars
  PROVE  NoticesOwed'
<1> DEFINE q == current[r]
<1>1. /\ runPc[r] = "notifying" /\ NextOrder(r) /\ UNCHANGED <<status, aged>>
      /\ notified' \in {notified, [notified EXCEPT ![q] = @ + 1]}
  BY DEF NotifyCancelled, orderVars, mappingVars
<1>2. PICK k : k = current[r] OBVIOUS
<1>3. /\ k \in Orders /\ r \in Holders(k) /\ Holders(k)' = Holders(k) \ {r}
      /\ \A o \in Orders \ {k} : Holders(o)' = Holders(o)
      /\ \A o \in Orders, s \in Runs \ {r} : Closed(s, o)' <=> Closed(s, o)
      /\ \A o \in Orders : ~Closed(r, o)'
      /\ IdleHoldNone'
  BY <1>1, <1>2, TurnEnds
<1>4. Closed(r, k) /\ \A o \in Orders \ {k} : ~Closed(r, o)
  BY <1>1, <1>2 DEF Closed
<1>5. \A o \in Orders : Waits(o)' => Waits(o)
  <2> SUFFICES ASSUME NEW o \in Orders, Waits(o)', status[o] = "cancel_reconciling",
                      NEW s \in Holders(o)
               PROVE  Closed(s, o)
    BY <1>1 DEF Waits
  <2>1. \A u \in Holders(o)' : Closed(u, o)' BY <1>1 DEF Waits
  <2>2. CASE o = k /\ s = r BY <1>4, <2>2
  <2>3. CASE s # r
    <3>1. s \in Holders(o)' BY <1>3, <2>3
    <3> QED BY <1>3, <2>1, <2>3, <3>1 DEF Holders
  <2>4. CASE o # k /\ s = r
    <3>1. s \in Holders(o)' BY <1>3, <2>4
    <3> QED BY <1>3, <2>1, <2>4, <3>1
  <2> QED BY <2>2, <2>3, <2>4
<1>6. Accounts'
  <2>1. notified'[k] \in {notified[k], notified[k] + 1}
    BY <1>1, <1>2, <1>3 DEF TypeOK, TypeOKRuns
  <2>2. (Debt(k) <= Cardinality(Requests(k)))'
    BY <1>3, <1>5, <2>1, NotifiedAccount DEF tapVars
  <2>3. ASSUME NEW o \in Orders \ {k} PROVE (Debt(o) <= Cardinality(Requests(o)))'
    <3>1. notified'[o] = notified[o] BY <1>1, <1>2, <2>3 DEF TypeOK, TypeOKRuns
    <3> QED BY <1>3, <1>5, <3>1, QuietAccount DEF tapVars
  <2> QED BY <2>2, <2>3 DEF Accounts
<1>7. AgedAreFree' BY <1>1, <1>3 DEF AgedAreFree, NoticesOwed
<1>8. RequestedOnce' BY DEF RequestedOnce, NoticesOwed, LateStages, tapVars
<1> QED BY <1>3, <1>6, <1>7, <1>8, NoticesOwedParts

LEMMA OwedByRelease ==
  ASSUME TypeOK, AtHand, NoticesOwed, NEW r \in Runs, ReleaseClaim(r), UNCHANGED tapVars
  PROVE  NoticesOwed'
<1>1. /\ runPc[r] = "releasing" /\ NextOrder(r) /\ UNCHANGED notified /\ aged' \subseteq aged
      /\ \A o \in Orders \ {current[r]} : status'[o] = status[o]
      /\ \A o \in Orders : status'[o] \in {status[o], "cancel_requested"}
  BY DEF ReleaseClaim, SetMappingStatus, mappingVars, TypeOK, TypeOKOrder
<1>2. PICK k : k = current[r] OBVIOUS
<1>3. /\ k \in Orders /\ r \in Holders(k) /\ Holders(k)' = Holders(k) \ {r}
      /\ \A o \in Orders \ {k} : Holders(o)' = Holders(o)
      /\ \A o \in Orders, s \in Runs \ {r} : Closed(s, o)' <=> Closed(s, o)
      /\ \A o \in Orders : ~Closed(r, o)'
      /\ IdleHoldNone'
  BY <1>1, <1>2, TurnEnds
<1>4. (Debt(k) <= Cardinality(Requests(k)))'
  BY <1>1, <1>3, DroppedAccount DEF tapVars
<1>5. ASSUME NEW o \in Orders \ {k} PROVE (Debt(o) <= Cardinality(Requests(o)))'
  <2>1. Waits(o)' => Waits(o)
    <3> SUFFICES ASSUME Waits(o)', status[o] = "cancel_reconciling", NEW s \in Holders(o)
                 PROVE  Closed(s, o)
      BY <1>1, <1>2 DEF Waits
    <3>1. s \in Holders(o)' /\ Closed(s, o)' BY <1>1, <1>2, <1>3 DEF Waits
    <3> QED BY <1>3, <3>1 DEF Holders
  <2> QED BY <1>1, <1>3, <2>1, QuietAccount DEF tapVars
<1>6. Accounts' BY <1>4, <1>5 DEF Accounts
<1>7. AgedAreFree' BY <1>1, <1>3 DEF AgedAreFree, NoticesOwed
<1>8. RequestedOnce' BY DEF RequestedOnce, NoticesOwed, LateStages, tapVars
<1> QED BY <1>3, <1>6, <1>7, <1>8, NoticesOwedParts

LEMMA OwedByCutOff ==
  ASSUME TypeOK, AtHand, NoticesOwed, NEW r \in Runs, CutOffRun(r), UNCHANGED tapVars
  PROVE  NoticesOwed'
<1>1. /\ UNCHANGED <<notified, status, aged>>
      /\ hold' = [hold EXCEPT ![r] = {}] /\ runPc' = [runPc EXCEPT ![r] = "idle"]
      /\ current' = [current EXCEPT ![r] = NoOrder]
  BY DEF CutOffRun, mappingVars
<1>2. \A o \in Orders : Holders(o)' = Holders(o) \ {r}
  BY <1>1 DEF Holders, TypeOK, TypeOKRuns
<1>3. ASSUME NEW o \in Orders PROVE (Debt(o) <= Cardinality(Requests(o)))'
  <2>1. CASE r \in Holders(o) BY <1>1, <1>2, <2>1, DroppedAccount DEF tapVars
  <2>2. CASE r \notin Holders(o)
    <3>1. Holders(o)' = Holders(o) BY <1>2, <2>2
    <3>2. \A s \in Holders(o) : Closed(s, o)' <=> Closed(s, o)
      BY <1>1, <2>2 DEF Closed, Holders, TypeOK, TypeOKRuns
    <3>3. Waits(o)' => Waits(o) BY <1>1, <3>1, <3>2 DEF Waits
    <3> QED BY <1>1, <3>1, <3>3, QuietAccount DEF tapVars
  <2> QED BY <2>1, <2>2
<1>4. Accounts' BY <1>3 DEF Accounts
<1>5. AgedAreFree' BY <1>1, <1>2 DEF AgedAreFree, NoticesOwed
<1>6. RequestedOnce' BY DEF RequestedOnce, NoticesOwed, LateStages, tapVars
<1>7. IdleHoldNone' BY <1>1 DEF IdleHoldNone, NoticesOwed, TypeOK, TypeOKRuns
<1> QED BY <1>4, <1>5, <1>6, <1>7, NoticesOwedParts

LEMMA OwedStep ==
  ASSUME TypeOK, AtHand, NoticesOwed, [Next]_vars
  PROVE  NoticesOwed'
<1>1. ASSUME NEW t \in Taps, Tap(t) PROVE NoticesOwed' BY <1>1, OwedByTap
<1>2. ASSUME NEW r \in Runs, Job(r) PROVE NoticesOwed'
  <2>1. UNCHANGED tapVars BY <1>2 DEF Job
  <2>2. CASE ClaimAwaiting(r) BY <2>1, <2>2, OwedByClaim
  <2>3. CASE RunStep(r)
    BY <2>1, <2>3, OwedWithinTurn, OwedByNotice, OwedByRelease DEF RunStep
  <2>4. CASE CutOffRun(r) BY <2>1, <2>4, OwedByCutOff
  <2> QED BY <1>2, <2>2, <2>3, <2>4 DEF Job
<1>3. CASE Send \/ UNCHANGED vars \/ \E o \in Orders : Clock(o) \/ Outside(o)
  BY <1>3, OwedByRest
<1> QED BY <1>1, <1>2, <1>3 DEF Next

LEMMA OwedInit == Init => NoticesOwed
<1> SUFFICES ASSUME Init PROVE NoticesOwed OBVIOUS
<1> USE DEF Init, InitOrder, InitTaps, InitRuns
<1>1. ASSUME NEW o \in Orders PROVE Debt(o) <= Cardinality(Requests(o))
  <2>1. Holders(o) = {} /\ Requests(o) = {} /\ ~Waits(o) /\ notified[o] = 0
    BY DEF Holders, Requests, Waits
  <2>2. Cardinality({}) = 0 BY FS_EmptySet
  <2> QED BY <2>1, <2>2 DEF Debt
<1>2. AgedAreFree /\ RequestedOnce /\ IdleHoldNone
  BY DEF AgedAreFree, RequestedOnce, IdleHoldNone
<1> QED BY <1>1, <1>2, NoticesOwedParts DEF Accounts

\* However often the job crashes, is reclaimed, releases or overlaps itself and
\* the taps, the customer gets at most one final notice per cancellation a tap
\* wrote down: the crash between the tag and the status, which reconcile.py's
\* residual-risk note holds for a risk of a duplicate, repeats the tag alone.
THEOREM NoticesAreAccounted == Spec => []NoticesAccounted
<1> DEFINE Inv == TypeOK /\ AtHand /\ NoticesOwed
<1>1. Init => Inv BY TypeInit, OwedInit
<1>2. Inv /\ [Next]_vars => Inv' BY TypeStep, OwedStep
<1>3. Inv => NoticesAccounted
  <2> SUFFICES ASSUME Inv, NEW o \in Orders PROVE notified[o] <= Cardinality(Requests(o))
    BY DEF NoticesAccounted, Requests
  <2>1. /\ Cardinality(Holders(o)) \in Nat /\ Cardinality(Requests(o)) \in Nat
        /\ notified[o] \in Nat
    BY FiniteParts DEF Holders, Requests, TypeOK, TypeOKTaps, TypeOKRuns
  <2>2. Debt(o) <= Cardinality(Requests(o)) BY DEF NoticesOwed
  <2> QED BY <2>1, <2>2 DEF Debt
<1> QED BY <1>1, <1>2, <1>3, PTL DEF Spec
-----------------------------------------------------------------------------
(* AuditTruthful *)

\* A tap that does not move keeps what its rows say true.
LEMMA ProgressKept ==
  ASSUME TypeOK, Monotone, NEW u \in Taps, Progress(u),
         tapPc'[u] = tapPc[u], TapRows(u)' = TapRows(u),
         u \in issued' <=> u \in issued, u \in dropped' <=> u \in dropped
  PROVE  Progress(u)'
<1>1. \A row \in TapRows(u) : row.order \in Orders
  BY DEF TapRows, TypeOK, TypeOKOrder, AuditRows
<1>2. \A row \in TapRows(u) : HasAnyTag(row.order, "confirmed") => HasAnyTag(row.order, "confirmed")'
  BY <1>1 DEF HasAnyTag, Monotone
<1>3. u \in granted => u \in granted' BY DEF Monotone
<1> QED BY <1>2, <1>3 DEF Progress, ConfirmRow

LEMMA RowAdded ==
  ASSUME NEW t \in Taps, NEW action, NEW result, Record(t, action, result)
  PROVE  /\ TapRows(t)' = TapRows(t) \cup
              {[order |-> TapOrder[t], source |-> t, action |-> action, result |-> result]}
         /\ \A u \in Taps \ {t} : TapRows(u)' = TapRows(u)
BY DEF Record, TapRows

\* What each action leaves of the other taps.
LEMMA OthersUntouched ==
  ASSUME TypeOK, NEW t \in Taps, Tap(t)
  PROVE  \A u \in Taps \ {t} :
           /\ tapPc'[u] = tapPc[u] /\ TapRows(u)' = TapRows(u)
           /\ (u \in issued' <=> u \in issued) /\ (u \in dropped' <=> u \in dropped)
<1>1. \A u \in Taps \ {t} : tapPc'[u] = tapPc[u]
                            /\ (u \in issued' <=> u \in issued) /\ (u \in dropped' <=> u \in dropped)
  BY DEF Tap, TapStep, StartTap, ResolveNothing, HandleConfirm, HandleCancelRequest,
     HandleCancelConfirm, TagConfirmed, RecordConfirm, SetConfirmed, TagCancelRequested,
     SetCancelRequested, CancelOrder, RecordCancelRequested, RecordError, CutOffTap,
     Refused, Reaches, Finish, TypeOK, TypeOKTaps
<1>2. \A u \in Taps \ {t} : TapRows(u)' = TapRows(u)
  <2>1. CASE RecordConfirm(t) \/ RecordCancelRequested(t) \/ RecordError(t)
    BY <2>1, RowAdded DEF RecordConfirm, RecordCancelRequested, RecordError
  <2>2. CASE ~(RecordConfirm(t) \/ RecordCancelRequested(t) \/ RecordError(t))
    <3>1. audit' = audit
      BY <2>2 DEF Tap, TapStep, StartTap, ResolveNothing, HandleConfirm, HandleCancelRequest,
         HandleCancelConfirm, TagConfirmed, SetConfirmed, TagCancelRequested,
         SetCancelRequested, CancelOrder, CutOffTap, orderVars
    <3> QED BY <3>1 DEF TapRows
  <2> QED BY <2>1, <2>2
<1> QED BY <1>1, <1>2

LEMMA ProgressOfTap ==
  ASSUME TypeOK, AboutToWrite, Monotone, RowsByProgress, NEW t \in Taps, Tap(t)
  PROVE  Progress(t)'
<1> USE DEF Progress, TypeOK, TypeOKTaps
<1>0. /\ Progress(t) /\ TapOrder[t] \in Orders
      /\ \A row \in TapRows(t) : row.order \in Orders
  BY OrderActionsAssumption
  DEF RowsByProgress, OrderActionsAssumption, TapRows, TypeOKOrder, AuditRows
<1>1. ASSUME audit' = audit PROVE TapRows(t)' = TapRows(t) BY <1>1 DEF TapRows
<1>2. CASE StartTap(t)
  BY <1>0, <1>1, <1>2 DEF StartTap, Reaches, orderVars
<1>3. CASE ResolveNothing(t) \/ HandleConfirm(t) \/ HandleCancelRequest(t) \/ HandleCancelConfirm(t)
  BY <1>0, <1>1, <1>3 DEF ResolveNothing, HandleConfirm, HandleCancelRequest, HandleCancelConfirm,
     Refused, Reaches, Finish, orderVars
<1>4. CASE TagConfirmed(t)
  BY <1>0, <1>1, <1>4 DEF TagConfirmed, Reaches
<1>5. CASE RecordConfirm(t)
  <2>1. TapRows(t)' = {ConfirmRow(t)}
    BY <1>0, <1>5, RowAdded DEF RecordConfirm, ConfirmRow
  <2>2. tapPc'[t] = "confirming" /\ t \notin issued'
    BY <1>0, <1>5 DEF RecordConfirm, Reaches
  <2>3. HasAnyTag(TapOrder[t], "confirmed")'
    BY <1>0, <1>5 DEF RecordConfirm, AboutToWrite, HasAnyTag, Monotone
  <2> QED BY <2>1, <2>2, <2>3 DEF ConfirmRow
<1>6. CASE SetConfirmed(t)
  <2>1. TapRows(t)' = {ConfirmRow(t)}
    BY <1>0, <1>1, <1>6 DEF SetConfirmed
  <2>2. tapPc'[t] = "done" /\ t \notin issued'
    BY <1>0, <1>6 DEF SetConfirmed, Finish
  <2>3. HasAnyTag(TapOrder[t], "confirmed")'
    BY <1>0, <1>6 DEF SetConfirmed, AboutToWrite, HasAnyTag, Monotone
  <2> QED BY <2>1, <2>2, <2>3 DEF ConfirmRow
<1>7. CASE TagCancelRequested(t)
  BY <1>0, <1>1, <1>7 DEF TagCancelRequested, Reaches
<1>8. CASE SetCancelRequested(t)
  BY <1>0, <1>1, <1>8 DEF SetCancelRequested, Reaches
<1>9. CASE CancelOrder(t)
  BY <1>0, <1>1, <1>9 DEF CancelOrder, Grant, Reaches
<1>10. CASE RecordCancelRequested(t)
  <2>1. TapRows(t)' = {[order |-> TapOrder[t], source |-> t,
                        action |-> "cancel_requested", result |-> "ok"]}
    BY <1>0, <1>10, RowAdded DEF RecordCancelRequested
  <2>2. tapPc'[t] = "done" /\ t \in granted'
    BY <1>0, <1>10 DEF RecordCancelRequested, Finish
  <2> QED BY <2>1, <2>2
<1>11. CASE RecordError(t)
  <2>1. PICK action : Record(t, action, "error") BY <1>11 DEF RecordError
  <2>2. TapRows(t)' = {[order |-> TapOrder[t], source |-> t,
                        action |-> action, result |-> "error"]}
    BY <1>0, <1>11, <2>1, RowAdded DEF RecordError
  <2>3. tapPc'[t] = "done" BY <1>11 DEF RecordError, Finish
  <2> QED BY <2>2, <2>3
<1>12. CASE CutOffTap(t)
  <2>1. TapRows(t)' = TapRows(t) /\ tapPc'[t] = "done" /\ t \in dropped'
    BY <1>1, <1>12 DEF CutOffTap
  <2>2. \A row \in TapRows(t) :
          HasAnyTag(row.order, "confirmed") => HasAnyTag(row.order, "confirmed")'
    BY <1>0 DEF HasAnyTag, Monotone
  <2>3. t \in granted => t \in granted' BY DEF Monotone
  <2> QED BY <1>0, <2>1, <2>2, <2>3
<1> QED BY <1>2, <1>3, <1>4, <1>5, <1>6, <1>7, <1>8, <1>9, <1>10, <1>11, <1>12
    DEF Tap, TapStep

LEMMA RowsStep ==
  ASSUME TypeOK, AtHand, AboutToWrite, RowsByProgress, [Next]_vars
  PROVE  RowsByProgress'
<1>1. Monotone BY NothingUndone
<1>2. ASSUME NEW t \in Taps, Tap(t) PROVE RowsByProgress'
  <2>1. Progress(t)' BY <1>1, <1>2, ProgressOfTap
  <2>2. ASSUME NEW u \in Taps \ {t} PROVE Progress(u)'
    BY <1>1, <1>2, OthersUntouched, ProgressKept DEF RowsByProgress
  <2> QED BY <2>1, <2>2 DEF RowsByProgress
<1>3. ASSUME UNCHANGED tapVars, \A u \in Taps : TapRows(u)' = TapRows(u)
      PROVE  RowsByProgress'
  BY <1>1, <1>3, ProgressKept DEF RowsByProgress, tapVars
<1>4. ASSUME NEW r \in Runs, Job(r) PROVE RowsByProgress'
  <2>1. UNCHANGED tapVars BY <1>4 DEF Job
  <2>2. \A u \in Taps : TapRows(u)' = TapRows(u)
    <3>1. CASE RecordCancelled(r)
      BY <3>1, ShopifyOrderAssumption DEF RecordCancelled, TapRows, ShopifyOrderAssumption
    <3>2. CASE ~RecordCancelled(r)
      <4>1. audit' = audit
        BY <1>4, <3>2 DEF Job, RunStep, ClaimAwaiting, FetchOrder, TagCancelled, SetCancelled,
           NotifyCancelled, ReleaseClaim, CutOffRun, orderVars
      <4> QED BY <4>1 DEF TapRows
    <3> QED BY <3>1, <3>2
  <2> QED BY <1>3, <2>1, <2>2
<1>5. CASE Send \/ UNCHANGED vars \/ \E o \in Orders : Clock(o) \/ Outside(o)
  <2>1. UNCHANGED tapVars /\ audit' = audit BY <1>5, RestIsHarmless
  <2>2. \A u \in Taps : TapRows(u)' = TapRows(u) BY <2>1 DEF TapRows
  <2> QED BY <1>3, <2>1, <2>2
<1> QED BY <1>2, <1>4, <1>5 DEF Next

LEMMA RowsInit == Init => RowsByProgress
BY DEF Init, InitOrder, InitTaps, RowsByProgress, Progress, TapRows

\* The audit trail of the taps: never two rows for one tap, no 'ok' row for
\* what Shopify did not take, and a row for every orderCancel call of a tap
\* that was not cut off.
THEOREM AuditIsTruthful == Spec => []AuditTruthful
<1> DEFINE Inv == TypeOK /\ AtHand /\ StatusBacked /\ AboutToWrite /\ RowsByProgress
<1>1. Init => Inv BY TypeInit, BackedInit, RowsInit
<1>2. Inv /\ [Next]_vars => Inv' BY TypeStep, BackedStep, RowsStep
<1>3. Inv => AuditTruthful
  <2> SUFFICES ASSUME Inv, NEW t \in Taps PROVE Cardinality(TapRows(t)) <= 1
    BY DEF AuditTruthful, RowsByProgress, Progress
  <2>1. \A row1, row2 \in TapRows(t) : row1 = row2 BY DEF RowsByProgress, Progress
  <2>2. CASE TapRows(t) = {} BY <2>2, FS_EmptySet
  <2>3. CASE TapRows(t) # {}
    <3>1. PICK row \in TapRows(t) : TRUE BY <2>3
    <3>2. TapRows(t) = {row} BY <2>1, <3>1
    <3> QED BY <3>2, FS_Singleton
  <2> QED BY <2>2, <2>3
<1> QED BY <1>1, <1>2, <1>3, PTL DEF Spec
=============================================================================
