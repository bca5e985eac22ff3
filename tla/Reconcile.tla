------------------------------ MODULE Reconcile ------------------------------
(***************************************************************************)
(* run_reconcile_cancels: a run claims the orders awaiting their final     *)
(* cancellation in one statement, then fetches, tags, closes, audits and   *)
(* notifies them one by one, or releases them.  runPc names the call a run *)
(* is about to make for the order it is at; hold is the claimed orders it  *)
(* is not done with.  A definition named Broken... is its neighbour with a *)
(* bug, to show that a property would catch it; no action uses it.         *)
(***************************************************************************)
EXTENDS ShopifyOrder

CONSTANTS
  Runs,      \* invocations of the job, which may overlap
  NoOrder

ASSUME ReconcileAssumption == IsFiniteSet(Runs) /\ NoOrder \notin Orders

VARIABLES
  runPc, hold, current,
  notified   \* an observer: cod_cancel messages sent for the order

runVars == <<runPc, hold, current, notified>>

RunPCs == {"idle", "loop", "tagging", "closing", "recording", "notifying",
           "releasing"}

InitRuns ==
  /\ runPc = [r \in Runs |-> "idle"]
  /\ hold = [r \in Runs |-> {}]
  /\ current = [r \in Runs |-> NoOrder]
  /\ notified = [o \in Orders |-> 0]

Moves(r, point) ==
  /\ runPc' = [runPc EXCEPT ![r] = point]
  /\ UNCHANGED <<hold, current>>

\* The loop goes on to another order, or the run returns.
NextOrder(r) ==
  LET rest == hold[r] \ {current[r]} IN
  /\ hold' = [hold EXCEPT ![r] = rest]
  /\ current' = [current EXCEPT ![r] = NoOrder]
  /\ runPc' = [runPc EXCEPT ![r] = IF rest = {} THEN "idle" ELSE "loop"]

-----------------------------------------------------------------------------
\* Broken: abandoned orders are not told from orders in a run's hands.
BrokenAwaiting == {o \in Orders : status[o] \in {"cancel_requested", "cancel_reconciling"}}

\* Broken: abandoned orders are never reclaimed.
BrokenReclaim == {o \in Orders : status[o] = "cancel_requested"}

Awaiting == {o \in Orders : \/ status[o] = "cancel_requested"
                            \/ status[o] = "cancel_reconciling" /\ o \in aged}

\* FOR UPDATE SKIP LOCKED: one statement selects and flips the orders.  The
\* limit of 50 is above any number of orders modelled.
ClaimAwaiting(r) ==
  /\ runPc[r] = "idle" /\ Awaiting # {}
  /\ hold' = [hold EXCEPT ![r] = Awaiting]
  /\ status' = [o \in Orders |-> IF o \in Awaiting THEN "cancel_reconciling" ELSE status[o]]
  /\ aged' = aged \ Awaiting
  /\ runPc' = [runPc EXCEPT ![r] = "loop"]
  /\ UNCHANGED <<shopifyVars, audit, faults, current, notified>>

\* Broken: the order is tagged without asking whether Shopify cancelled it.
BrokenFetchOrder(r, o) ==
  /\ runPc[r] = "loop" /\ o \in hold[r]
  /\ current' = [current EXCEPT ![r] = o]
  /\ runPc' = [runPc EXCEPT ![r] = "tagging"]
  /\ UNCHANGED <<shopifyVars, mappingVars, audit, faults, hold, notified>>

\* A ShopifyError, an order that is gone or one without a phone is released
\* like one Shopify has not cancelled yet.
FetchOrder(r, o) ==
  /\ runPc[r] = "loop" /\ o \in hold[r]
  /\ current' = [current EXCEPT ![r] = o]
  /\ \/ IsCancelled(o) /\ runPc' = [runPc EXCEPT ![r] = "tagging"] /\ UNCHANGED faults
     \/ ~IsCancelled(o) /\ runPc' = [runPc EXCEPT ![r] = "releasing"] /\ UNCHANGED faults
     \/ Fault /\ runPc' = [runPc EXCEPT ![r] = "releasing"]
  /\ UNCHANGED <<shopifyVars, mappingVars, audit, hold, notified>>

TagCancelled(r) ==
  /\ runPc[r] = "tagging"
  /\ \/ Tagged(current[r], "cancelled") /\ Moves(r, "closing") /\ UNCHANGED faults
     \/ /\ Fault /\ Moves(r, "releasing")
        /\ Tagged(current[r], "cancelled") \/ UNCHANGED tags
  /\ UNCHANGED <<cod, cancel, dispatched, mappingVars, audit, notified>>

SetCancelled(r) ==
  /\ runPc[r] = "closing"
  /\ SetMappingStatus(current[r], "cancelled")
  /\ Moves(r, "recording")
  /\ UNCHANGED <<shopifyVars, audit, faults, notified>>

RecordCancelled(r) ==
  /\ runPc[r] = "recording"
  /\ audit' = audit \cup {[order |-> current[r], source |-> System,
                           action |-> "cancelled", result |-> "ok"]}
  /\ Moves(r, "notifying")
  /\ UNCHANGED <<shopifyVars, mappingVars, faults, notified>>

\* Best effort: the kill switch, an unusable phone, a missing configuration or
\* a failed send skips it, and nothing tries again.
NotifyCancelled(r) ==
  /\ runPc[r] = "notifying"
  /\ \/ notified' = [notified EXCEPT ![current[r]] = @ + 1]
     \/ UNCHANGED notified
  /\ NextOrder(r)
  /\ UNCHANGED orderVars

\* A store error here is swallowed: the order stays claimed until it is stale.
ReleaseClaim(r) ==
  /\ runPc[r] = "releasing"
  /\ \/ SetMappingStatus(current[r], "cancel_requested") /\ UNCHANGED faults
     \/ Fault /\ UNCHANGED mappingVars
  /\ NextOrder(r)
  /\ UNCHANGED <<shopifyVars, audit, notified>>

\* The invocation is killed, or any error but a ShopifyError leaves the loop:
\* every order it still held stays 'cancel_reconciling'.
CutOffRun(r) ==
  /\ runPc[r] # "idle"
  /\ Fault
  /\ runPc' = [runPc EXCEPT ![r] = "idle"]
  /\ hold' = [hold EXCEPT ![r] = {}]
  /\ current' = [current EXCEPT ![r] = NoOrder]
  /\ UNCHANGED <<shopifyVars, mappingVars, audit, notified>>

\* Ten minutes pass.  No invocation lives that long, so none holds the order.
ClaimGoesStale(o) ==
  /\ status[o] = "cancel_reconciling" /\ o \notin aged
  /\ \A r \in Runs : o \notin hold[r]
  /\ aged' = aged \cup {o}
  /\ UNCHANGED <<shopifyVars, status, audit, faults, runVars>>

RunStep(r) ==
  \/ \E o \in Orders : FetchOrder(r, o)
  \/ TagCancelled(r) \/ SetCancelled(r) \/ RecordCancelled(r)
  \/ NotifyCancelled(r) \/ ReleaseClaim(r)

TypeOKRuns ==
  /\ runPc \in [Runs -> RunPCs]
  /\ hold \in [Runs -> SUBSET Orders]
  /\ current \in [Runs -> Orders \cup {NoOrder}]
  /\ notified \in [Orders -> Nat]
=============================================================================
