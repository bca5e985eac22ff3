---------------------------- MODULE ShopifyOrder ----------------------------
(***************************************************************************)
(* What the order's actors share: the live order at Shopify, which they    *)
(* read and mutate through its API (external; no transaction spans two     *)
(* calls), the status in the order's order_mappings row, and the           *)
(* order_actions audit rows.  OrderActions, Reconcile and Reminders are    *)
(* the actors, OrderLifecycle is their composition.                        *)
(***************************************************************************)
EXTENDS Naturals, FiniteSets

CONSTANTS
  Orders,
  Taps,       \* button taps: one dispatch_button invocation each
  System,     \* the actor of the audit rows no tap wrote
  MaxFaults   \* BOUND: failed calls, cut-off invocations, cancellations by
              \* staff and redelivered webhooks in a behaviour

ASSUME ShopifyOrderAssumption ==
  /\ IsFiniteSet(Taps) /\ System \notin Taps
  /\ MaxFaults \in Nat

VARIABLES
  (* Shopify *)
  cod,        \* the orders whose payment gateway says cash on delivery
  tags, cancel, dispatched,
  (* order_mappings: status, and whether updated_at is long past *)
  status, aged,
  (* order_actions *)
  audit,
  (* an observer *)
  faults

shopifyVars == <<cod, tags, cancel, dispatched>>
mappingVars == <<status, aged>>
orderVars == <<shopifyVars, mappingVars, audit, faults>>

Tags == {"confirmed", "cancel_requested", "cancelled"}
CancelStates == {"no", "pending", "yes"}
MappingStatus == {"pending", "template_sent", "confirmed",
                  "cancel_requested", "cancel_reconciling", "cancelled"}
AuditRows == [order : Orders, source : Taps \cup {System},
              action : {"confirm", "cancel_requested", "cancelled"},
              result : {"ok", "error"}]

\* The order has arrived: its mapping is inserted, nobody has acted on it.
InitOrder ==
  /\ cod \in SUBSET Orders
  /\ tags = [o \in Orders |-> {}]
  /\ cancel = [o \in Orders |-> "no"]
  /\ dispatched = {}
  /\ status = [o \in Orders |-> "pending"]
  /\ aged = {}
  /\ audit = {}
  /\ faults = 0

IsCancelled(o) == cancel[o] = "yes"

HasAnyTag(o, tag) == tag \in tags[o]

Tagged(o, tag) == tags' = [tags EXCEPT ![o] = @ \cup {tag}]

\* One unconditional UPDATE: it asks nothing of the status it overwrites.
SetMappingStatus(o, s) ==
  /\ status' = [status EXCEPT ![o] = s]
  /\ aged' = aged \ {o}

Fault == faults < MaxFaults /\ faults' = faults + 1

-----------------------------------------------------------------------------
(* The environment: Shopify and the shop's staff *)

\* orderCancel only starts a job; some time later the order is cancelled.
CancelCompletes(o) ==
  /\ cancel[o] = "pending"
  /\ cancel' = [cancel EXCEPT ![o] = "yes"]
  /\ UNCHANGED <<cod, tags, dispatched, mappingVars, audit, faults>>

CancelJobFails(o) ==
  /\ cancel[o] = "pending"
  /\ cancel' = [cancel EXCEPT ![o] = "no"]
  /\ Fault
  /\ UNCHANGED <<cod, tags, dispatched, mappingVars, audit>>

StaffCancels(o) ==
  /\ ~IsCancelled(o)
  /\ cancel' = [cancel EXCEPT ![o] = "yes"]
  /\ Fault
  /\ UNCHANGED <<cod, tags, dispatched, mappingVars, audit>>

Dispatch(o) ==
  /\ o \notin dispatched /\ ~IsCancelled(o)
  /\ dispatched' = dispatched \cup {o}
  /\ UNCHANGED <<cod, tags, cancel, mappingVars, audit, faults>>

\* A redelivered orders/create: the upsert's conflict branch leaves status
\* alone and renews updated_at.
Reingest(o) ==
  /\ o \in aged
  /\ aged' = aged \ {o}
  /\ Fault
  /\ UNCHANGED <<shopifyVars, status, audit>>

Environment(o) ==
  \/ CancelCompletes(o)
  \/ CancelJobFails(o)
  \/ StaffCancels(o)
  \/ Dispatch(o)
  \/ Reingest(o)

TypeOKOrder ==
  /\ cod \subseteq Orders
  /\ tags \in [Orders -> SUBSET Tags]
  /\ cancel \in [Orders -> CancelStates]
  /\ dispatched \subseteq Orders
  /\ status \in [Orders -> MappingStatus]
  /\ aged \subseteq Orders
  /\ audit \subseteq AuditRows
  /\ faults \in Nat
=============================================================================
