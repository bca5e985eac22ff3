---------------------------- MODULE OrderActions ----------------------------
(***************************************************************************)
(* dispatch_button: what a customer's Confirm or Cancel tap does.  Each    *)
(* tap is an invocation of its own; its tapPc names the call it is about   *)
(* to make, and between two calls other invocations run.  The order is     *)
(* fetched once, so every decision after that rests on what it was then.   *)
(* The taps that touch no state are left out: an abort, a payload that     *)
(* does not parse.                                                         *)
(*                                                                         *)
(*   new -> resolve -> tagging  -> recording  -> confirming -> done        *)
(*                 `-> marking  -> requesting -> ordering -> ordered -> done *)
(*   tagging, ordering -> failed -> done                                   *)
(*                                                                         *)
(* A definition named Broken... is its neighbour with a bug; no action     *)
(* uses it.  It shows that a property would catch that bug.                *)
(***************************************************************************)
EXTENDS ShopifyOrder

CONSTANTS
  TapOrder,   \* the order in the tap's payload
  TapAction   \* what its payload asks for

ASSUME OrderActionsAssumption ==
  /\ TapOrder \in [Taps -> Orders]
  /\ TapAction \in [Taps -> {"confirm", "cancel", "cancel_confirm"}]

VARIABLES
  tapPc,
  told,       \* the reply the customer got, by its copy key
  asked,      \* orders whose customer was shown the are-you-sure buttons
  (* observers *)
  issued,     \* taps that called orderCancel
  granted,    \* taps whose orderCancel Shopify took
  requested,  \* taps that wrote status cancel_requested
  dropped     \* taps whose invocation was cut off

tapVars == <<tapPc, told, asked, issued, granted, requested, dropped>>

TapPCs == {"new", "resolve", "tagging", "recording", "confirming", "marking",
           "requesting", "ordering", "ordered", "failed", "done"}
Copy == {"none", "not_found", "already_cancelled", "order_confirmed",
         "cancel_not_available_prepaid", "cancel_too_late", "cancel_are_you_sure",
         "cancel_requested", "cancel_failed", "error_fallback"}

InitTaps ==
  /\ tapPc = [t \in Taps |-> "new"]
  /\ told = [t \in Taps |-> "none"]
  /\ asked = {}
  /\ issued = {} /\ granted = {} /\ requested = {}
  /\ dropped = {}

Reaches(t, point) ==
  /\ tapPc' = [tapPc EXCEPT ![t] = point]
  /\ UNCHANGED <<told, dropped>>

Finish(t, copy) ==
  /\ tapPc' = [tapPc EXCEPT ![t] = "done"]
  /\ told' = [told EXCEPT ![t] = copy]
  /\ UNCHANGED dropped

Record(t, action, result) ==
  audit' = audit \cup {[order |-> TapOrder[t], source |-> t,
                        action |-> action, result |-> result]}

-----------------------------------------------------------------------------
\* record_if_new has taken the event, so this is its only delivery; the kill
\* switch or a missing configuration may end it here, without a reply.  The
\* button that asks for the cancellation is on the are-you-sure message.
StartTap(t) ==
  /\ tapPc[t] = "new"
  /\ TapAction[t] = "cancel_confirm" => TapOrder[t] \in asked
  /\ \E point \in {"resolve", "done"} : Reaches(t, point)
  /\ UNCHANGED <<orderVars, asked, issued, granted, requested>>

\* The gid does not resolve to an order of the sender's, or the fetch fails:
\* resolve_by_gid answers None to a ShopifyError too.
ResolveNothing(t) ==
  /\ tapPc[t] = "resolve"
  /\ Finish(t, "not_found")
  /\ UNCHANGED <<orderVars, asked, issued, granted, requested>>

HandleConfirm(t) ==
  LET o == TapOrder[t] IN
  /\ tapPc[t] = "resolve" /\ TapAction[t] = "confirm"
  /\ \/ IsCancelled(o) /\ Finish(t, "already_cancelled")
     \/ ~IsCancelled(o) /\ HasAnyTag(o, "confirmed") /\ Finish(t, "order_confirmed")
     \/ ~IsCancelled(o) /\ ~HasAnyTag(o, "confirmed") /\ Reaches(t, "tagging")
  /\ UNCHANGED <<orderVars, asked, issued, granted, requested>>

\* The gates both cancel handlers apply to the order just fetched.
Refused(t, o) ==
  \/ IsCancelled(o) /\ Finish(t, "already_cancelled")
  \/ ~IsCancelled(o) /\ o \notin cod /\ Finish(t, "cancel_not_available_prepaid")
  \/ ~IsCancelled(o) /\ o \in cod \cap dispatched /\ Finish(t, "cancel_too_late")

Cancellable(o) == ~IsCancelled(o) /\ o \in cod \ dispatched

HandleCancelRequest(t) ==
  LET o == TapOrder[t] IN
  /\ tapPc[t] = "resolve" /\ TapAction[t] = "cancel"
  /\ \/ Refused(t, o) /\ UNCHANGED asked
     \/ Cancellable(o) /\ Finish(t, "cancel_are_you_sure") /\ asked' = asked \cup {o}
  /\ UNCHANGED <<orderVars, issued, granted, requested>>

HandleCancelConfirm(t) ==
  LET o == TapOrder[t] IN
  /\ tapPc[t] = "resolve" /\ TapAction[t] = "cancel_confirm"
  /\ \/ Refused(t, o)
     \/ Cancellable(o) /\ HasAnyTag(o, "cancel_requested") /\ Finish(t, "cancel_requested")
     \/ Cancellable(o) /\ ~HasAnyTag(o, "cancel_requested") /\ Reaches(t, "marking")
  /\ UNCHANGED <<orderVars, asked, issued, granted, requested>>

\* add_tags: applied and answered, or a ShopifyError that leaves it open
\* whether Shopify applied it.
AddTags(o, tag, ok) ==
  IF ok THEN Tagged(o, tag) /\ UNCHANGED faults
        ELSE Fault /\ (Tagged(o, tag) \/ UNCHANGED tags)

\* Broken: the tag is best effort, as it is for a cancellation.
BrokenTagConfirmed(t) ==
  /\ tapPc[t] = "tagging"
  /\ \E ok \in BOOLEAN : AddTags(TapOrder[t], "confirmed", ok)
  /\ Reaches(t, "recording")
  /\ UNCHANGED <<cod, cancel, dispatched, mappingVars, audit,
                 asked, issued, granted, requested>>

TagConfirmed(t) ==
  /\ tapPc[t] = "tagging"
  /\ \E ok \in BOOLEAN :
       /\ AddTags(TapOrder[t], "confirmed", ok)
       /\ Reaches(t, IF ok THEN "recording" ELSE "failed")
  /\ UNCHANGED <<cod, cancel, dispatched, mappingVars, audit,
                 asked, issued, granted, requested>>

RecordConfirm(t) ==
  /\ tapPc[t] = "recording"
  /\ Record(t, "confirm", "ok")
  /\ Reaches(t, "confirming")
  /\ UNCHANGED <<shopifyVars, mappingVars, faults,
                 asked, issued, granted, requested>>

SetConfirmed(t) ==
  /\ tapPc[t] = "confirming"
  /\ SetMappingStatus(TapOrder[t], "confirmed")
  /\ Finish(t, "order_confirmed")
  /\ UNCHANGED <<shopifyVars, audit, faults, asked, issued, granted, requested>>

\* Best effort: the handler goes on whether or not the tag is written.
TagCancelRequested(t) ==
  /\ tapPc[t] = "marking"
  /\ \E ok \in BOOLEAN : AddTags(TapOrder[t], "cancel_requested", ok)
  /\ Reaches(t, "requesting")
  /\ UNCHANGED <<cod, cancel, dispatched, mappingVars, audit,
                 asked, issued, granted, requested>>

SetCancelRequested(t) ==
  /\ tapPc[t] = "requesting"
  /\ SetMappingStatus(TapOrder[t], "cancel_requested")
  /\ requested' = requested \cup {t}
  /\ Reaches(t, "ordering")
  /\ UNCHANGED <<shopifyVars, audit, faults, asked, issued, granted>>

\* Shopify starts the cancellation of an order it has not cancelled yet.
Grant(t) ==
  /\ ~IsCancelled(TapOrder[t])
  /\ cancel' = [cancel EXCEPT ![TapOrder[t]] = "pending"]
  /\ granted' = granted \cup {t}

\* Broken: an error answer passes for a success.
BrokenCancelOrder(t) ==
  /\ tapPc[t] = "ordering"
  /\ issued' = issued \cup {t}
  /\ Reaches(t, "ordered")
  /\ Grant(t) \/ UNCHANGED <<cancel, granted>>
  /\ UNCHANGED <<cod, tags, dispatched, mappingVars, audit, faults, asked, requested>>

\* orderCancel: taken; refused (a GraphQL error); or unanswered, taken or not.
CancelOrder(t) ==
  /\ tapPc[t] = "ordering"
  /\ issued' = issued \cup {t}
  /\ \/ Grant(t) /\ Reaches(t, "ordered") /\ UNCHANGED faults
     \/ /\ Fault /\ Reaches(t, "failed")
        /\ Grant(t) \/ UNCHANGED <<cancel, granted>>
     \/ /\ IsCancelled(TapOrder[t]) \/ TapOrder[t] \in dispatched
        /\ Reaches(t, "failed")
        /\ UNCHANGED <<cancel, granted, faults>>
  /\ UNCHANGED <<cod, tags, dispatched, mappingVars, audit, asked, requested>>

RecordCancelRequested(t) ==
  /\ tapPc[t] = "ordered"
  /\ Record(t, "cancel_requested", "ok")
  /\ Finish(t, "cancel_requested")
  /\ UNCHANGED <<shopifyVars, mappingVars, faults,
                 asked, issued, granted, requested>>

\* Broken: the row names the action of the payload, not the one audited.
BrokenRecordError(t) ==
  /\ tapPc[t] = "failed"
  /\ Record(t, TapAction[t], "error")
  /\ Finish(t, "error_fallback")
  /\ UNCHANGED <<shopifyVars, mappingVars, faults,
                 asked, issued, granted, requested>>

\* The cancel handler's own branch for a GraphQL error of orderCancel, or
\* dispatch_button's for every other ShopifyError.
RecordError(t) ==
  /\ tapPc[t] = "failed"
  /\ Record(t, IF TapAction[t] = "confirm" THEN "confirm" ELSE "cancel_requested", "error")
  /\ \E copy \in {"error_fallback"} \cup (IF t \in issued THEN {"cancel_failed"} ELSE {}) :
       Finish(t, copy)
  /\ UNCHANGED <<shopifyVars, mappingVars, faults,
                 asked, issued, granted, requested>>

\* The webhook's time budget runs out, the platform kills the invocation, or
\* the database fails (the customer is sent the fallback copy, and nothing is
\* audited): nobody takes the tap up again.
CutOffTap(t) ==
  /\ tapPc[t] \notin {"new", "done"}
  /\ Fault
  /\ tapPc' = [tapPc EXCEPT ![t] = "done"]
  /\ \E copy \in {"none", "error_fallback"} : told' = [told EXCEPT ![t] = copy]
  /\ dropped' = dropped \cup {t}
  /\ UNCHANGED <<shopifyVars, mappingVars, audit,
                 asked, issued, granted, requested>>

TapStep(t) ==
  \/ ResolveNothing(t) \/ HandleConfirm(t)
  \/ HandleCancelRequest(t) \/ HandleCancelConfirm(t)
  \/ TagConfirmed(t) \/ RecordConfirm(t) \/ SetConfirmed(t)
  \/ TagCancelRequested(t) \/ SetCancelRequested(t)
  \/ CancelOrder(t) \/ RecordCancelRequested(t)
  \/ RecordError(t)

TypeOKTaps ==
  /\ tapPc \in [Taps -> TapPCs]
  /\ told \in [Taps -> Copy]
  /\ asked \subseteq Orders
  /\ issued \subseteq Taps
  /\ granted \subseteq Taps
  /\ requested \subseteq Taps
  /\ dropped \subseteq Taps
=============================================================================
