--------------------------- MODULE OrderLifecycle ---------------------------
(***************************************************************************)
(* An order's life after checkout: its messages (Reminders), the           *)
(* customer's taps (OrderActions) and the cancellation job (Reconcile),    *)
(* all of which write order_mappings.status and none of which asks what    *)
(* it is overwriting.                                                      *)
(***************************************************************************)
EXTENDS OrderActions, Reconcile, Reminders

vars == <<orderVars, tapVars, runVars, sendVars>>

Init == InitOrder /\ InitTaps /\ InitRuns /\ InitSends

\* The buttons are on the messages the provider took.
HasButtons(o) == \E k \in Kinds : message[o][k] \in {"accepted", "sent"}

Tap(t) ==
  /\ (HasButtons(TapOrder[t]) /\ StartTap(t)) \/ TapStep(t) \/ CutOffTap(t)
  /\ UNCHANGED <<runVars, sendVars>>

Job(r) ==
  /\ ClaimAwaiting(r) \/ RunStep(r) \/ CutOffRun(r)
  /\ UNCHANGED <<tapVars, sendVars>>

Clock(o) == ClaimGoesStale(o) /\ UNCHANGED <<tapVars, sendVars>>

Send ==
  /\ FindStaleTemplateSent \/ \E o \in Orders : SendStep(o)
  /\ UNCHANGED <<tapVars, runVars>>

Outside(o) == Environment(o) /\ UNCHANGED <<tapVars, runVars, sendVars>>

Next ==
  \/ \E t \in Taps : Tap(t)
  \/ \E r \in Runs : Job(r)
  \/ \E o \in Orders : Clock(o) \/ Outside(o)
  \/ Send

Spec == Init /\ [][Next]_vars

\* An invocation that is not cut off goes on, and time passes.  That someone
\* starts the job again and again is assumed: the route is there, its schedule
\* is not part of the repository.  Nothing is assumed of the customer, of
\* Shopify or of the messages.
Fairness ==
  /\ \A t \in Taps : WF_vars(TapStep(t) /\ UNCHANGED <<runVars, sendVars>>)
  /\ \A r \in Runs : WF_vars((ClaimAwaiting(r) \/ RunStep(r)) /\ UNCHANGED <<tapVars, sendVars>>)
  /\ \A o \in Orders : WF_vars(Clock(o))

FairSpec == Spec /\ Fairness
-----------------------------------------------------------------------------
(* Properties *)

TypeOK == TypeOKOrder /\ TypeOKTaps /\ TypeOKRuns /\ TypeOKSends

\* What the mapping, the tags and the customer are told of the Shopify order is
\* true: no failed or unanswered call, crash or overlap of taps, runs and
\* messages leaves a mapping confirmed without its tag, or an order tagged,
\* closed or announced as cancelled that Shopify has not cancelled
\* (reconcile.py's docstring, ADR-004 #3).
StatusBacked ==
  \A o \in Orders :
    /\ status[o] = "confirmed" => HasAnyTag(o, "confirmed")
    /\ status[o] = "cancelled" \/ notified[o] > 0 => HasAnyTag(o, "cancelled")
    /\ HasAnyTag(o, "cancelled") => IsCancelled(o)

\* The customer is told of a finished cancellation (cod_cancel) at most once
\* per cancellation a tap wrote down, through every crash, reclaim and release
\* of the job: nothing a run repeats repeats the message.
NoticesAccounted ==
  \A o \in Orders : notified[o] <= Cardinality({t \in requested : TapOrder[t] = o})

TapRows(t) == {row \in audit : row.source = t}

\* The audit trail: at most one row for a tap, an 'ok' row only for what
\* Shopify took, and a row for every orderCancel call, unless the tap was
\* cut off before it could write one.
AuditTruthful ==
  \A t \in Taps :
    /\ Cardinality(TapRows(t)) <= 1
    /\ \A row \in TapRows(t) : row.result = "ok" =>
         \/ row.action = "confirm" /\ HasAnyTag(row.order, "confirmed")
         \/ row.action = "cancel_requested" /\ t \in granted
    /\ t \in issued /\ tapPc[t] = "done" /\ t \notin dropped => TapRows(t) # {}

\* The job finishes: a mapping that awaits the final cancellation of an order
\* Shopify has cancelled does not wait for ever, whatever run died holding it.
CancelSettles ==
  \A o \in Orders :
    (status[o] \in {"cancel_requested", "cancel_reconciling"} /\ IsCancelled(o))
      ~> status[o] \notin {"cancel_requested", "cancel_reconciling"}
=============================================================================
