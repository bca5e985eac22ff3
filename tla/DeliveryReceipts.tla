-------------------------- MODULE DeliveryReceipts --------------------------
(***************************************************************************)
(* Delivery receipts and the resends they trigger.  A row is a message the *)
(* business sent: a template (outbound_messages) or an assistant's line    *)
(* (messages).  Its COPIES are what the provider accepted of it; the n-th  *)
(* copy of row k has the wamid <<k, n>>, and wamid[k] is the n the row     *)
(* knows (0: none).  The provider reports on any copy, at any time, in any *)
(* order and repeatedly, or never.                                         *)
(*                                                                         *)
(* A HOOK is one webhook invocation at work on a receipt:                  *)
(*                                                                         *)
(*   idle -> apply -> retry -> resend -> resent -> idle                    *)
(*       `-> unknown     `-> spent  `-> burn -> page -> idle               *)
(*                           `---------------`                             *)
(*                                                                         *)
(* Between any two of its steps other hooks run, and it may be cut off.    *)
(***************************************************************************)
EXTENDS Integers

CONSTANTS
  Rows,
  Templates,  \* the rows of outbound_messages; the others are of messages
  Manual,     \* the rows of messages that the owner typed
  Hooks,
  NoRow,
  MaxRetries  \* MAX_RETRIES: 3 in the code

ASSUME ReceiptsAssumption ==
  /\ Templates \subseteq Rows
  /\ Manual \subseteq Rows \ Templates
  /\ NoRow \notin Rows
  /\ MaxRetries \in Nat

VARIABLES
  (* the row's columns *)
  wamid, delivery, retries, undeliverable,
  (* the invocations *)
  hook,
  (* the provider *)
  copies, delivered, failed,
  (* observers: owner alerts, and rows whose failure was dropped half-way *)
  pages, dropped

columns == <<wamid, delivery, retries, undeliverable>>
provider == <<copies, delivered, failed>>
observers == <<pages, dropped>>
vars == <<columns, hook, provider, observers>>

Statuses == {"null", "sent", "delivered", "read", "failed"}
PCs == {"idle", "apply", "unknown", "retry", "resend", "resent", "burn",
        "spent", "page"}
Retrying == {"retry", "resend", "resent", "burn", "spent", "page"}

Idle == [pc |-> "idle", row |-> NoRow, copy |-> 0, status |-> "null", new |-> 0]

Init ==
  /\ wamid = [k \in Rows |-> 0]
  /\ delivery = [k \in Rows |-> "null"]
  /\ retries = [k \in Rows |-> 0]
  /\ undeliverable = [k \in Rows |-> FALSE]
  /\ hook = [h \in Hooks |-> Idle]
  /\ copies = [k \in Rows |-> 0]
  /\ delivered = {} /\ failed = {}
  /\ pages = [k \in Rows |-> 0]
  /\ dropped = {}

-----------------------------------------------------------------------------
(* The first send, as far as receipts go: the provider takes the message,  *)
(* and the row learns of it in a later statement, or never.                *)

FirstSend(k) ==
  /\ copies[k] = 0 /\ delivery[k] = "null"
  /\ copies' = [copies EXCEPT ![k] = 1]
  /\ UNCHANGED <<columns, hook, delivered, failed, observers>>

\* mark_outbound_sent, set_message_wamid
RecordWamid(k) ==
  /\ copies[k] = 1 /\ wamid[k] = 0 /\ delivery[k] = "null"
  /\ wamid' = [wamid EXCEPT ![k] = 1]
  /\ UNCHANGED <<delivery, retries, undeliverable, hook, provider, observers>>

\* A manual reply that was refused, or got no answer, is marked by its id.
MarkManualFailed(k) ==
  /\ k \in Manual /\ wamid[k] = 0 /\ delivery[k] = "null"
  /\ delivery' = [delivery EXCEPT ![k] = "failed"]
  /\ UNCHANGED <<wamid, retries, undeliverable, hook, provider, observers>>

-----------------------------------------------------------------------------
(* The provider                                                            *)

CopyDelivered(k, n) ==
  /\ n <= copies[k] /\ <<k, n>> \notin delivered \cup failed
  /\ delivered' = delivered \cup {<<k, n>>}
  /\ UNCHANGED <<columns, hook, copies, failed, observers>>

CopyFails(k, n) ==
  /\ n <= copies[k] /\ <<k, n>> \notin delivered \cup failed
  /\ failed' = failed \cup {<<k, n>>}
  /\ UNCHANGED <<columns, hook, copies, delivered, observers>>

\* What the provider may say of a copy; "other" is a status this code does not
\* know.
Reports(k, n) ==
  {"sent", "other"} \cup (IF <<k, n>> \in delivered THEN {"delivered", "read"} ELSE {})
                    \cup (IF <<k, n>> \in failed THEN {"failed"} ELSE {})

-----------------------------------------------------------------------------
(* apply_delivery_status                                                   *)

Goes(h, where) == hook' = [hook EXCEPT ![h].pc = where]
Ends(h) == hook' = [hook EXCEPT ![h] = Idle]

\* The existence check, in outbound_messages and then in messages.  It is a
\* statement of its own: the UPDATE comes later.
Lookup(h, k, n, s) ==
  /\ hook[h].pc = "idle" /\ n <= copies[k] /\ s \in Reports(k, n)
  /\ hook' = [hook EXCEPT ![h] =
       [pc |-> IF wamid[k] = n THEN "apply" ELSE "unknown",
        row |-> k, copy |-> n, status |-> s, new |-> 0]]
  /\ UNCHANGED <<columns, provider, observers>>

IgnoreUnknown(h) ==
  /\ hook[h].pc = "unknown"
  /\ Ends(h)
  /\ UNCHANGED <<columns, provider, observers>>

Rank == [sent |-> 0, delivered |-> 1, read |-> 2]

RankOf(s) == IF s \in DOMAIN Rank THEN Rank[s] ELSE -1

\* should_apply_delivery_status
ShouldApply(current, new) ==
  /\ current # "failed"
  /\ \/ new = "failed"
     \/ new \in DOMAIN Rank /\ (current = "null" \/ RankOf(current) < Rank[new])

\* Broken: any known status is written over one that has not failed.
BrokenGuard(current, new) ==
  current # "failed" /\ new \in {"failed"} \cup DOMAIN Rank

\* Broken: a status nobody knows is taken for progress.
BrokenOpenGuard(current, new) ==
  current # "failed" /\ (new = "failed" \/ current = "null" \/ RankOf(current) < RankOf(new))

\* The WHERE clause of the UPDATE, which is meant to say the same.
Guard(current, new) ==
  /\ current # "failed"
  /\ \/ new = "failed"
     \/ /\ new \in {"sent", "delivered", "read"}
        /\ current = "null" \/ RankOf(current) < RankOf(new)

\* Broken: the row found by the existence check is updated by its id.
BrokenHasWamid(k, n) == TRUE

HasWamid(k, n) == wamid[k] = n

\* Broken: a duplicate of a failure ("unchanged") goes on to the resend.
BrokenFresh(h, applied) == hook[h].status = "failed"

\* Only a failure that the UPDATE newly wrote ("applied") goes on.
Fresh(h, applied) == applied /\ hook[h].status = "failed"

Apply(h) ==
  LET k == hook[h].row
      applied == HasWamid(k, hook[h].copy) /\ Guard(delivery[k], hook[h].status)
  IN /\ hook[h].pc = "apply"
     /\ delivery' = IF applied THEN [delivery EXCEPT ![k] = hook[h].status] ELSE delivery
     /\ IF Fresh(h, applied) THEN Goes(h, "retry") ELSE Ends(h)
     /\ UNCHANGED <<wamid, retries, undeliverable, provider, observers>>

-----------------------------------------------------------------------------
(* retry_failed_outbound, retry_failed_message                             *)

Exhausted(k) == retries[k] >= MaxRetries

\* The row is looked up by the wamid once more; it may be gone by now.
GetRetryInfo(h) ==
  LET k == hook[h].row
  IN /\ hook[h].pc = "retry"
     /\ IF wamid[k] = hook[h].copy
        THEN Goes(h, IF Exhausted(k) THEN "spent" ELSE "resend")
        ELSE Ends(h)
     /\ UNCHANGED <<columns, provider, observers>>

\* Broken: only the branch of outbound_messages reaches the owner.
BrokenMarkUndeliverable(h) ==
  LET template == hook[h].row \in Templates
  IN /\ hook[h].pc = "spent"
     /\ undeliverable' = [undeliverable EXCEPT ![hook[h].row] = template]
     /\ IF template THEN Goes(h, "page") ELSE Ends(h)
     /\ UNCHANGED <<wamid, delivery, retries, provider, observers>>

\* A message row has no state to leave; only the owner is told.
MarkUndeliverable(h) ==
  /\ hook[h].pc = "spent"
  /\ undeliverable' = [undeliverable EXCEPT ![hook[h].row] = hook[h].row \in Templates]
  /\ Goes(h, "page")
  /\ UNCHANGED <<wamid, delivery, retries, provider, observers>>

\* Nothing leaves: no payload, no recipient, suppressed, refused.
ResendFails(h) ==
  /\ hook[h].pc = "resend"
  /\ Goes(h, "burn")
  /\ UNCHANGED <<columns, provider, observers>>

ResendAccepted(h) ==
  LET k == hook[h].row
  IN /\ hook[h].pc = "resend"
     /\ copies' = [copies EXCEPT ![k] = @ + 1]
     /\ \/ hook' = [hook EXCEPT ![h] = [@ EXCEPT !.pc = "resent", !.new = copies[k] + 1]]
        \/ Goes(h, "burn")  \* the answer is lost, or has no wamid
     /\ UNCHANGED <<columns, delivered, failed, observers>>

RecordRetry(h) ==
  /\ hook[h].pc = "resent"
  /\ retries' = [retries EXCEPT ![hook[h].row] = @ + 1]
  /\ wamid' = [wamid EXCEPT ![hook[h].row] = hook[h].new]
  /\ delivery' = [delivery EXCEPT ![hook[h].row] = "null"]
  /\ Ends(h)
  /\ UNCHANGED <<undeliverable, provider, observers>>

\* record_outbound_retry(id, None): the row keeps its wamid and its status.
BurnRetry(h) ==
  /\ hook[h].pc = "burn"
  /\ retries' = [retries EXCEPT ![hook[h].row] = @ + 1]
  /\ Goes(h, "page")
  /\ UNCHANGED <<wamid, delivery, undeliverable, provider, observers>>

\* _alert_owner_retry_exhausted, whatever becomes of the alert itself.
AlertOwner(h) ==
  /\ hook[h].pc = "page"
  /\ pages' = [pages EXCEPT ![hook[h].row] = @ + 1]
  /\ Ends(h)
  /\ UNCHANGED <<columns, provider, dropped>>

\* The invocation is killed, or a statement raises and the webhook acks all
\* the same.  The receipt is not delivered again on that account.
CutOff(h) ==
  /\ hook[h].pc # "idle"
  /\ dropped' = IF hook[h].pc \in Retrying THEN dropped \cup {hook[h].row} ELSE dropped
  /\ Ends(h)
  /\ UNCHANGED <<columns, provider, pages>>

-----------------------------------------------------------------------------
Step(h) ==
  \/ IgnoreUnknown(h) \/ Apply(h) \/ GetRetryInfo(h) \/ MarkUndeliverable(h)
  \/ ResendFails(h) \/ ResendAccepted(h) \/ RecordRetry(h) \/ BurnRetry(h)
  \/ AlertOwner(h) \/ CutOff(h)

Sends(k) == FirstSend(k) \/ RecordWamid(k) \/ MarkManualFailed(k)

Next ==
  \/ \E k \in Rows : Sends(k)
  \/ \E k \in Rows : \E n \in 1..copies[k] :
       \/ CopyDelivered(k, n) \/ CopyFails(k, n)
       \/ \E h \in Hooks, s \in Reports(k, n) : Lookup(h, k, n, s)
  \/ \E h \in Hooks : Step(h)

Spec == Init /\ [][Next]_vars

-----------------------------------------------------------------------------
(* Properties                                                              *)

TypeOK ==
  /\ wamid \in [Rows -> Nat]
  /\ delivery \in [Rows -> Statuses]
  /\ retries \in [Rows -> Nat]
  /\ undeliverable \in [Rows -> BOOLEAN]
  /\ hook \in [Hooks -> [pc : PCs, row : Rows \cup {NoRow}, copy : Nat,
                         status : Statuses \cup {"other"}, new : Nat]]
  /\ \A h \in Hooks : hook[h].pc # "idle" => hook[h].row \in Rows
  /\ copies \in [Rows -> Nat]
  /\ delivered \subseteq Rows \X Nat
  /\ failed \subseteq Rows \X Nat
  /\ pages \in [Rows -> Nat]
  /\ dropped \subseteq Rows

\* The status a row shows is one the provider reported of the very copy whose
\* wamid the row holds, and not of an earlier copy whose receipt came late or
\* was looked up before the row moved on.
ReportTruthful ==
  \A k \in Rows : wamid[k] # 0 => delivery[k] \in {"null"} \cup Reports(k, wamid[k])

\* The customer gets a further copy only when the provider has failed every
\* one before it, and at most MAX_RETRIES further ones: repeated, reordered and
\* concurrent receipts never drive two resends of one failure.
OnlyFailuresResent ==
  \A k \in Rows :
    /\ \A n \in 1..copies[k] : n < copies[k] => <<k, n>> \in failed
    /\ copies[k] <= MaxRetries + 1
    /\ retries[k] <= MaxRetries

Handled(k) == \E h \in Hooks : hook[h].row = k /\ hook[h].pc \in Retrying

\* A failure the row knows of is being handled or has come to the owner, once;
\* or the invocation that saw it was cut off, and then nobody handles it ever.
\* A template is written off only when its resends are spent, and stays failed.
NoFailureForgotten ==
  \A k \in Rows :
    /\ pages[k] <= 1
    /\ wamid[k] # 0 /\ delivery[k] = "failed"
         => Handled(k) \/ pages[k] = 1 \/ k \in dropped
    /\ undeliverable[k] => retries[k] = MaxRetries /\ delivery[k] = "failed"

\* The n-th copy as module Receipt sees it.
Shown(k, n) ==
  IF wamid[k] < n THEN "unknown"
  ELSE IF wamid[k] > n THEN "superseded" ELSE delivery[k]

Copies == 1..MaxRetries + 1

Of(k, n) == INSTANCE Receipt WITH status <- Shown(k, n)

\* Copy by copy, the status only moves forward, failed is terminal, and only a
\* failed copy is superseded: no interleaving of hooks takes a status back.
\* It is \A k, n : Of(k, n)!Spec, with the quantifiers where TLC takes them.
ImplementsReceipt ==
  /\ \A k \in Rows, n \in Copies : Of(k, n)!Init
  /\ [][\A k \in Rows, n \in Copies : [Of(k, n)!Next]_(Shown(k, n))]_vars
=============================================================================
