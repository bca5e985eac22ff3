------------------------------ MODULE Reminders ------------------------------
(***************************************************************************)
(* The two confirmation messages of an order and the reminder sweep, as    *)
(* far as they touch its mapping: module Outbox models how a message is    *)
(* claimed, sent and retried.  A sender stamps the mapping 'template_sent' *)
(* after the provider took the message, in a statement of its own, and the *)
(* sweep queues a reminder for the mappings still so stamped.              *)
(***************************************************************************)
EXTENDS ShopifyOrder

VARIABLES
  message,   \* the order_created and order_reminder rows
  swept      \* find_stale_template_sent's answer, as the sweep's loop uses it up

sendVars == <<message, swept>>

Kinds == {"created", "reminder"}
MessageStates == {"absent", "queued", "accepted", "sent", "unsent"}

InitSends ==
  /\ message = [o \in Orders |-> [k \in Kinds |-> IF k = "created" THEN "queued" ELSE "absent"]]
  /\ swept = {}

Turns(o, k, s) == message' = [message EXCEPT ![o][k] = s]

-----------------------------------------------------------------------------
\* The provider takes the message: from here on the customer can tap.
Accept(o, k) ==
  /\ message[o][k] = "queued"
  /\ Turns(o, k, "accepted")
  /\ UNCHANGED <<orderVars, swept>>

\* Suppressed, undeliverable or out of attempts.
NeverSend(o, k) ==
  /\ message[o][k] = "queued"
  /\ Turns(o, k, "unsent")
  /\ UNCHANGED <<orderVars, swept>>

\* The sender's last statement for the row, whatever happened meanwhile.
StampTemplateSent(o, k) ==
  /\ message[o][k] = "accepted"
  /\ SetMappingStatus(o, "template_sent")
  /\ Turns(o, k, "sent")
  /\ UNCHANGED <<shopifyVars, audit, faults, swept>>

\* The sender is cut off between marking the row sent and stamping.
StampLost(o, k) ==
  /\ message[o][k] = "accepted"
  /\ Fault
  /\ Turns(o, k, "sent")
  /\ UNCHANGED <<shopifyVars, mappingVars, audit, swept>>

\* An hour passes over a mapping whose template was sent.
GrowOld(o) ==
  /\ status[o] = "template_sent" /\ o \notin aged
  /\ aged' = aged \cup {o}
  /\ UNCHANGED <<shopifyVars, status, audit, faults, sendVars>>

Unanswered == {o \in Orders : status[o] = "template_sent" /\ o \in aged}

FindStaleTemplateSent ==
  /\ swept = {} /\ Unanswered # {}
  /\ swept' = Unanswered
  /\ UNCHANGED <<orderVars, message>>

\* INSERT ... ON CONFLICT DO NOTHING under the order's one reminder key.
EnqueueReminder(o) ==
  /\ o \in swept
  /\ swept' = swept \ {o}
  /\ IF message[o]["reminder"] = "absent"
     THEN Turns(o, "reminder", "queued") ELSE UNCHANGED message
  /\ UNCHANGED orderVars

SendStep(o) ==
  \/ \E k \in Kinds : Accept(o, k) \/ NeverSend(o, k)
                      \/ StampTemplateSent(o, k) \/ StampLost(o, k)
  \/ GrowOld(o)
  \/ EnqueueReminder(o)

TypeOKSends ==
  /\ message \in [Orders -> [Kinds -> MessageStates]]
  /\ swept \subseteq Orders
=============================================================================
