---------------------------- MODULE Notification ----------------------------
(***************************************************************************)
(* What the outbox promises about one notification, with no worker, claim  *)
(* or retry in sight.  A notification is asked for once, stays pending     *)
(* while copies of it may be handed to the provider, and is settled once.  *)
(* A copy the provider accepted is UNCONFIRMED until it is either recorded *)
(* as the send, or written off because its answer never came back.  Module *)
(* Outbox implements this one.                                             *)
(***************************************************************************)
EXTENDS Naturals

CONSTANT Rows

VARIABLES outcome,      \* what the business knows of the notification
          copies,       \* copies the provider accepted
          unconfirmed,  \* an accepted copy whose answer is still awaited
          excused       \* accepted copies whose answer was lost

vars == <<outcome, copies, unconfirmed, excused>>

Settled == {"sent", "suppressed", "failed", "undeliverable"}
Outcomes == {"none", "pending"} \cup Settled

Init ==
  /\ outcome = [k \in Rows |-> "none"]
  /\ copies = [k \in Rows |-> 0]
  /\ unconfirmed = [k \in Rows |-> FALSE]
  /\ excused = [k \in Rows |-> 0]

Request(k) ==
  /\ outcome[k] = "none"
  /\ outcome' = [outcome EXCEPT ![k] = "pending"]
  /\ UNCHANGED <<copies, unconfirmed, excused>>

\* The provider takes a copy; only one answer is awaited at a time.
Accept(k) ==
  /\ outcome[k] = "pending" /\ ~unconfirmed[k]
  /\ copies' = [copies EXCEPT ![k] = @ + 1]
  /\ unconfirmed' = [unconfirmed EXCEPT ![k] = TRUE]
  /\ UNCHANGED <<outcome, excused>>

Confirm(k) ==
  /\ outcome[k] = "pending" /\ unconfirmed[k]
  /\ outcome' = [outcome EXCEPT ![k] = "sent"]
  /\ unconfirmed' = [unconfirmed EXCEPT ![k] = FALSE]
  /\ UNCHANGED <<copies, excused>>

\* The answer is lost: the notification is retried or given up as failed.
WriteOff(k) ==
  /\ outcome[k] = "pending" /\ unconfirmed[k]
  /\ \E o \in {"pending", "failed"} : outcome' = [outcome EXCEPT ![k] = o]
  /\ unconfirmed' = [unconfirmed EXCEPT ![k] = FALSE]
  /\ excused' = [excused EXCEPT ![k] = @ + 1]
  /\ UNCHANGED copies

GiveUp(k) ==
  /\ outcome[k] = "pending" /\ ~unconfirmed[k]
  /\ \E o \in Settled \ {"sent"} : outcome' = [outcome EXCEPT ![k] = o]
  /\ UNCHANGED <<copies, unconfirmed, excused>>

Next == \E k \in Rows :
          Request(k) \/ Accept(k) \/ Confirm(k) \/ WriteOff(k) \/ GiveUp(k)

Spec == Init /\ [][Next]_vars
=============================================================================
