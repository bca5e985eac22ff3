---------------------------- MODULE SizeExchange ----------------------------
(***************************************************************************)
(* The size exchange of one delivered order.  The assistant books it once  *)
(* the customer has named a size, and each booking sends a courier to the  *)
(* customer's door; from there the store's staff move it along by hand.  A *)
(* request is known by the message whose turn made it.                     *)
(***************************************************************************)
EXTENDS Naturals, FiniteSets

CONSTANTS Messages

VARIABLES requests    \* exchange_requests of the order

Statuses == {"requested", "qc_failed"}    \* of six, the two that ends differ by

Request == [by : Messages, status : Statuses]

ExchangeInit == requests = {}

\* Broken: the index as it first was, which let a failed request be followed.
BrokenBook(m) ==
  requests' = IF \E r \in requests : r.status # "qc_failed" THEN requests
              ELSE requests \cup {[by |-> m, status |-> "requested"]}

\* PostgresExchangeStore.create: the unique index allows one row per order, and
\* the agent swallows its refusal.
Book(m) ==
  requests' = IF requests # {} THEN requests ELSE {[by |-> m, status |-> "requested"]}

\* set_status, whatever the row's status was: an update names the row by its id.
SetStatus(r, status) ==
  requests' = (requests \ {r}) \cup {[r EXCEPT !.status = status]}

\* One courier is sent for an order, whichever turns ask for it and whatever
\* becomes of the first request.
ExchangeOnce == Cardinality(requests) <= 1
=============================================================================
