-------------------------- MODULE DeliveryConfirm --------------------------
(***************************************************************************)
(* From Shopify's "delivered" to the message that says so.  Shopify says   *)
(* delivered of a shipment that came back to its origin too, so the        *)
(* webhook only PARKS the shipment, and a sweep asks the courier's page,   *)
(* and Shopify again when the page does not tell, before it enqueues the   *)
(* notice.  Sweeps overlap: nothing claims a parked row.  Per row:         *)
(*                                                                         *)
(*   row -> fetch -> store -> shopify -> enqueue -> mark -> store -> row   *)
(*                                                                         *)
(* An assistant's turn that answers "where is my order" stores what the    *)
(* courier's page says as well.  Any statement may fail, which leaves the  *)
(* row to the next sweep, and any job or turn may be cut off.              *)
(***************************************************************************)
EXTENDS Integers, FiniteSets

CONSTANTS
  Shipments, NoShipment,
  DueAt,           \* the order in which the shipments fall due
  Sweeps, Turns, Hooks,
  BatchLimit       \* _BATCH_LIMIT: 50 in the code

ASSUME ConfirmAssumption ==
  /\ NoShipment \notin Shipments
  /\ DueAt \in [Shipments -> Nat]
  /\ \A s, t \in Shipments : DueAt[s] = DueAt[t] => s = t
  /\ BatchLimit \in Nat \ {0}

VARIABLES
  page,     \* the courier's page, which tells a return from a delivery
  (* the store: the order's mirror, pending_delivery_confirmations.state,    *)
  (* fulfillments.shipment_status, and whether its notices are in the outbox *)
  mirrored, parked, status, shipped, notice,
  old,      \* parked more than _ABANDON_AFTER ago
  sweep, turn, hook,
  guessed   \* observer: noticed on Shopify's word

store == <<mirrored, parked, status, shipped, notice>>
vars == <<page, store, old, sweep, turn, hook, guessed>>

Terminal == {"delivered", "rto"}  \* TERMINAL_SHIPMENT_STATES that are ever stored
Statuses == {"null", "moving"} \cup Terminal
ParkStates == {"none", "pending", "sent", "rto", "abandoned"}

SweepRecord == [pc : {"idle", "row", "fetch", "store", "shopify", "enqueue", "mark"},
                todo : SUBSET Shipments, late : SUBSET Shipments,
                s : Shipments \cup {NoShipment},
                verdict : {"none", "sent", "rto", "abandoned"}, write : Statuses]
TurnRecord == [pc : {"idle", "fetch", "store"}, s : Shipments \cup {NoShipment},
               write : Statuses]
HookRecord == [pc : {"idle", "shipped", "delivered"}, s : Shipments \cup {NoShipment}]

SweepIdle == [pc |-> "idle", todo |-> {}, late |-> {}, s |-> NoShipment,
              verdict |-> "none", write |-> "null"]
TurnIdle == [pc |-> "idle", s |-> NoShipment, write |-> "null"]
HookIdle == [pc |-> "idle", s |-> NoShipment]

Init ==
  /\ page = [s \in Shipments |-> "moving"]
  /\ mirrored = [s \in Shipments |-> TRUE]
  /\ parked = [s \in Shipments |-> "none"]
  /\ status = [s \in Shipments |-> "null"]
  /\ shipped = [s \in Shipments |-> FALSE]
  /\ notice = [s \in Shipments |-> FALSE]
  /\ old = [s \in Shipments |-> FALSE]
  /\ sweep = [j \in Sweeps |-> SweepIdle]
  /\ turn = [t \in Turns |-> TurnIdle]
  /\ hook = [h \in Hooks |-> HookIdle]
  /\ guessed = {}

-----------------------------------------------------------------------------
(* Statements on the store                                                 *)

\* Broken: the last to write wins.
BrokenStored(stored, new) == new

\* set_fulfillment_shipment_status: a terminal status is never overwritten.
Stored(stored, new) == IF stored \in Terminal THEN stored ELSE new

SetShipmentStatus(s, new) ==
  status' = IF mirrored[s] THEN [status EXCEPT ![s] = Stored(@, new)] ELSE status

\* set_delivery_confirmation_state updates whatever state the row is in.
SetState(s, state) ==
  parked' = IF parked[s] # "none" THEN [parked EXCEPT ![s] = state] ELSE parked

-----------------------------------------------------------------------------
(* The world                                                               *)

\* Delivered, or on its way back.
Resolve(s) ==
  /\ page[s] = "moving" /\ \E end \in Terminal : page' = [page EXCEPT ![s] = end]
  /\ UNCHANGED <<store, old, sweep, turn, hook, guessed>>

\* What fetch_tracking and normalized_shipment_status make of the page: None
\* when it cannot be read, or when its badge is a terminal token nobody confirms.
Tracking(s) == {"none", page[s]}

Ages(s) ==
  /\ parked[s] = "pending" /\ ~old[s] /\ old' = [old EXCEPT ![s] = TRUE]
  /\ UNCHANGED <<page, store, sweep, turn, hook, guessed>>

\* delete_by_phone, with the cascade from the order, in one transaction.
Erase(s) ==
  /\ mirrored[s]
  /\ mirrored' = [mirrored EXCEPT ![s] = FALSE]
  /\ parked' = [parked EXCEPT ![s] = "none"]
  /\ status' = [status EXCEPT ![s] = "null"]
  /\ shipped' = [shipped EXCEPT ![s] = FALSE]
  /\ notice' = [notice EXCEPT ![s] = FALSE]
  /\ UNCHANGED <<page, old, sweep, turn, hook, guessed>>

-----------------------------------------------------------------------------
(* The webhook: _notify_fulfillment_events                                 *)

HookAt(h, pc) == hook' = [hook EXCEPT ![h] = [@ EXCEPT !.pc = pc]]

\* An order without a mirror, or without a phone, is skipped; so is an event
\* that says neither shipped nor delivered.
ReadEvent(h, s) ==
  /\ hook[h].pc = "idle" /\ mirrored[s]
  /\ \E pc \in {"shipped", "delivered"} : hook' = [hook EXCEPT ![h] = [pc |-> pc, s |-> s]]
  /\ UNCHANGED <<page, store, old, sweep, turn, guessed>>

\* A failed enqueue of one notice does not stop the other.
EnqueueShipped(h) ==
  /\ hook[h].pc = "shipped"
  /\ \/ shipped' = [shipped EXCEPT ![hook[h].s] = TRUE] \/ UNCHANGED shipped
  /\ HookAt(h, "delivered") \/ hook' = [hook EXCEPT ![h] = HookIdle]
  /\ UNCHANGED <<page, mirrored, parked, status, notice, old, sweep, turn, guessed>>

\* ON CONFLICT DO NOTHING; the foreign key refuses an order erased meanwhile.
Park(h) ==
  /\ hook[h].pc = "delivered"
  /\ LET s == hook[h].s IN
       IF mirrored[s] /\ parked[s] = "none"
         THEN parked' = [parked EXCEPT ![s] = "pending"] /\ old' = [old EXCEPT ![s] = FALSE]
         ELSE UNCHANGED <<parked, old>>
  /\ hook' = [hook EXCEPT ![h] = HookIdle]
  /\ UNCHANGED <<page, mirrored, status, shipped, notice, sweep, turn, guessed>>

-----------------------------------------------------------------------------
(* The assistant: _live_tracking_for                                       *)

\* A stored terminal status is told without a look at the page, but an order
\* looked up at Shopify comes without the stored status.
Look(t, s) ==
  /\ turn[t].pc = "idle" /\ mirrored[s]
  /\ turn' = [turn EXCEPT ![t] = [TurnIdle EXCEPT !.pc = "fetch", !.s = s]]
  /\ UNCHANGED <<page, store, old, sweep, hook, guessed>>

LiveTracking(t) ==
  /\ turn[t].pc = "fetch"
  /\ \E a \in Tracking(turn[t].s) :
       turn' = [turn EXCEPT ![t] = IF a = "none" THEN TurnIdle
                                   ELSE [@ EXCEPT !.pc = "store", !.write = a]]
  /\ UNCHANGED <<page, store, old, sweep, hook, guessed>>

Persist(t) ==
  /\ turn[t].pc = "store"
  /\ SetShipmentStatus(turn[t].s, turn[t].write)
  /\ turn' = [turn EXCEPT ![t] = TurnIdle]
  /\ UNCHANGED <<page, mirrored, parked, shipped, notice, old, sweep, hook, guessed>>

-----------------------------------------------------------------------------
(* The sweep: run_delivery_confirm                                         *)

DueRows == {s \in Shipments : parked[s] = "pending"}

Before(s) == {t \in DueRows : DueAt[t] < DueAt[s]}

\* ORDER BY due_at LIMIT
DueConfirmations == {s \in DueRows : Cardinality(Before(s)) < BatchLimit}

StartSweep(j) ==
  /\ sweep[j].pc = "idle" /\ DueConfirmations # {}
  /\ sweep' = [sweep EXCEPT ![j] =
                 [SweepIdle EXCEPT !.pc = "row", !.todo = DueConfirmations,
                                   !.late = {s \in DueConfirmations : old[s]}]]
  /\ UNCHANGED <<page, store, old, turn, hook, guessed>>

Goes(j, pc, verdict, write) ==
  sweep' = [sweep EXCEPT ![j] = [@ EXCEPT !.pc = pc, !.verdict = verdict, !.write = write]]

\* The row is done with, for this sweep.
NextRow(j) ==
  sweep' = [sweep EXCEPT ![j] =
              IF @.todo = {} THEN SweepIdle
              ELSE [SweepIdle EXCEPT !.pc = "row", !.todo = sweep[j].todo,
                                     !.late = sweep[j].late]]

First(j, s) == s \in sweep[j].todo /\ \A t \in sweep[j].todo : DueAt[s] <= DueAt[t]

\* Broken: a row nobody can decide is tried again for ever.
BrokenOwnVerdict(j, s) ==
  CASE status[s] = "rto" -> "rto" [] status[s] = "delivered" -> "sent" [] OTHER -> "none"

\* What the stored row alone decides.
OwnVerdict(j, s) ==
  CASE s \in sweep[j].late -> "abandoned"
    [] s \notin sweep[j].late /\ status[s] = "rto" -> "rto"
    [] s \notin sweep[j].late /\ status[s] = "delivered" -> "sent"
    [] OTHER -> "none"

After(verdict) ==
  CASE verdict = "none" -> "fetch" [] verdict = "sent" -> "enqueue" [] OTHER -> "mark"

\* A row whose order is not mirrored, or cannot be read, is left to the next sweep.
ReadRow(j, s) ==
  /\ sweep[j].pc = "row" /\ First(j, s)
  /\ LET v == OwnVerdict(j, s)
         rest == sweep[j].todo \ {s}
     IN  \E found \in {mirrored[s], FALSE} :
         sweep' = [sweep EXCEPT ![j] =
                     IF s \in @.late \/ found
                       THEN [@ EXCEPT !.todo = rest, !.s = s, !.pc = After(v), !.verdict = v]
                     ELSE IF rest = {} THEN SweepIdle
                     ELSE [@ EXCEPT !.todo = rest]]
  /\ UNCHANGED <<page, store, old, turn, hook, guessed>>

\* Broken: is_terminal is asked where is_delivered_to_customer should be.
BrokenFetchTracking(j) ==
  /\ sweep[j].pc = "fetch"
  /\ \E a \in Tracking(sweep[j].s) :
       CASE a \in Terminal -> Goes(j, "enqueue", "sent", "delivered")
         [] a = "moving" -> Goes(j, "store", "none", a)
         [] OTHER -> Goes(j, "shopify", "none", "null")
  /\ UNCHANGED <<page, store, old, turn, hook, guessed>>

FetchTracking(j) ==
  /\ sweep[j].pc = "fetch"
  /\ \E a \in Tracking(sweep[j].s) :
       CASE a = "delivered" -> Goes(j, "enqueue", "sent", a)
         [] a = "rto" -> Goes(j, "mark", "rto", a)
         [] a = "moving" -> Goes(j, "store", "none", a)
         [] OTHER -> Goes(j, "shopify", "none", "null")
  /\ UNCHANGED <<page, store, old, turn, hook, guessed>>

\* get_order_fulfillments and fulfillment_is_genuinely_delivered: Shopify may
\* say delivered of any parked shipment, and may say nothing.
AskShopify(j) ==
  /\ sweep[j].pc = "shopify"
  /\ \/ Goes(j, "enqueue", "sent", "delivered") /\ guessed' = guessed \cup {sweep[j].s}
     \/ NextRow(j) /\ UNCHANGED guessed
  /\ UNCHANGED <<page, store, old, turn, hook>>

\* Broken: the row is marked whether or not the notice could be enqueued.
BrokenEnqueue(j) ==
  /\ sweep[j].pc = "enqueue"
  /\ \/ notice' = [notice EXCEPT ![sweep[j].s] = TRUE] \/ UNCHANGED notice
  /\ Goes(j, "mark", "sent", sweep[j].write)
  /\ UNCHANGED <<page, mirrored, parked, status, shipped, old, turn, hook, guessed>>

\* A duplicate of the dedupe key is a success: the notice is there already.
Enqueue(j) ==
  /\ sweep[j].pc = "enqueue"
  /\ \/ notice' = [notice EXCEPT ![sweep[j].s] = TRUE] /\ Goes(j, "mark", "sent", sweep[j].write)
     \/ UNCHANGED notice /\ NextRow(j)
  /\ UNCHANGED <<page, mirrored, parked, status, shipped, old, turn, hook, guessed>>

\* Broken: what is to be stored is written as the row's state.
BrokenMark(j) ==
  /\ sweep[j].pc = "mark"
  /\ SetState(sweep[j].s, sweep[j].write)
  /\ IF sweep[j].write = "null" THEN NextRow(j)
     ELSE Goes(j, "store", sweep[j].verdict, sweep[j].write)
  /\ UNCHANGED <<page, mirrored, status, shipped, notice, old, turn, hook, guessed>>

Mark(j) ==
  /\ sweep[j].pc = "mark"
  /\ SetState(sweep[j].s, sweep[j].verdict)
  /\ IF sweep[j].write = "null" THEN NextRow(j)
     ELSE Goes(j, "store", sweep[j].verdict, sweep[j].write)
  /\ UNCHANGED <<page, mirrored, status, shipped, notice, old, turn, hook, guessed>>

StoreStatus(j) ==
  /\ sweep[j].pc = "store"
  /\ SetShipmentStatus(sweep[j].s, sweep[j].write)
  /\ IF sweep[j].write = "moving" THEN Goes(j, "shopify", "none", "null") ELSE NextRow(j)
  /\ UNCHANGED <<page, mirrored, parked, shipped, notice, old, turn, hook, guessed>>

\* A statement of the row raises: the next row is taken.
RowFails(j) ==
  /\ sweep[j].pc \in {"shopify", "mark", "store"}
  /\ NextRow(j)
  /\ UNCHANGED <<page, store, old, turn, hook, guessed>>

CutOff ==
  /\ \/ \E j \in Sweeps : /\ sweep[j].pc # "idle"
                          /\ sweep' = [sweep EXCEPT ![j] = SweepIdle]
                          /\ UNCHANGED <<turn, hook>>
     \/ \E t \in Turns : /\ turn[t].pc # "idle"
                         /\ turn' = [turn EXCEPT ![t] = TurnIdle]
                         /\ UNCHANGED <<sweep, hook>>
     \/ \E h \in Hooks : /\ hook[h].pc # "idle"
                         /\ hook' = [hook EXCEPT ![h] = HookIdle]
                         /\ UNCHANGED <<sweep, turn>>
  /\ UNCHANGED <<page, store, old, guessed>>

Decides(j) ==
  \/ \E s \in Shipments : ReadRow(j, s)
  \/ FetchTracking(j) \/ AskShopify(j)
  \/ Enqueue(j) \/ Mark(j) \/ StoreStatus(j)

Next ==
  \/ \E s \in Shipments : Resolve(s) \/ Ages(s) \/ Erase(s)
  \/ \E h \in Hooks : EnqueueShipped(h) \/ Park(h) \/ \E s \in Shipments : ReadEvent(h, s)
  \/ \E t \in Turns : LiveTracking(t) \/ Persist(t) \/ \E s \in Shipments : Look(t, s)
  \/ \E j \in Sweeps : StartSweep(j) \/ Decides(j) \/ RowFails(j)
  \/ CutOff

Spec == Init /\ [][Next]_vars

\* The job is assumed to be started again and again (its schedule is set up in
\* the database, outside the repository); the clock goes on; a sweep is not
\* cut off for ever, and the statement that abandons a row not refused for ever.
Abandons(j) == Mark(j) /\ sweep[j].verdict = "abandoned"

Fairness ==
  /\ \A s \in Shipments : WF_vars(Ages(s))
  /\ \A j \in Sweeps : /\ WF_vars(StartSweep(j)) /\ WF_vars(Decides(j))
                       /\ \A s \in Shipments : SF_vars(Abandons(j) /\ sweep[j].s = s)
                       /\ \A s \in Shipments :
                            SF_vars(ReadRow(j, s) /\ s \in sweep[j].late)

FairSpec == Spec /\ Fairness

-----------------------------------------------------------------------------
(* Properties                                                              *)

TypeOK ==
  /\ page \in [Shipments -> {"moving"} \cup Terminal] /\ mirrored \in [Shipments -> BOOLEAN]
  /\ parked \in [Shipments -> ParkStates] /\ status \in [Shipments -> Statuses]
  /\ shipped \in [Shipments -> BOOLEAN] /\ notice \in [Shipments -> BOOLEAN]
  /\ old \in [Shipments -> BOOLEAN]
  /\ sweep \in [Sweeps -> SweepRecord] /\ turn \in [Turns -> TurnRecord]
  /\ hook \in [Hooks -> HookRecord]
  /\ guessed \subseteq Shipments

\* What sweeps and turns conclude of a shipment, in whatever order they read
\* and write, is what its page ends up saying: only Shopify's word, taken while
\* the page did not tell, makes a returned shipment a delivered one.
VerdictsTruthful ==
  \A s \in Shipments :
    /\ "rto" \in {status[s], parked[s]} => page[s] = "rto"
    /\ status[s] = "delivered" \/ parked[s] = "sent" \/ notice[s]
         => page[s] = "delivered" \/ s \in guessed

\* A row marked sent has its notice in the outbox, whatever failed on the way
\* and whoever marked it: no confirmation is lost between the two writes.
SentIsDurable == \A s \in Shipments : parked[s] = "sent" => notice[s]

\* Overlapping sweeps and turns hold answers of the page from earlier; none of
\* them takes a terminal status back, until the customer is erased.
TerminalStays ==
  [][\A s \in Shipments :
       status[s] \in Terminal /\ mirrored'[s] => status'[s] = status[s]]_vars

\* Every parked row is decided, abandoned or erased, also behind a full batch
\* of older rows that nobody can decide.
EveryParkedRowSettles == \A s \in Shipments : parked[s] = "pending" ~> parked[s] # "pending"
=============================================================================
