---------------------------- MODULE OrderMirror ----------------------------
(***************************************************************************)
(* The order mirror's writers, statement by statement, in READ COMMITTED   *)
(* transactions.  A writer is one webhook invocation or one order of the   *)
(* backfill:                                                               *)
(*                                                                         *)
(*   upsert_order_mirror   idle -> order -> items -> commit -> idle        *)
(*                                      `----------^  (stale)              *)
(*   customers/update      idle -> known -> idle                           *)
(*   fulfillments/*        idle -> parent -> idle                          *)
(*                                                                         *)
(* What a transaction writes the others see at its commit; the rows it     *)
(* wrote, or found its guard false on, stay locked until then.  The eraser *)
(* is delete_by_phone, whose statements on the other tables meet nobody    *)
(* here:                                                                   *)
(*                                                                         *)
(*   idle -> orders -> linked -> customers -> commit -> idle               *)
(***************************************************************************)
EXTENDS Mirror

VARIABLES
  tx,     \* per writer: where it is, on what, and what its guards said
  eraser  \* where the erasure is, the rows it looks for and those it deleted

vars == <<tables, tx, eraser>>

Idle == [pc |-> "idle", order |-> "none", ver |-> NoVersion, stamp |-> NoStamp,
         customer |-> FALSE, applies |-> FALSE, gone |-> {}]

NotErasing == [pc |-> "idle", want |-> {}, got |-> {}, who |-> {}, gone |-> {}]

MInit ==
  /\ Init
  /\ tx = [w \in Writers |-> Idle]
  /\ eraser = NotErasing

-----------------------------------------------------------------------------
(* Locks                                                                   *)

Syncing == {"order", "items", "commit"}

HasCustomer(w, c) ==
  c \in Customers /\ tx[w].pc \in Syncing /\ CustomerOf[tx[w].order][tx[w].ver] = c

HasOrder(w, o) == tx[w].pc \in {"items", "commit"} /\ tx[w].order = o

HasShip(w, o) == tx[w].pc = "commit" /\ tx[w].order = o /\ tx[w].applies

FreeCustomer(w, c) ==
  c \notin eraser.gone /\ \A x \in Writers \ {w} : ~HasCustomer(x, c)

\* Broken: the items are replaced before the order row is locked.
BrokenFreeOrder(w, o) == o \notin eraser.got

FreeOrder(w, o) ==
  o \notin eraser.got /\ \A x \in Writers \ {w} : ~HasOrder(x, o)

FreeShip(w, o) ==
  o \notin eraser.got /\ \A x \in Writers \ {w} : ~HasShip(x, o)

-----------------------------------------------------------------------------
(* upsert_order_mirror                                                     *)

WriteCustomer(w, o, v) ==
  /\ tx[w].pc = "idle"
  /\ LET c == CustomerOf[o][v] IN
       /\ FreeCustomer(w, c)
       /\ tx' = [tx EXCEPT ![w] =
                   [Idle EXCEPT !.pc = "order", !.order = o, !.ver = v,
                                !.customer = c \in Customers /\ CustomerFresh(c, StampOf[o][v])]]
  /\ UNCHANGED <<tables, eraser>>

WriteOrder(w) ==
  /\ tx[w].pc = "order"
  /\ LET o == tx[w].order
         fresh == OrderFresh(o, tx[w].ver)
     IN  /\ FreeOrder(w, o)
         /\ tx' = [tx EXCEPT ![w] = [@ EXCEPT !.pc = IF fresh THEN "items" ELSE "commit",
                                              !.applies = fresh]]
  /\ UNCHANGED <<tables, eraser>>

\* DELETE FROM order_items takes the rows it sees; the fulfillment, if any, follows.
ReplaceItems(w) ==
  /\ tx[w].pc = "items"
  /\ tx' = [tx EXCEPT ![w] = [@ EXCEPT !.pc = "commit", !.gone = items[tx[w].order]]]
  /\ UNCHANGED <<tables, eraser>>

Commit(w) ==
  /\ tx[w].pc = "commit"
  /\ LET o == tx[w].order
         v == tx[w].ver
     IN  /\ customers' = IF tx[w].customer
                         THEN [customers EXCEPT ![CustomerOf[o][v]] = StampOf[o][v]] ELSE customers
         /\ IF tx[w].applies
              THEN /\ orders' = [orders EXCEPT ![o] = [ver |-> v, link |-> CustomerOf[o][v]]]
                   /\ items' = [items EXCEPT ![o] = (@ \ tx[w].gone) \cup {<<v, w>>}]
                   /\ PutShip(o, ShipOf[o][v])
              ELSE UNCHANGED <<orders, items, ships>>
  /\ tx' = [tx EXCEPT ![w] = Idle]
  /\ UNCHANGED eraser

-----------------------------------------------------------------------------
(* customers/update and fulfillments/*: a check, then an upsert of its own *)

CustomerExists(w, c, s) ==
  /\ tx[w].pc = "idle" /\ customers[c] # Absent
  /\ tx' = [tx EXCEPT ![w] = [Idle EXCEPT !.pc = "known", !.order = c, !.stamp = s]]
  /\ UNCHANGED <<tables, eraser>>

UpsertCustomer(w) ==
  /\ tx[w].pc = "known" /\ FreeCustomer(w, tx[w].order)
  /\ UpdateCustomer(tx[w].order, tx[w].stamp)
  /\ tx' = [tx EXCEPT ![w] = Idle]
  /\ UNCHANGED eraser

OrderExists(w, o, s) ==
  /\ tx[w].pc = "idle" /\ Mirrored(o)
  /\ tx' = [tx EXCEPT ![w] = [Idle EXCEPT !.pc = "parent", !.order = o, !.stamp = s]]
  /\ UNCHANGED <<tables, eraser>>

\* The foreign key refuses the row when the order was erased since the check.
UpsertFulfillment(w) ==
  /\ tx[w].pc = "parent" /\ FreeShip(w, tx[w].order)
  /\ \/ UpdateShip(tx[w].order, tx[w].stamp)
     \/ ~Mirrored(tx[w].order) /\ UNCHANGED tables
  /\ tx' = [tx EXCEPT ![w] = Idle]
  /\ UNCHANGED eraser

\* The process dies or the statement fails: the database rolls back.
CutOff(w) ==
  /\ tx[w].pc # "idle"
  /\ tx' = [tx EXCEPT ![w] = Idle]
  /\ UNCHANGED <<tables, eraser>>

-----------------------------------------------------------------------------
(* delete_by_phone: a DELETE takes the rows that it saw when it began, and *)
(* waits for those that are locked                                         *)

\* Broken: no WHERE clause on the phone.
BrokenStartErase ==
  /\ eraser.pc = "idle"
  /\ eraser' = [NotErasing EXCEPT !.pc = "orders", !.want = {o \in Orders : Mirrored(o)}]
  /\ UNCHANGED <<tables, tx>>

StartErase ==
  /\ eraser.pc = "idle"
  /\ eraser' = [NotErasing EXCEPT !.pc = "orders", !.want = {o \in Subject : Mirrored(o)}]
  /\ UNCHANGED <<tables, tx>>

DeleteOrders ==
  /\ eraser.pc = "orders"
  /\ \A o \in eraser.want, w \in Writers : ~HasOrder(w, o)
  /\ eraser' = [eraser EXCEPT !.pc = "linked", !.got = eraser.want]
  /\ UNCHANGED <<tables, tx>>

\* Broken: customers are matched by their own phone alone.
BrokenLookForCustomers ==
  /\ eraser.pc = "linked"
  /\ eraser' = [eraser EXCEPT !.pc = "customers",
                  !.who = {c \in Phoned : customers[c] # Absent}]
  /\ UNCHANGED <<tables, tx>>

LookForCustomers ==
  /\ eraser.pc = "linked"
  /\ eraser' = [eraser EXCEPT !.pc = "customers",
                  !.who = {c \in LinkedBy(eraser.got) \cup Phoned : customers[c] # Absent}]
  /\ UNCHANGED <<tables, tx>>

DeleteCustomers ==
  /\ eraser.pc = "customers"
  /\ \A c \in eraser.who, w \in Writers : ~HasCustomer(w, c)
  /\ eraser' = [eraser EXCEPT !.pc = "commit", !.gone = eraser.who]
  /\ UNCHANGED <<tables, tx>>

CommitErase ==
  /\ eraser.pc = "commit"
  /\ Remove(eraser.got, eraser.gone)
  /\ eraser' = NotErasing
  /\ UNCHANGED tx

CutOffErase ==
  /\ eraser.pc # "idle"
  /\ eraser' = NotErasing
  /\ UNCHANGED <<tables, tx>>

\* A sync holds the customer and waits for the order, the erasure the reverse.
Deadlocked(w) ==
  /\ tx[w].pc = "order" /\ tx[w].order \in eraser.got
  /\ eraser.pc = "customers" /\ CustomerOf[tx[w].order][tx[w].ver] \in eraser.who

\* Postgres aborts one side, after deadlock_timeout.
BreakDeadlock(w) == Deadlocked(w) /\ (CutOff(w) \/ CutOffErase)

-----------------------------------------------------------------------------
Starts(w) ==
  \/ \E o \in Orders, v \in Versions : WriteCustomer(w, o, v)
  \/ \E c \in Customers, s \in Stamps : CustomerExists(w, c, s)
  \/ \E o \in Orders, s \in Stamps : OrderExists(w, o, s)

Goes(w) ==
  \/ WriteOrder(w) \/ ReplaceItems(w) \/ Commit(w)
  \/ UpsertCustomer(w) \/ UpsertFulfillment(w)

Erases == DeleteOrders \/ LookForCustomers \/ DeleteCustomers \/ CommitErase

MNext ==
  \/ \E w \in Writers : Starts(w) \/ Goes(w) \/ CutOff(w) \/ BreakDeadlock(w)
  \/ StartErase \/ Erases \/ CutOffErase

MSpec == MInit /\ [][MNext]_vars

-----------------------------------------------------------------------------
(* Properties                                                              *)

PCs == {"idle", "order", "items", "commit", "known", "parent"}
ErasePCs == {"idle", "orders", "linked", "customers", "commit"}

TypeOK ==
  /\ orders \in [Orders -> [ver : Versions \cup {NoVersion},
                            link : Customers \cup {NoCustomer}]]
  /\ items \in [Orders -> SUBSET ItemRows]
  /\ customers \in [Customers -> Nat \cup {Absent}]
  /\ ships \in [Orders -> Ship \cup {NoShip}]
  /\ tx \in [Writers -> [pc : PCs, order : Orders \cup Customers \cup {"none"},
                         ver : Versions \cup {NoVersion}, stamp : Nat,
                         customer : BOOLEAN, applies : BOOLEAN,
                         gone : SUBSET ItemRows]]
  /\ eraser \in [pc : ErasePCs, want : SUBSET Subject, got : SUBSET Subject,
                 who : SUBSET Customers, gone : SUBSET Customers]

\* An order's line items are those of the version its header shows, once each:
\* the order row's lock keeps two syncs from both inserting theirs, with no
\* unique constraint behind it ("ORDERING IS LOAD-BEARING").
OneVersion ==
  \A o \in Orders :
    IF Mirrored(o) THEN \E w \in Writers : items[o] = {<<orders[o].ver, w>>}
    ELSE items[o] = {} /\ ships[o] = NoShip

\* Every write to the mirror happens at once, against the rows as they are at
\* its commit: no sync applies a guard it evaluated on a row that changed since,
\* and an erasure takes the customer with the order, whoever writes meanwhile.
ImplementsMirror == Spec
=============================================================================
