------------------------------- MODULE Mirror -------------------------------
(***************************************************************************)
(* The order mirror as its writers think of it: four tables, and writes    *)
(* that happen at once.  A VERSION is a state of an order that Shopify     *)
(* reported once: which customer it names and the stamp it carries are     *)
(* fixed, whether, when and how often it is delivered is not.  Module      *)
(* OrderMirror does the same with transactions that interleave.            *)
(***************************************************************************)
EXTENDS Integers

CONSTANTS
  Orders, Customers, NoCustomer,
  Versions,    \* the states of an order, of which there are as many for each
  CustomerOf,  \* the customer an order names in a version, or NoCustomer
  StampOf,     \* a version's updated_at; NoStamp when the payload has none
  ShipOf,      \* the fulfillment a version carries (the backfill's do), or NoShip
  Stamps,      \* the updated_at of customers/update and fulfillments/*, or NoStamp
  Writers,     \* who writes: webhook invocations and the backfill
  Subject,     \* the orders under the phone number that asks to be erased
  Phoned       \* the customers with that number on their own row

NoStamp == 0   \* updated_at IS NULL
Absent == -1   \* no such row
NoVersion == 0

ItemRows == Versions \X Writers  \* the line items of a version, and who wrote them

Ship == [stamp : Nat, delivered : BOOLEAN]
NoShip == [stamp |-> Absent, delivered |-> FALSE]

ASSUME MirrorAssumption ==
  /\ NoCustomer \notin Customers
  /\ CustomerOf \in [Orders -> [Versions -> Customers \cup {NoCustomer}]]
  /\ Versions \subseteq Nat \ {NoVersion} /\ Stamps \subseteq Nat
  /\ StampOf \in [Orders -> [Versions -> Nat]]
  /\ ShipOf \in [Orders -> [Versions -> Ship \cup {NoShip}]]
  /\ Subject \subseteq Orders /\ Phoned \subseteq Customers

VARIABLES
  orders,     \* [ver, link]: the version stored and customer_gid
  items,      \* the rows of order_items, as members of ItemRows
  customers,  \* the stamp stored, or Absent
  ships       \* the order's fulfillment, or NoShip

tables == <<orders, items, customers, ships>>

NoOrder == [ver |-> NoVersion, link |-> NoCustomer]
Mirrored(o) == orders[o].ver # NoVersion

Init ==
  /\ orders = [o \in Orders |-> NoOrder]
  /\ items = [o \in Orders |-> {}]
  /\ customers = [c \in Customers |-> Absent]
  /\ ships = [o \in Orders |-> NoShip]

-----------------------------------------------------------------------------
(* The guards of the three upserts, and what they write                    *)

Fresh(stored, new) == stored = NoStamp \/ new = NoStamp \/ new >= stored

CustomerFresh(c, s) == customers[c] # Absent => Fresh(customers[c], s)

OrderFresh(o, v) == Mirrored(o) => Fresh(StampOf[o][orders[o].ver], StampOf[o][v])

\* Unlike the other two, an unstamped fulfillment loses against a stamped one.
ShipFresh(o, f) ==
  \/ ships[o].stamp \in {Absent, NoStamp}
  \/ f.stamp # NoStamp /\ f.stamp >= ships[o].stamp

Merged(o, f) == [f EXCEPT !.delivered = @ \/ ships[o].delivered]

PutCustomer(c, s) ==
  customers' = IF c \in Customers /\ CustomerFresh(c, s)
               THEN [customers EXCEPT ![c] = s] ELSE customers

PutShip(o, f) ==
  ships' = IF f # NoShip /\ ShipFresh(o, f)
           THEN [ships EXCEPT ![o] = Merged(o, f)] ELSE ships

-----------------------------------------------------------------------------
(* The writes                                                              *)

\* The customer is written by the order's stamp whether or not the order then is.
Sync(w, o, v) ==
  /\ PutCustomer(CustomerOf[o][v], StampOf[o][v])
  /\ IF OrderFresh(o, v)
       THEN /\ orders' = [orders EXCEPT ![o] = [ver |-> v, link |-> CustomerOf[o][v]]]
            /\ items' = [items EXCEPT ![o] = {<<v, w>>}]
            /\ PutShip(o, ShipOf[o][v])
       ELSE UNCHANGED <<orders, items, ships>>

UpdateCustomer(c, s) == PutCustomer(c, s) /\ UNCHANGED <<orders, items, ships>>

UpdateShip(o, s) ==
  /\ Mirrored(o)
  /\ PutShip(o, [stamp |-> s, delivered |-> FALSE])
  /\ UNCHANGED <<orders, items, customers>>

\* The rows of orders `got` and customers `gone` disappear, with the children
\* of the orders and the links to the customers.
Remove(got, gone) ==
  /\ orders' = [o \in Orders |->
                  IF o \in got THEN NoOrder
                  ELSE IF orders[o].link \in gone THEN [orders[o] EXCEPT !.link = NoCustomer]
                  ELSE orders[o]]
  /\ items' = [o \in Orders |-> IF o \in got THEN {} ELSE items[o]]
  /\ ships' = [o \in Orders |-> IF o \in got THEN NoShip ELSE ships[o]]
  /\ customers' = [c \in Customers |-> IF c \in gone THEN Absent ELSE customers[c]]

LinkedBy(got) == {orders[o].link : o \in got} \ {NoCustomer}

\* What an erasure finds depends on when it looks; a customer it finds an order
\* of never outlives that order.
Erase(got, gone) ==
  /\ \A o \in got : Mirrored(o)
  /\ LinkedBy(got) \subseteq gone /\ gone \subseteq LinkedBy(got) \cup Phoned
  /\ Remove(got, gone)

Next ==
  \/ \E w \in Writers, o \in Orders, v \in Versions : Sync(w, o, v)
  \/ \E c \in Customers, s \in Stamps : UpdateCustomer(c, s)
  \/ \E o \in Orders, s \in Stamps : UpdateShip(o, s)
  \/ \E got \in SUBSET Subject, gone \in SUBSET Customers : Erase(got, gone)

Spec == Init /\ [][Next]_tables
=============================================================================
