-------------------------- MODULE OrderMirrorProofs --------------------------
(***************************************************************************)
(* Proofs about module OrderMirror, for every set of orders, customers,    *)
(* versions and writers: its types, and that its interleaved transactions  *)
(* implement the atomic writes of module Mirror.                           *)
(***************************************************************************)
EXTENDS OrderMirror, TLAPS

Tx == [pc : PCs, order : Orders \cup Customers \cup {"none"},
       ver : Versions \cup {NoVersion}, stamp : Nat,
       customer : BOOLEAN, applies : BOOLEAN, gone : SUBSET ItemRows]

LEMMA VersionFacts ==
  ASSUME NEW o \in Orders, NEW v \in Versions
  PROVE  /\ CustomerOf[o][v] \in Customers \cup {NoCustomer} /\ StampOf[o][v] \in Nat
         /\ ShipOf[o][v] \in Ship \cup {NoShip}
<1>1. /\ CustomerOf[o] \in [Versions -> Customers \cup {NoCustomer}]
      /\ StampOf[o] \in [Versions -> Nat] /\ ShipOf[o] \in [Versions -> Ship \cup {NoShip}]
  BY MirrorAssumption
<1>2. QED
  BY <1>1

LEMMA WriteOrderTx ==
  ASSUME tx \in [Writers -> Tx], NEW w \in Writers, WriteOrder(w)
  PROVE  /\ tx[w].pc = "order" /\ tx'[w].pc \in {"items", "commit"}
         /\ tx'[w].pc = "items" => tx'[w].applies
         /\ tx'[w].order = tx[w].order /\ tx'[w].ver = tx[w].ver
         /\ tx'[w].stamp = tx[w].stamp /\ tx'[w].customer = tx[w].customer
         /\ tx'[w].applies = OrderFresh(tx[w].order, tx[w].ver)
         /\ tx' \in [Writers -> Tx] /\ \A x \in Writers \ {w} : tx'[x] = tx[x]
<1> DEFINE fresh == OrderFresh(tx[w].order, tx[w].ver)
           r == [tx[w] EXCEPT !.pc = IF fresh THEN "items" ELSE "commit", !.applies = fresh]
<1>1. tx[w].pc = "order" /\ tx' = [tx EXCEPT ![w] = r]
  BY DEF WriteOrder
<1>2. fresh \in BOOLEAN
  BY DEF OrderFresh, Mirrored, Fresh
<1>3. tx[w] \in Tx
  OBVIOUS
<1> HIDE DEF fresh
<1>4. /\ r \in Tx /\ r.pc \in {"items", "commit"} /\ (r.pc = "items" => fresh)
      /\ r.order = tx[w].order /\ r.ver = tx[w].ver /\ r.stamp = tx[w].stamp
      /\ r.customer = tx[w].customer /\ r.applies = fresh
  BY <1>2, <1>3 DEF Tx, PCs
<1> HIDE DEF r
<1>5. tx' \in [Writers -> Tx] /\ tx'[w] = r /\ \A x \in Writers \ {w} : tx'[x] = tx[x]
  BY <1>1, <1>4
<1>6. QED
  BY <1>1, <1>4, <1>5 DEF fresh

LEMMA ReplaceItemsTx ==
  ASSUME tx \in [Writers -> Tx], NEW w \in Writers, ReplaceItems(w),
         items[tx[w].order] \in SUBSET ItemRows
  PROVE  /\ tx[w].pc = "items" /\ tx'[w].pc = "commit"
         /\ tx'[w].gone = items[tx[w].order]
         /\ tx'[w].order = tx[w].order /\ tx'[w].ver = tx[w].ver
         /\ tx'[w].stamp = tx[w].stamp /\ tx'[w].customer = tx[w].customer
         /\ tx'[w].applies = tx[w].applies
         /\ tx' \in [Writers -> Tx] /\ \A x \in Writers \ {w} : tx'[x] = tx[x]
<1> DEFINE r == [tx[w] EXCEPT !.pc = "commit", !.gone = items[tx[w].order]]
<1>1. tx[w].pc = "items" /\ tx' = [tx EXCEPT ![w] = r]
  BY DEF ReplaceItems
<1>2. tx[w] \in Tx
  OBVIOUS
<1>3. /\ r \in Tx /\ r.pc = "commit" /\ r.gone = items[tx[w].order]
      /\ r.order = tx[w].order /\ r.ver = tx[w].ver /\ r.stamp = tx[w].stamp
      /\ r.customer = tx[w].customer /\ r.applies = tx[w].applies
  BY <1>2 DEF Tx, PCs
<1> HIDE DEF r
<1>4. tx' \in [Writers -> Tx] /\ tx'[w] = r /\ \A x \in Writers \ {w} : tx'[x] = tx[x]
  BY <1>1, <1>3
<1>5. QED
  BY <1>1, <1>3, <1>4

-----------------------------------------------------------------------------
(* The invariant                                                           *)

\* A writer is at work on an order of the mirror, or on a customer.
OnWhat ==
  \A w \in Writers :
    /\ tx[w].pc \in Syncing => tx[w].order \in Orders /\ tx[w].ver \in Versions
    /\ tx[w].pc = "known" => tx[w].order \in Customers /\ tx[w].stamp \in Stamps
    /\ tx[w].pc = "parent" => tx[w].order \in Orders /\ tx[w].stamp \in Stamps

\* Nobody holds what another holds.
Locks ==
  /\ \A w, x \in Writers : w # x =>
       /\ \A c \in Customers : ~(HasCustomer(w, c) /\ HasCustomer(x, c))
       /\ \A o \in Orders : ~(HasOrder(w, o) /\ HasOrder(x, o))
  /\ \A w \in Writers :
       /\ \A c \in Customers : HasCustomer(w, c) => c \notin eraser.gone
       /\ \A o \in Orders : HasOrder(w, o) => o \notin eraser.got

\* What a transaction found of the rows it holds is still so.
Current(w) ==
  LET o == tx[w].order
      c == CustomerOf[o][tx[w].ver]
  IN  /\ tx[w].pc \in Syncing =>
           tx[w].customer = (c \in Customers /\ CustomerFresh(c, StampOf[o][tx[w].ver]))
      /\ tx[w].pc \in {"items", "commit"} => tx[w].applies = OrderFresh(o, tx[w].ver)
      /\ tx[w].pc = "commit" /\ tx[w].applies => tx[w].gone = items[o]

\* What the erasure found of the rows it holds is still so.
Erasing ==
  /\ \A o \in eraser.want \cup eraser.got : Mirrored(o)
  /\ eraser.pc \in {"idle", "orders"} => eraser.got = {}
  /\ eraser.pc = "customers" => /\ LinkedBy(eraser.got) \subseteq eraser.who
                                /\ eraser.who \subseteq LinkedBy(eraser.got) \cup Phoned
  /\ IF eraser.pc = "commit"
       THEN /\ LinkedBy(eraser.got) \subseteq eraser.gone
            /\ eraser.gone \subseteq LinkedBy(eraser.got) \cup Phoned
       ELSE eraser.gone = {}

\* The foreign key of orders on customers.
Linked ==
  \A o \in Orders : orders[o].link \in Customers => customers[orders[o].link] # Absent

CurrentAll == \A w \in Writers : Current(w)

MInv == TypeOK /\ OnWhat /\ Locks /\ CurrentAll /\ Erasing /\ Linked /\ OneVersion

-----------------------------------------------------------------------------
(* Types                                                                   *)

LEMMA PutCustomerType ==
  ASSUME TypeOK, NEW c, NEW s \in Nat, PutCustomer(c, s)
  PROVE  customers' \in [Customers -> Nat \cup {Absent}]
BY DEF PutCustomer, TypeOK

LEMMA PutShipType ==
  ASSUME TypeOK, NEW o \in Orders, NEW f \in Ship \cup {NoShip}, PutShip(o, f)
  PROVE  ships' \in [Orders -> Ship \cup {NoShip}]
<1>1. CASE f = NoShip
  BY <1>1 DEF PutShip, TypeOK
<1>2. CASE f \in Ship
  <2>2. (f.delivered \/ ships[o].delivered) \in BOOLEAN
    OBVIOUS
  <2>3. Merged(o, f) \in Ship
    BY <1>2, <2>2 DEF Merged, Ship
  <2>4. QED
    BY <2>3 DEF PutShip, TypeOK
<1>3. QED
  BY <1>1, <1>2

LEMMA RemoveType ==
  ASSUME TypeOK, NEW got, NEW gone, Remove(got, gone)
  PROVE  /\ orders' \in [Orders -> [ver : Versions \cup {NoVersion},
                                    link : Customers \cup {NoCustomer}]]
         /\ items' \in [Orders -> SUBSET ItemRows]
         /\ customers' \in [Customers -> Nat \cup {Absent}]
         /\ ships' \in [Orders -> Ship \cup {NoShip}]
BY DEF Remove, TypeOK, NoOrder, NoShip

LEMMA TypeStep ==
  ASSUME TypeOK, OnWhat, [MNext]_vars
  PROVE  TypeOK'
<1> USE MirrorAssumption
<1>0. Idle \in Tx
  BY DEF Idle, Tx, PCs, NoStamp
<1>1. CASE UNCHANGED vars
  BY <1>1 DEF vars, tables, TypeOK
<1>2. ASSUME NEW w \in Writers, Starts(w) PROVE TypeOK'
  <2>1. ASSUME NEW o \in Orders, NEW v \in Versions, WriteCustomer(w, o, v) PROVE TypeOK'
    <3>1. (CustomerOf[o][v] \in Customers /\ CustomerFresh(CustomerOf[o][v], StampOf[o][v])) \in BOOLEAN
      BY DEF CustomerFresh, Fresh
    <3>2. [Idle EXCEPT !.pc = "order", !.order = o, !.ver = v,
             !.customer = CustomerOf[o][v] \in Customers /\ CustomerFresh(CustomerOf[o][v], StampOf[o][v])]
            \in Tx
      BY <1>0, <3>1 DEF Tx, PCs, Idle
    <3>3. QED
      BY <2>1, <3>2 DEF WriteCustomer, TypeOK, tables, Tx
  <2>2. ASSUME NEW c \in Customers, NEW s \in Stamps, CustomerExists(w, c, s) PROVE TypeOK'
    <3>1. [Idle EXCEPT !.pc = "known", !.order = c, !.stamp = s] \in Tx
      BY <1>0 DEF Tx, PCs, Idle
    <3>2. QED
      BY <2>2, <3>1 DEF CustomerExists, TypeOK, tables, Tx
  <2>3. ASSUME NEW o \in Orders, NEW s \in Stamps, OrderExists(w, o, s) PROVE TypeOK'
    <3>1. [Idle EXCEPT !.pc = "parent", !.order = o, !.stamp = s] \in Tx
      BY <1>0 DEF Tx, PCs, Idle
    <3>2. QED
      BY <2>3, <3>1 DEF OrderExists, TypeOK, tables, Tx
  <2>4. QED
    BY <1>2, <2>1, <2>2, <2>3 DEF Starts
<1>3. ASSUME NEW w \in Writers, Goes(w) PROVE TypeOK'
  <2>1. CASE WriteOrder(w)
    <3>1. tx \in [Writers -> Tx]
      BY DEF TypeOK, Tx
    <3>2. tx' \in [Writers -> Tx]
      BY <2>1, <3>1, WriteOrderTx
    <3>3. QED
      BY <2>1, <3>2 DEF WriteOrder, TypeOK, tables, Tx
  <2>2. CASE ReplaceItems(w)
    <3>1. items[tx[w].order] \in SUBSET ItemRows /\ tx \in [Writers -> Tx]
      BY <2>2 DEF ReplaceItems, OnWhat, TypeOK, Syncing, Tx
    <3>2. tx' \in [Writers -> Tx]
      BY <2>2, <3>1, ReplaceItemsTx
    <3>3. QED
      BY <2>2, <3>2 DEF ReplaceItems, TypeOK, tables, Tx
  <2>3. CASE Commit(w)
    <3> DEFINE o == tx[w].order
               v == tx[w].ver
    <3>0. o \in Orders /\ v \in Versions
      BY <2>3 DEF Commit, OnWhat, Syncing
    <3>1. o \in Orders /\ v \in Versions /\ StampOf[o][v] \in Nat
          /\ ShipOf[o][v] \in Ship \cup {NoShip} /\ CustomerOf[o][v] \in Customers \cup {NoCustomer}
      BY <3>0, VersionFacts
    <3> HIDE DEF o, v
    <3>2. tx' \in [Writers -> Tx] /\ eraser' = eraser
      BY <1>0, <2>3 DEF Commit, TypeOK, Tx
    <3>3. customers' \in [Customers -> Nat \cup {Absent}]
      BY <2>3, <3>1 DEF Commit, TypeOK, o, v
    <3>4. CASE tx[w].applies
      <4>1. /\ orders' = [orders EXCEPT ![o] = [ver |-> v, link |-> CustomerOf[o][v]]]
            /\ items' = [items EXCEPT ![o] = (@ \ tx[w].gone) \cup {<<v, w>>}]
            /\ PutShip(o, ShipOf[o][v])
        BY <2>3, <3>4 DEF Commit, o, v
      <4>2. ships' \in [Orders -> Ship \cup {NoShip}]
        BY <3>1, <4>1, PutShipType
      <4>3. items' \in [Orders -> SUBSET ItemRows]
        <5>1. <<v, w>> \in ItemRows
          BY <3>1 DEF ItemRows
        <5>2. QED
          BY <4>1, <5>1 DEF TypeOK
      <4>4. orders' \in [Orders -> [ver : Versions \cup {NoVersion},
                                   link : Customers \cup {NoCustomer}]]
        BY <3>1, <4>1 DEF TypeOK
      <4>5. QED
        BY <3>2, <3>3, <4>2, <4>3, <4>4 DEF TypeOK, Tx
    <3>5. CASE ~tx[w].applies
      BY <2>3, <3>2, <3>3, <3>5 DEF Commit, TypeOK, Tx, o, v
    <3>6. QED
      BY <3>4, <3>5
  <2>4. CASE UpsertCustomer(w)
    <3>1. tx[w].stamp \in Nat
      BY DEF TypeOK
    <3>2. customers' \in [Customers -> Nat \cup {Absent}]
      BY <2>4, <3>1, PutCustomerType DEF UpsertCustomer, UpdateCustomer
    <3>3. QED
      BY <1>0, <2>4, <3>2 DEF UpsertCustomer, UpdateCustomer, TypeOK, Tx
  <2>5. CASE UpsertFulfillment(w)
    <3>1. tx[w].stamp \in Nat /\ tx[w].order \in Orders
      BY <2>5 DEF TypeOK, OnWhat, UpsertFulfillment
    <3>2. CASE UpdateShip(tx[w].order, tx[w].stamp)
      <4>1. [stamp |-> tx[w].stamp, delivered |-> FALSE] \in Ship
        BY <3>1 DEF Ship
      <4>2. ships' \in [Orders -> Ship \cup {NoShip}]
        BY <3>1, <3>2, <4>1, PutShipType DEF UpdateShip
      <4>3. QED
        BY <1>0, <2>5, <3>2, <4>2 DEF UpsertFulfillment, UpdateShip, TypeOK, Tx
    <3>3. CASE UNCHANGED tables
      BY <1>0, <2>5, <3>3 DEF UpsertFulfillment, TypeOK, Tx, tables
    <3>4. QED
      BY <2>5, <3>2, <3>3 DEF UpsertFulfillment
  <2>6. QED
    BY <1>3, <2>1, <2>2, <2>3, <2>4, <2>5 DEF Goes
<1>4. ASSUME NEW w \in Writers, CutOff(w) PROVE TypeOK'
  BY <1>0, <1>4 DEF CutOff, TypeOK, tables, Tx
<1>5. CASE StartErase
  BY <1>5 DEF StartErase, NotErasing, TypeOK, tables, ErasePCs
<1>6. CASE Erases
  <2>1. CASE DeleteOrders
    BY <2>1 DEF DeleteOrders, TypeOK, tables, ErasePCs
  <2>2. CASE LookForCustomers
    <3>1. LinkedBy(eraser.got) \subseteq Customers
      BY DEF LinkedBy, TypeOK
    <3>2. QED
      BY <2>2, <3>1 DEF LookForCustomers, TypeOK, tables, ErasePCs
  <2>3. CASE DeleteCustomers
    BY <2>3 DEF DeleteCustomers, TypeOK, tables, ErasePCs
  <2>4. CASE CommitErase
    BY <2>4, RemoveType DEF CommitErase, NotErasing, TypeOK, ErasePCs
  <2>5. QED
    BY <1>6, <2>1, <2>2, <2>3, <2>4 DEF Erases
<1>7. CASE CutOffErase
  BY <1>7 DEF CutOffErase, NotErasing, TypeOK, tables, ErasePCs
<1>8. QED
  BY <1>1, <1>2, <1>3, <1>4, <1>5, <1>6, <1>7 DEF MNext, BreakDeadlock

\* Only the writer that takes a step changes what it is at work on.
LEMMA OnWhatStep ==
  ASSUME TypeOK, OnWhat, [MNext]_vars
  PROVE  OnWhat'
<1> USE MirrorAssumption DEF OnWhat, Syncing
<1>1. CASE UNCHANGED tx
  BY <1>1
<1>2. ASSUME NEW w \in Writers, Starts(w) PROVE OnWhat'
  <2>1. ASSUME NEW o \in Orders, NEW v \in Versions, WriteCustomer(w, o, v) PROVE OnWhat'
    BY <2>1 DEF WriteCustomer, Idle, TypeOK, NoStamp
  <2>2. ASSUME NEW c \in Customers, NEW s \in Stamps, CustomerExists(w, c, s) PROVE OnWhat'
    BY <2>2 DEF CustomerExists, Idle, TypeOK
  <2>3. ASSUME NEW o \in Orders, NEW s \in Stamps, OrderExists(w, o, s) PROVE OnWhat'
    BY <2>3 DEF OrderExists, Idle, TypeOK
  <2>4. QED
    BY <1>2, <2>1, <2>2, <2>3 DEF Starts
<1>3. ASSUME NEW w \in Writers, WriteOrder(w) \/ ReplaceItems(w) PROVE OnWhat'
  <2>0. tx \in [Writers -> Tx]
    BY DEF TypeOK, Tx
  <2>1. CASE WriteOrder(w)
    BY <2>0, <2>1, WriteOrderTx
  <2>2. CASE ReplaceItems(w)
    <3>1. items[tx[w].order] \in SUBSET ItemRows
      BY <2>2 DEF ReplaceItems, TypeOK
    <3>2. QED
      BY <2>0, <2>2, <3>1, ReplaceItemsTx
  <2>3. QED
    BY <1>3, <2>1, <2>2
<1>4. ASSUME NEW w \in Writers, tx' = [tx EXCEPT ![w] = Idle] PROVE OnWhat'
  BY <1>4 DEF Idle, TypeOK
<1>5. QED
  BY <1>1, <1>2, <1>3, <1>4
  DEF MNext, Goes, Commit, UpsertCustomer, UpsertFulfillment, CutOff, BreakDeadlock,
      StartErase, Erases, DeleteOrders, LookForCustomers, DeleteCustomers, CommitErase,
      CutOffErase, vars

\* The shape of the four tables, of every transaction and of the erasure.
THEOREM TypeCorrect == MSpec => []TypeOK
<1>1. MInit => TypeOK /\ OnWhat
  BY MirrorAssumption
  DEF MInit, Init, TypeOK, OnWhat, Syncing, Idle, NotErasing, NoOrder, NoShip, PCs, ErasePCs,
      NoStamp
<1>2. TypeOK /\ OnWhat /\ [MNext]_vars => TypeOK' /\ OnWhat'
  BY TypeStep, OnWhatStep
<1>3. QED
  BY <1>1, <1>2, PTL DEF MSpec

-----------------------------------------------------------------------------
(* The invariant is inductive                                              *)

Rest == Locks /\ CurrentAll /\ Erasing /\ Linked /\ OneVersion

\* A writer that holds nothing afterwards disturbs nobody, if it wrote nothing
\* or only fulfillments.
LEMMA Released ==
  ASSUME MInv, NEW w \in Writers, tx'[w].pc \notin Syncing,
         \A x \in Writers \ {w} : tx'[x] = tx[x],
         UNCHANGED <<orders, items, customers, eraser>>,
         \A o \in Orders : ~Mirrored(o) => ships'[o] = ships[o]
  PROVE  Rest'
<1> USE DEF MInv, Syncing
<1>1. Locks'
  BY DEF Locks, HasCustomer, HasOrder
<1>2. CurrentAll'
  BY DEF CurrentAll, Current, CustomerFresh, OrderFresh, Mirrored
<1>3. Erasing' /\ Linked' /\ OneVersion'
  BY DEF Erasing, Linked, OneVersion, Mirrored, LinkedBy
<1>4. QED
  BY <1>1, <1>2, <1>3 DEF Rest

LEMMA WriteCustomerStep ==
  ASSUME MInv, NEW w \in Writers, NEW o \in Orders, NEW v \in Versions, WriteCustomer(w, o, v)
  PROVE  Rest'
<1> USE DEF MInv, Syncing
<1> DEFINE c == CustomerOf[o][v]
           fresh == c \in Customers /\ CustomerFresh(c, StampOf[o][v])
<1>1. /\ tx'[w].pc = "order" /\ tx'[w].order = o /\ tx'[w].ver = v /\ tx'[w].customer = fresh
      /\ \A x \in Writers \ {w} : tx'[x] = tx[x]
  BY DEF WriteCustomer, TypeOK, Idle
<1>2. UNCHANGED <<orders, items, customers, ships, eraser>> /\ FreeCustomer(w, c)
  BY DEF WriteCustomer, tables
<1>3. Locks'
  BY <1>1, <1>2 DEF Locks, HasCustomer, HasOrder, FreeCustomer
<1>4. CurrentAll'
  BY <1>1, <1>2 DEF CurrentAll, Current, CustomerFresh, OrderFresh, Mirrored
<1>5. Erasing' /\ Linked' /\ OneVersion'
  BY <1>2 DEF Erasing, Linked, OneVersion, Mirrored, LinkedBy
<1>6. QED
  BY <1>3, <1>4, <1>5 DEF Rest

LEMMA WriteOrderStep ==
  ASSUME MInv, NEW w \in Writers, WriteOrder(w)
  PROVE  Rest'
<1> USE DEF MInv, Syncing
<1>0. tx \in [Writers -> Tx]
  BY DEF TypeOK, Tx
<1>1. /\ tx[w].pc = "order" /\ tx'[w].pc \in {"items", "commit"}
      /\ tx'[w].pc = "items" => tx'[w].applies
      /\ tx'[w].order = tx[w].order /\ tx'[w].ver = tx[w].ver
      /\ tx'[w].customer = tx[w].customer
      /\ tx'[w].applies = OrderFresh(tx[w].order, tx[w].ver)
      /\ \A x \in Writers \ {w} : tx'[x] = tx[x]
  BY <1>0, WriteOrderTx
<1>1a. tx'[w].pc = "commit" => ~tx'[w].applies
  BY <1>0 DEF WriteOrder, TypeOK
<1>2. UNCHANGED <<orders, items, customers, ships, eraser>> /\ FreeOrder(w, tx[w].order)
  BY DEF WriteOrder, tables
<1>3. Locks'
  BY <1>1, <1>2 DEF Locks, HasCustomer, HasOrder, FreeOrder
<1>4. CurrentAll'
  BY <1>1, <1>1a, <1>2 DEF CurrentAll, Current, CustomerFresh, OrderFresh, Mirrored
<1>5. Erasing' /\ Linked' /\ OneVersion'
  BY <1>2 DEF Erasing, Linked, OneVersion, Mirrored, LinkedBy
<1>6. QED
  BY <1>3, <1>4, <1>5 DEF Rest

LEMMA ReplaceItemsStep ==
  ASSUME MInv, NEW w \in Writers, ReplaceItems(w)
  PROVE  Rest'
<1> USE DEF MInv, Syncing
<1>0. tx \in [Writers -> Tx] /\ items[tx[w].order] \in SUBSET ItemRows
  BY DEF TypeOK, Tx, OnWhat, ReplaceItems
<1>1. /\ tx[w].pc = "items" /\ tx'[w].pc = "commit"
      /\ tx'[w].gone = items[tx[w].order]
      /\ tx'[w].order = tx[w].order /\ tx'[w].ver = tx[w].ver
      /\ tx'[w].customer = tx[w].customer /\ tx'[w].applies = tx[w].applies
      /\ \A x \in Writers \ {w} : tx'[x] = tx[x]
  BY <1>0, ReplaceItemsTx
<1>2. UNCHANGED <<orders, items, customers, ships, eraser>>
  BY DEF ReplaceItems, tables
<1>3. Locks'
  BY <1>1, <1>2 DEF Locks, HasCustomer, HasOrder
<1>4. CurrentAll'
  BY <1>1, <1>2 DEF CurrentAll, Current, CustomerFresh, OrderFresh, Mirrored
<1>5. Erasing' /\ Linked' /\ OneVersion'
  BY <1>2 DEF Erasing, Linked, OneVersion, Mirrored, LinkedBy
<1>6. QED
  BY <1>3, <1>4, <1>5 DEF Rest

\* The refreshed customer is held by nobody else.
LEMMA UpsertCustomerStep ==
  ASSUME MInv, NEW w \in Writers, UpsertCustomer(w)
  PROVE  Rest'
<1> USE DEF MInv, Syncing
<1> DEFINE c == tx[w].order
<1>1. c \in Customers /\ FreeCustomer(w, c) /\ tx[w].stamp \in Nat
  BY DEF UpsertCustomer, OnWhat, TypeOK
<1>2. tx'[w].pc = "idle" /\ \A x \in Writers \ {w} : tx'[x] = tx[x]
  BY DEF UpsertCustomer, TypeOK, Idle
<1>3. UNCHANGED <<orders, items, ships, eraser>>
  BY DEF UpsertCustomer, UpdateCustomer
<1>4. /\ \A d \in Customers \ {c} : customers'[d] = customers[d]
      /\ customers[c] # Absent => customers'[c] # Absent
  BY <1>1 DEF UpsertCustomer, UpdateCustomer, PutCustomer, TypeOK, Absent
<1>5. Locks'
  BY <1>2, <1>3 DEF Locks, HasCustomer, HasOrder
<1>6. CurrentAll'
  <2> SUFFICES ASSUME NEW x \in Writers PROVE Current(x)'
    BY DEF CurrentAll
  <2>1. CASE x = w
    BY <1>2, <2>1 DEF Current
  <2>2. CASE x # w
    <3>1. tx[x].pc \in Syncing => CustomerOf[tx[x].order][tx[x].ver] # c
      BY <1>1, <2>2 DEF FreeCustomer, HasCustomer
    <3>2. QED
      BY <1>2, <1>3, <1>4, <2>2, <3>1
      DEF CurrentAll, Current, CustomerFresh, OrderFresh, Mirrored
  <2>3. QED
    BY <2>1, <2>2
<1>7. Linked'
  BY <1>3, <1>4 DEF Linked
<1>8. Erasing' /\ OneVersion'
  BY <1>3 DEF Erasing, OneVersion, Mirrored, LinkedBy
<1>9. QED
  BY <1>5, <1>6, <1>7, <1>8 DEF Rest

\* What a commit leaves of the tables.
LEMMA CommitTables ==
  ASSUME MInv, NEW w \in Writers, Commit(w), NEW o, o = tx[w].order, NEW v, v = tx[w].ver
  PROVE  /\ o \in Orders /\ HasOrder(w, o)
         /\ \A p \in Orders \ {o} : /\ orders'[p] = orders[p] /\ items'[p] = items[p]
                                   /\ ships'[p] = ships[p]
         /\ \A c \in Customers : customers'[c] # customers[c] => HasCustomer(w, c)
         /\ \A c \in Customers : customers[c] # Absent => customers'[c] # Absent
         /\ CustomerOf[o][v] \in Customers => customers'[CustomerOf[o][v]] # Absent
         /\ \/ /\ orders'[o].ver \in Versions /\ orders'[o].link = CustomerOf[o][v]
               /\ items'[o] = {<<orders'[o].ver, w>>}
            \/ /\ orders'[o] = orders[o] /\ items'[o] = items[o] /\ ships'[o] = ships[o]
               /\ Mirrored(o)
<1> USE MirrorAssumption DEF MInv, Syncing
<1>0. tx[w].pc = "commit" /\ o \in Orders /\ v \in Versions
  BY DEF Commit, OnWhat
<1>1. /\ tx[w].pc = "commit" /\ o \in Orders /\ v \in Versions /\ StampOf[o][v] \in Nat
      /\ CustomerOf[o][v] \in Customers \cup {NoCustomer}
  BY <1>0, VersionFacts
<1>2. HasOrder(w, o)
  BY <1>1 DEF HasOrder
<1>3. /\ tx[w].customer = (CustomerOf[o][v] \in Customers /\ CustomerFresh(CustomerOf[o][v], StampOf[o][v]))
      /\ tx[w].applies = OrderFresh(o, v) /\ (tx[w].applies => tx[w].gone = items[o])
  BY <1>1 DEF CurrentAll, Current
<1>4. customers' = IF tx[w].customer
                   THEN [customers EXCEPT ![CustomerOf[o][v]] = StampOf[o][v]] ELSE customers
  BY DEF Commit
<1>5. /\ \A c \in Customers : customers'[c] # customers[c] => HasCustomer(w, c)
      /\ \A c \in Customers : customers[c] # Absent => customers'[c] # Absent
      /\ CustomerOf[o][v] \in Customers => customers'[CustomerOf[o][v]] # Absent
  <2>1. \A c \in Customers : HasCustomer(w, c) <=> CustomerOf[o][v] = c
    BY <1>1 DEF HasCustomer
  <2>2. CASE tx[w].customer
    <3>1. StampOf[o][v] # Absent
      BY <1>1 DEF Absent
    <3>2. QED
      BY <1>3, <1>4, <2>1, <2>2, <3>1 DEF TypeOK
  <2>3. CASE ~tx[w].customer
    BY <1>3, <1>4, <2>3 DEF CustomerFresh
  <2>4. QED
    BY <2>2, <2>3
<1>6. CASE tx[w].applies
  <2>1. /\ orders' = [orders EXCEPT ![o] = [ver |-> v, link |-> CustomerOf[o][v]]]
        /\ items' = [items EXCEPT ![o] = (@ \ tx[w].gone) \cup {<<v, w>>}]
        /\ PutShip(o, ShipOf[o][v])
    BY <1>6 DEF Commit
  <2>2. \A p \in Orders \ {o} : ships'[p] = ships[p]
    BY <2>1 DEF PutShip, TypeOK
  <2>3. items'[o] = {<<v, w>>}
    BY <1>1, <1>3, <1>6, <2>1 DEF TypeOK
  <2>4. QED
    BY <1>1, <1>2, <1>5, <2>1, <2>2, <2>3 DEF TypeOK
<1>7. CASE ~tx[w].applies
  BY <1>1, <1>2, <1>3, <1>5, <1>7 DEF Commit, OrderFresh
<1>8. QED
  BY <1>6, <1>7

LEMMA CommitStep ==
  ASSUME MInv, NEW w \in Writers, Commit(w)
  PROVE  Rest'
<1> USE MirrorAssumption DEF MInv, Syncing
<1> DEFINE o == tx[w].order
           v == tx[w].ver
<1>1. /\ o \in Orders /\ HasOrder(w, o)
      /\ \A p \in Orders \ {o} : /\ orders'[p] = orders[p] /\ items'[p] = items[p]
                                /\ ships'[p] = ships[p]
      /\ \A c \in Customers : customers'[c] # customers[c] => HasCustomer(w, c)
      /\ \A c \in Customers : customers[c] # Absent => customers'[c] # Absent
      /\ CustomerOf[o][v] \in Customers => customers'[CustomerOf[o][v]] # Absent
      /\ \/ /\ orders'[o].ver \in Versions /\ orders'[o].link = CustomerOf[o][v]
            /\ items'[o] = {<<orders'[o].ver, w>>}
         \/ /\ orders'[o] = orders[o] /\ items'[o] = items[o] /\ ships'[o] = ships[o]
            /\ Mirrored(o)
  BY CommitTables
<1> HIDE DEF o, v
<1>2. tx'[w].pc = "idle" /\ \A x \in Writers \ {w} : tx'[x] = tx[x]
  BY DEF Commit, TypeOK, Idle
<1>3. eraser' = eraser
  BY DEF Commit
<1>4. Locks'
  BY <1>2, <1>3 DEF Locks, HasCustomer, HasOrder
<1>5. CurrentAll'
  <2> SUFFICES ASSUME NEW x \in Writers PROVE Current(x)'
    BY DEF CurrentAll
  <2>1. CASE x = w
    BY <1>2, <2>1 DEF Current
  <2>2. CASE x # w
    <3>1. tx[x].pc \in {"items", "commit"} => tx[x].order \in Orders \ {o}
      BY <1>1, <2>2 DEF Locks, HasOrder, OnWhat
    <3>2. tx[x].pc \in Syncing /\ CustomerOf[tx[x].order][tx[x].ver] \in Customers
            => customers'[CustomerOf[tx[x].order][tx[x].ver]] = customers[CustomerOf[tx[x].order][tx[x].ver]]
      BY <1>1, <2>2 DEF Locks, HasCustomer
    <3>3. QED
      BY <1>1, <1>2, <2>2, <3>1, <3>2
      DEF CurrentAll, Current, CustomerFresh, OrderFresh, Mirrored
  <2>3. QED
    BY <2>1, <2>2
<1>6. Erasing'
  <2>1. \A p \in Orders : Mirrored(p) => Mirrored(p)'
    BY <1>1 DEF Mirrored, NoVersion
  <2>2. eraser.want \subseteq Orders /\ eraser.got \subseteq Orders
    BY DEF TypeOK
  <2>3. \A p \in eraser.got : orders'[p] = orders[p]
    BY <1>1, <2>2 DEF Locks
  <2>4. LinkedBy(eraser.got)' = LinkedBy(eraser.got)
    BY <1>3, <2>3 DEF LinkedBy
  <2>5. QED
    BY <1>3, <2>1, <2>2, <2>4 DEF Erasing
<1>7. Linked'
  BY <1>1 DEF Linked
<1>8. OneVersion'
  BY <1>1 DEF OneVersion, Mirrored, NoVersion
<1>9. QED
  BY <1>4, <1>5, <1>6, <1>7, <1>8 DEF Rest

LEMMA EraserStep ==
  ASSUME MInv, TypeOK', UNCHANGED <<tables, tx>>,
         StartErase \/ DeleteOrders \/ LookForCustomers \/ DeleteCustomers \/ CutOffErase
  PROVE  Rest'
<1> USE MirrorAssumption DEF MInv, tables
<1>1. CurrentAll' /\ Linked' /\ OneVersion'
  BY DEF CurrentAll, Current, CustomerFresh, OrderFresh, Mirrored, Linked, OneVersion
<1>2. CASE StartErase \/ CutOffErase
  <2>1. /\ eraser'.pc \in {"idle", "orders"} /\ eraser'.got = {} /\ eraser'.gone = {}
        /\ \A o \in eraser'.want : Mirrored(o)
    <3>1. CASE StartErase
      BY <3>1 DEF StartErase, NotErasing
    <3>2. CASE CutOffErase
      BY <3>2 DEF CutOffErase, NotErasing
    <3>3. QED
      BY <1>2, <3>1, <3>2
  <2>2. Locks' /\ Erasing'
    BY <2>1 DEF Locks, Erasing, HasCustomer, HasOrder, Mirrored
  <2>3. QED
    BY <1>1, <2>2 DEF Rest
<1>3. CASE DeleteOrders
  <2>1. /\ eraser'.pc = "linked" /\ eraser'.got = eraser.want /\ eraser'.want = eraser.want
        /\ eraser'.gone = eraser.gone /\ eraser.pc = "orders"
        /\ \A o \in eraser.want, w \in Writers : ~HasOrder(w, o)
    BY <1>3 DEF DeleteOrders, TypeOK
  <2>2. Locks' /\ Erasing'
    BY <2>1 DEF Locks, Erasing, HasCustomer, HasOrder, Mirrored
  <2>3. QED
    BY <1>1, <2>2 DEF Rest
<1>4. CASE LookForCustomers
  <2>1. /\ eraser'.pc = "customers" /\ eraser'.got = eraser.got /\ eraser'.want = eraser.want
        /\ eraser'.gone = eraser.gone /\ eraser.pc = "linked"
        /\ eraser'.who = {c \in LinkedBy(eraser.got) \cup Phoned : customers[c] # Absent}
    BY <1>4 DEF LookForCustomers, TypeOK
  <2>2. LinkedBy(eraser.got) \subseteq eraser'.who
    <3>1. eraser.got \subseteq Orders
      BY DEF TypeOK
    <3>2. \A o \in Orders : orders[o].link \in Customers \cup {NoCustomer}
      BY DEF TypeOK
    <3>3. QED
      BY <2>1, <3>1, <3>2 DEF LinkedBy, Linked
  <2>3. LinkedBy(eraser.got)' = LinkedBy(eraser.got)
    BY <2>1 DEF LinkedBy
  <2>4. Erasing'
    BY <2>1, <2>2, <2>3 DEF Erasing, Mirrored
  <2>5. Locks'
    BY <2>1 DEF Locks, HasCustomer, HasOrder
  <2>6. QED
    BY <1>1, <2>4, <2>5 DEF Rest
<1>5. CASE DeleteCustomers
  <2>1. /\ eraser'.pc = "commit" /\ eraser'.got = eraser.got /\ eraser'.want = eraser.want
        /\ eraser'.gone = eraser.who /\ eraser.pc = "customers"
        /\ \A c \in eraser.who, w \in Writers : ~HasCustomer(w, c)
    BY <1>5 DEF DeleteCustomers, TypeOK
  <2>2. LinkedBy(eraser.got)' = LinkedBy(eraser.got)
    BY <2>1 DEF LinkedBy
  <2>3. Locks' /\ Erasing'
    BY <2>1, <2>2 DEF Locks, Erasing, HasCustomer, HasOrder, Mirrored
  <2>4. QED
    BY <1>1, <2>3 DEF Rest
<1>6. QED
  BY <1>2, <1>3, <1>4, <1>5

\* The erasure removes only what it holds.
LEMMA CommitEraseStep ==
  ASSUME MInv, CommitErase
  PROVE  Rest'
<1> USE MirrorAssumption DEF MInv, Syncing
<1> DEFINE got == eraser.got
           gone == eraser.gone
<1>1. tx' = tx /\ eraser' = NotErasing
  BY DEF CommitErase
<1>2. /\ \A o \in Orders : o \notin got =>
            /\ orders'[o].ver = orders[o].ver /\ items'[o] = items[o] /\ ships'[o] = ships[o]
            /\ orders'[o].link \in Customers =>
                 orders'[o].link = orders[o].link /\ orders[o].link \notin gone
      /\ \A o \in Orders : o \in got =>
            /\ orders'[o].ver = NoVersion /\ orders'[o].link = NoCustomer
            /\ items'[o] = {} /\ ships'[o] = NoShip
      /\ \A c \in Customers : c \notin gone => customers'[c] = customers[c]
  BY DEF CommitErase, Remove, TypeOK, NoOrder
<1>3. Locks' /\ Erasing'
  BY <1>1 DEF Locks, Erasing, HasCustomer, HasOrder, NotErasing
<1>4. CurrentAll'
  <2> SUFFICES ASSUME NEW x \in Writers PROVE Current(x)'
    BY DEF CurrentAll
  <2>1. tx[x].pc \in {"items", "commit"} => tx[x].order \in Orders /\ tx[x].order \notin got
    BY DEF Locks, HasOrder, OnWhat
  <2>2. tx[x].pc \in Syncing /\ CustomerOf[tx[x].order][tx[x].ver] \in Customers
          => CustomerOf[tx[x].order][tx[x].ver] \notin gone
    BY DEF Locks, HasCustomer
  <2> HIDE DEF got, gone
  <2>3. tx[x].pc \in Syncing /\ CustomerOf[tx[x].order][tx[x].ver] \in Customers
          => customers'[CustomerOf[tx[x].order][tx[x].ver]] = customers[CustomerOf[tx[x].order][tx[x].ver]]
    BY <1>2, <2>2
  <2>4. tx[x].pc \in {"items", "commit"} =>
          /\ orders'[tx[x].order].ver = orders[tx[x].order].ver
          /\ items'[tx[x].order] = items[tx[x].order]
    BY <1>2, <2>1
  <2>5. QED
    BY <1>1, <2>3, <2>4 DEF CurrentAll, Current, CustomerFresh, OrderFresh, Mirrored
<1> HIDE DEF got, gone
<1>5. Linked'
  <2> SUFFICES ASSUME NEW o \in Orders, orders'[o].link \in Customers
               PROVE  customers'[orders'[o].link] # Absent
    BY DEF Linked
  <2>1. o \notin got
    BY <1>2
  <2>2. QED
    BY <1>2, <2>1 DEF Linked
<1>6. OneVersion'
  <2> SUFFICES ASSUME NEW o \in Orders
               PROVE  IF Mirrored(o)' THEN \E w \in Writers : items'[o] = {<<orders'[o].ver, w>>}
                      ELSE items'[o] = {} /\ ships'[o] = NoShip
    BY DEF OneVersion
  <2>1. CASE o \in got
    BY <1>2, <2>1 DEF Mirrored
  <2>2. CASE o \notin got
    BY <1>2, <2>2 DEF OneVersion, Mirrored
  <2>3. QED
    BY <2>1, <2>2
<1>7. QED
  BY <1>3, <1>4, <1>5, <1>6 DEF Rest

LEMMA InvStep ==
  ASSUME MInv, [MNext]_vars
  PROVE  MInv'
<1>1. TypeOK' /\ OnWhat'
  BY TypeStep, OnWhatStep DEF MInv
<1>2. CASE UNCHANGED vars
  BY <1>2 DEF vars, tables, MInv, TypeOK, OnWhat, Locks, HasCustomer, HasOrder, CurrentAll,
              Current, CustomerFresh, OrderFresh, Mirrored, Erasing, LinkedBy, Linked, OneVersion
<1>3. ASSUME NEW w \in Writers, Starts(w) PROVE Rest'
  <2>1. ASSUME NEW o \in Orders, NEW v \in Versions, WriteCustomer(w, o, v) PROVE Rest'
    BY <2>1, WriteCustomerStep
  <2>2. ASSUME \/ \E c \in Customers, s \in Stamps : CustomerExists(w, c, s)
               \/ \E o \in Orders, s \in Stamps : OrderExists(w, o, s)
        PROVE  Rest'
    <3>1. tx'[w].pc \notin Syncing /\ \A x \in Writers \ {w} : tx'[x] = tx[x]
      <4>1. CASE \E c \in Customers, s \in Stamps : CustomerExists(w, c, s)
        BY <4>1 DEF CustomerExists, MInv, TypeOK, Idle, Syncing
      <4>2. CASE \E o \in Orders, s \in Stamps : OrderExists(w, o, s)
        BY <4>2 DEF OrderExists, MInv, TypeOK, Idle, Syncing
      <4>3. QED
        BY <2>2, <4>1, <4>2
    <3>2. UNCHANGED <<orders, items, customers, ships, eraser>>
      BY <2>2 DEF CustomerExists, OrderExists, tables
    <3>3. QED
      BY <3>1, <3>2, Released
  <2>3. QED
    BY <1>3, <2>1, <2>2 DEF Starts
<1>4. ASSUME NEW w \in Writers, UpsertFulfillment(w) \/ CutOff(w) PROVE Rest'
  <2>1. tx'[w].pc \notin Syncing /\ \A x \in Writers \ {w} : tx'[x] = tx[x]
    BY <1>4 DEF UpsertFulfillment, CutOff, MInv, TypeOK, Idle, Syncing
  <2>2. UNCHANGED <<orders, items, customers, eraser>>
    BY <1>4 DEF UpsertFulfillment, UpdateShip, CutOff, tables
  <2>3. \A o \in Orders : ~Mirrored(o) => ships'[o] = ships[o]
    BY <1>4 DEF UpsertFulfillment, UpdateShip, PutShip, CutOff, tables, MInv, TypeOK
  <2>4. QED
    BY <2>1, <2>2, <2>3, Released
<1>5. ASSUME NEW w \in Writers, Goes(w) PROVE Rest'
  BY <1>4, <1>5, WriteOrderStep, ReplaceItemsStep, CommitStep, UpsertCustomerStep DEF Goes
<1>6. ASSUME StartErase \/ CutOffErase \/ Erases PROVE Rest'
  <2>1. CASE CommitErase
    BY <2>1, CommitEraseStep
  <2>2. CASE ~CommitErase
    <3>1. UNCHANGED <<tables, tx>>
      BY <1>6, <2>2 DEF Erases, StartErase, CutOffErase, DeleteOrders, LookForCustomers,
                        DeleteCustomers
    <3>2. QED
      BY <1>1, <1>6, <2>2, <3>1, EraserStep DEF Erases
  <2>3. QED
    BY <2>1, <2>2
<1>7. QED
  BY <1>1, <1>2, <1>3, <1>4, <1>5, <1>6 DEF MNext, BreakDeadlock, MInv, Rest

LEMMA InvInit == MInit => MInv
BY MirrorAssumption
DEF MInit, Init, MInv, TypeOK, OnWhat, Locks, CurrentAll, Current, Erasing, Linked, OneVersion,
    HasCustomer, HasOrder, LinkedBy, Mirrored, Syncing, Idle, NotErasing, NoOrder, NoShip, PCs,
    ErasePCs, NoStamp

LEMMA Invariant == MSpec => []MInv
BY InvInit, InvStep, PTL DEF MSpec

\* No interleaving of syncs, refreshes, fulfillments and erasures leaves an
\* order with the line items of another version, or with two sets of them.
THEOREM ItemsFollowTheirHeader == MSpec => []OneVersion
<1>1. MInv => OneVersion
  BY DEF MInv
<1>2. QED
  BY <1>1, Invariant, PTL

-----------------------------------------------------------------------------
(* Every step is an atomic write, or none                                  *)

LEMMA CommitIsSync ==
  ASSUME MInv, NEW w \in Writers, Commit(w)
  PROVE  \E o \in Orders, v \in Versions : Sync(w, o, v)
<1> USE DEF MInv, Syncing
<1> DEFINE o == tx[w].order
           v == tx[w].ver
<1>1. tx[w].pc = "commit" /\ o \in Orders /\ v \in Versions
  BY DEF Commit, OnWhat
<1>2. /\ tx[w].customer = (CustomerOf[o][v] \in Customers /\ CustomerFresh(CustomerOf[o][v], StampOf[o][v]))
      /\ tx[w].applies = OrderFresh(o, v) /\ (tx[w].applies => tx[w].gone = items[o])
  BY <1>1 DEF CurrentAll, Current
<1>3. PutCustomer(CustomerOf[o][v], StampOf[o][v])
  BY <1>2 DEF Commit, PutCustomer
<1>4. CASE tx[w].applies
  <2>1. items' = [items EXCEPT ![o] = (@ \ items[o]) \cup {<<v, w>>}]
    BY <1>2, <1>4 DEF Commit
  <2>2. items' = [items EXCEPT ![o] = {<<v, w>>}]
    BY <1>1, <2>1 DEF TypeOK
  <2>3. Sync(w, o, v)
    BY <1>2, <1>3, <1>4, <2>2 DEF Sync, Commit
  <2>4. QED
    BY <1>1, <2>3
<1>5. CASE ~tx[w].applies
  <2>1. Sync(w, o, v)
    BY <1>2, <1>3, <1>5 DEF Sync, Commit
  <2>2. QED
    BY <1>1, <2>1
<1>6. QED
  BY <1>4, <1>5

LEMMA CommitEraseIsErase ==
  ASSUME MInv, CommitErase
  PROVE  \E got \in SUBSET Subject, gone \in SUBSET Customers : Erase(got, gone)
<1>1. eraser.got \in SUBSET Subject /\ eraser.gone \in SUBSET Customers
  BY DEF MInv, TypeOK
<1>2. Erase(eraser.got, eraser.gone)
  BY DEF MInv, CommitErase, Erase, Erasing
<1>3. QED
  BY <1>1, <1>2

LEMMA StepRefines ==
  ASSUME MInv, [MNext]_vars
  PROVE  [Next]_tables
<1>1. CASE UNCHANGED tables
  BY <1>1
<1>2. ASSUME NEW w \in Writers, Commit(w) PROVE Next
  BY <1>2, CommitIsSync DEF Next
<1>3. ASSUME NEW w \in Writers, UpsertCustomer(w) PROVE [Next]_tables
  <2>1. tx[w].order \in Customers /\ tx[w].stamp \in Stamps
    BY <1>3 DEF UpsertCustomer, MInv, OnWhat
  <2>2. UpdateCustomer(tx[w].order, tx[w].stamp)
    BY <1>3 DEF UpsertCustomer
  <2>3. QED
    BY <2>1, <2>2 DEF Next
<1>4. ASSUME NEW w \in Writers, UpsertFulfillment(w) PROVE [Next]_tables
  <2>1. tx[w].order \in Orders /\ tx[w].stamp \in Stamps
    BY <1>4 DEF UpsertFulfillment, MInv, OnWhat
  <2>2. UpdateShip(tx[w].order, tx[w].stamp) \/ UNCHANGED tables
    BY <1>4 DEF UpsertFulfillment
  <2>3. QED
    BY <2>1, <2>2 DEF Next
<1>5. CASE CommitErase
  BY <1>5, CommitEraseIsErase DEF Next
<1>6. QED
  BY <1>1, <1>2, <1>3, <1>4, <1>5
  DEF MNext, Starts, WriteCustomer, CustomerExists, OrderExists, Goes, WriteOrder, ReplaceItems,
      CutOff, BreakDeadlock, StartErase, Erases, DeleteOrders, LookForCustomers, DeleteCustomers,
      CutOffErase, vars

\* The transactions as they interleave implement the atomic writes of Mirror.
THEOREM Refines == MSpec => ImplementsMirror
<1>1. MInit => Init
  BY DEF MInit
<1>2. MInv /\ [MNext]_vars => [Next]_tables
  BY StepRefines
<1>3. QED
  BY <1>1, <1>2, Invariant, PTL DEF MSpec, ImplementsMirror, Spec
=============================================================================
